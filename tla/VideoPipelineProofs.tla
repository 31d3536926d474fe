------------------------ MODULE VideoPipelineProofs ------------------------
(***************************************************************************)
(* One video in VideoPipeline, for any number of slots and requests, any   *)
(* attempts, and any calls that may fail: first what each step does to the *)
(* rows, the jobs and the executions, as lemmas named after the steps;     *)
(* then, under every fault, that what is READY is paid unless someone      *)
(* retries; and, when no execution is interrupted or repeated (Calm), that *)
(* one execution at a time works on the video, and what follows from that: *)
(* moments match the transcript, a COMPLETED transcript stays, a failed    *)
(* video is refunded, and the owner sees VideoLifecycle.  Last, what an     *)
(* analysis computes: the algorithms of Moments, for any transcript.        *)
(***************************************************************************)
EXTENDS VideoPipeline, FiniteSetTheorems, WellFoundedInduction, TLAPS

Pcs == HandlerCalls \cup {"idle", "failing", "fail", "refund", "give-up"}

Alone(w) == \A v \in Slots : v # w => task'[v] = task[v]

-----------------------------------------------------------------------------
(* What a step makes of an execution.                                      *)

LEMMA Going ==
    ASSUME Shaped, NEW w \in Slots, NEW pc \in Pcs, Goto(w, pc)
    PROVE  /\ task' \in [Slots -> Task] /\ Alone(w)
           /\ task'[w].pc = pc /\ task'[w].job = task[w].job /\ task'[w].seen = task[w].seen
           /\ task'[w].version = task[w].version /\ task'[w].next = task[w].next
<1> DEFINE t == [task[w] EXCEPT !.pc = pc]
<1>1. task \in [Slots -> Task] /\ task[w] \in Task
  BY DEF Shaped
<1>2. /\ t \in Task /\ t.pc = pc /\ t.job = task[w].job /\ t.seen = task[w].seen
      /\ t.version = task[w].version /\ t.next = task[w].next
  BY <1>1 DEF Task, Pcs
<1>3. task' = [task EXCEPT ![w] = t]
  BY DEF Goto
<1> HIDE DEF t
<1>. QED BY <1>1, <1>2, <1>3 DEF Alone

LEMMA Reading ==
    ASSUME Shaped, NEW w \in Slots, NEW pc \in Pcs, Read(w, pc)
    PROVE  /\ task' \in [Slots -> Task] /\ Alone(w)
           /\ task'[w].pc = pc /\ task'[w].job = task[w].job /\ task'[w].seen = video
           /\ task'[w].version = task[w].version /\ task'[w].next = task[w].next
<1> DEFINE t == [task[w] EXCEPT !.pc = pc, !.seen = video]
<1>1. task \in [Slots -> Task] /\ task[w] \in Task /\ video \in Video
  BY DEF Shaped
<1>2. /\ t \in Task /\ t.pc = pc /\ t.job = task[w].job /\ t.seen = video
      /\ t.version = task[w].version /\ t.next = task[w].next
  BY <1>1 DEF Task, Pcs
<1>3. task' = [task EXCEPT ![w] = t]
  BY <1>1 DEF Read
<1> HIDE DEF t
<1>. QED BY <1>1, <1>2, <1>3 DEF Alone

LEMMA Carrying ==
    ASSUME Shaped, NEW w \in Slots, NEW next \in Enqueued, GoEnqueue(w, next)
    PROVE  /\ task' \in [Slots -> Task] /\ Alone(w)
           /\ task'[w].pc = "enqueue" /\ task'[w].job = task[w].job /\ task'[w].next = next
<1> DEFINE t == [task[w] EXCEPT !.pc = "enqueue", !.next = next, !.version = 0]
<1>1. task \in [Slots -> Task] /\ task[w] \in Task
  BY DEF Shaped
<1>2. t \in Task /\ t.pc = "enqueue" /\ t.job = task[w].job /\ t.next = next
  BY <1>1 DEF Task, HandlerCalls
<1>3. task' = [task EXCEPT ![w] = t]
  BY <1>1 DEF GoEnqueue
<1> HIDE DEF t
<1>. QED BY <1>1, <1>2, <1>3 DEF Alone

LEMMA Failing ==
    ASSUME Shaped, NEW w \in Slots, NEW err \in {"transient", "credits", "fatal"}, Fails(w, err)
    PROVE  /\ task' \in [Slots -> Task] /\ Alone(w)
           /\ task'[w].pc = "failing" /\ task'[w].job = task[w].job
<1> DEFINE t == [task[w] EXCEPT !.pc = "failing", !.err = err, !.seen = None, !.version = 0,
                                !.next = None]
<1>1. task \in [Slots -> Task] /\ task[w] \in Task
  BY DEF Shaped
<1>2. t \in Task /\ t.pc = "failing" /\ t.job = task[w].job
  BY <1>1 DEF Task
<1>3. task' = [task EXCEPT ![w] = t]
  BY <1>1 DEF Fails
<1> HIDE DEF t
<1>. QED BY <1>1, <1>2, <1>3 DEF Alone

LEMMA Idling ==
    ASSUME Shaped, NEW w \in Slots, task' = [task EXCEPT ![w] = Idle]
    PROVE  task' \in [Slots -> Task] /\ Alone(w) /\ task'[w].pc = "idle"
<1>1. Idle \in Task /\ Idle.pc = "idle"
  BY DEF Idle, Task
<1>. QED BY <1>1 DEF Shaped, Alone

LEMMA Starting ==
    ASSUME Shaped, NEW w \in Slots, NEW id \in DOMAIN jobs,
           task' = [task EXCEPT ![w] = [Idle EXCEPT !.pc = "read", !.job = id,
                                                    !.attempt = jobs[id].attempts + 1]]
    PROVE  task' \in [Slots -> Task] /\ Alone(w) /\ task'[w].pc = "read" /\ task'[w].job = id
<1> DEFINE n == jobs[id].attempts + 1
           t == [Idle EXCEPT !.pc = "read", !.job = id, !.attempt = n]
<1>1. n \in Nat /\ id \in JobId /\ task \in [Slots -> Task]
  BY DEF Shaped, Job
<1>2. task' = [task EXCEPT ![w] = t]
  OBVIOUS
<1> HIDE DEF n
<1>3. t \in Task /\ t.pc = "read" /\ t.job = id
  BY <1>1 DEF Idle, Task, HandlerCalls
<1> HIDE DEF t
<1>. QED BY <1>1, <1>2, <1>3 DEF Alone

-----------------------------------------------------------------------------
(* What a step makes of the jobs, and of the counted faults.               *)

(* A job's own step: its id and its data stay, and the other jobs.          *)
OnlyJob(id) ==
    /\ DOMAIN jobs' = DOMAIN jobs /\ jobs' \in [DOMAIN jobs -> Job]
    /\ jobs'[id].data = jobs[id].data
    /\ \A i \in DOMAIN jobs : i # id => jobs'[i] = jobs[i]

LEMMA JobUpdates ==
    ASSUME NEW j \in Job, NEW state \in {"waiting", "active", "completed", "failed"},
           NEW slot \in Slots \cup {None}, NEW n \in Nat
    PROVE  /\ [j EXCEPT !.state = state, !.slot = slot] \in Job
           /\ [j EXCEPT !.state = state, !.slot = slot, !.attempts = n] \in Job
           /\ [j EXCEPT !.slot = slot, !.stalls = n, !.state = state] \in Job
BY DEF Job

LEMMA Taking ==
    ASSUME Shaped, NEW w \in Slots, NEW id \in DOMAIN jobs, Take(w, id)
    PROVE  OnlyJob(id) /\ jobs[id].state = "waiting" /\ jobs'[id].state = "active" /\ jobs'[id].slot = w
<1> DEFINE j == [jobs[id] EXCEPT !.state = "active", !.slot = w]
<1>1. jobs \in [DOMAIN jobs -> Job] /\ jobs[id] \in Job
  BY DEF Shaped
<1>2. j \in Job /\ j.state = "active" /\ j.slot = w /\ j.data = jobs[id].data
  BY <1>1 DEF Job
<1>3. jobs[id].state = "waiting" /\ jobs' = [jobs EXCEPT ![id] = j]
  BY DEF Take
<1> HIDE DEF j
<1>. QED BY <1>1, <1>2, <1>3 DEF OnlyJob

LEMMA Settling ==
    ASSUME Shaped, NEW w \in Slots, NEW id \in DOMAIN jobs,
           NEW state \in {"waiting", "completed", "failed"}, Settle(w, id, state)
    PROVE  /\ OnlyJob(id)
           /\ Holds(w, id) => jobs'[id].state = state
<1> DEFINE n == jobs[id].attempts + 1
           j == [jobs[id] EXCEPT !.state = state, !.slot = None, !.attempts = n]
<1>1. jobs \in [DOMAIN jobs -> Job] /\ jobs[id] \in Job /\ n \in Nat
  BY DEF Shaped, Job
<1> HIDE DEF n
<1>2. j \in Job /\ j.state = state /\ j.data = jobs[id].data
  BY <1>1 DEF Job
<1>3. jobs' = IF ~ Holds(w, id) THEN jobs ELSE [jobs EXCEPT ![id] = j]
  BY DEF Settle, n
<1> HIDE DEF j
<1>. QED BY <1>1, <1>2, <1>3 DEF OnlyJob

LEMMA Reclaiming ==
    ASSUME Shaped, NEW id \in DOMAIN jobs, Reclaim(id)
    PROVE  OnlyJob(id) /\ jobs[id].state = "active"
<1> DEFINE n == jobs[id].stalls + 1
           state == IF jobs[id].stalls < MaxStalls THEN "waiting" ELSE "failed"
           j == [jobs[id] EXCEPT !.slot = None, !.stalls = n, !.state = state]
<1>1. /\ jobs \in [DOMAIN jobs -> Job] /\ jobs[id] \in Job /\ n \in Nat
      /\ state \in {"waiting", "failed"}
  BY DEF Shaped, Job
<1>2. jobs[id].state = "active" /\ jobs' = [jobs EXCEPT ![id] = j]
  BY DEF Reclaim
<1> HIDE DEF n, state
<1>3. j \in Job /\ j.data = jobs[id].data
  BY <1>1 DEF Job
<1> HIDE DEF j
<1>. QED BY <1>1, <1>2, <1>3 DEF OnlyJob

LEMMA Adding ==
    ASSUME Shaped, NEW id \in JobId, NEW data \in Nat \cup {None}, Add(id, data)
    PROVE  /\ DOMAIN jobs' = DOMAIN jobs \cup {id} /\ jobs' \in [DOMAIN jobs' -> Job]
           /\ DOMAIN jobs' \subseteq JobId
           /\ \A i \in DOMAIN jobs : jobs'[i] = jobs[i]
           /\ id \notin DOMAIN jobs => jobs'[id].state = "waiting" /\ jobs'[id].data = data
<1>1. jobs \in [DOMAIN jobs -> Job] /\ DOMAIN jobs \subseteq JobId
  BY DEF Shaped
<1>2. Added(data) \in Job /\ Added(data).state = "waiting" /\ Added(data).data = data
  BY DEF Added, Job
<1>3. jobs' = [i \in DOMAIN jobs \cup {id} |-> IF i \in DOMAIN jobs THEN jobs[i] ELSE Added(data)]
  BY DEF Add
<1>. QED BY <1>1, <1>2, <1>3

Counters == {"faults", "errors", "crashes", "lostLocks", "requests", "removals"}

LEMMA Bounds == /\ DOMAIN Bound = Counters /\ Counted = Counters \cup {"lateRefunds"}
                /\ \A x \in Counters : Bound[x] \in Nat /\ x # "lateRefunds"
BY VideoAssumption DEF Counters, Counted

LEMMA Using ==
    ASSUME Shaped, NEW x \in Counters, Use(x)
    PROVE  /\ used' \in [Counted -> Nat] /\ used[x] < Bound[x] /\ used'[x] = used[x] + 1
           /\ \A y \in Counters : y # x => used'[y] = used[y]
BY Bounds DEF Shaped, Use

LEMMA Suffering ==
    ASSUME Shaped, NEW x \in Counters \ {"faults", "requests"}, Suffer(x)
    PROVE  /\ used' \in [Counted -> Nat] /\ used[x] < Bound[x]
           /\ used'["requests"] = used["requests"]
<1>1. used \in [Counted -> Nat] /\ DOMAIN Bound = Counters /\ "faults" \in Counters
      /\ Counters \subseteq Counted
  BY Bounds DEF Shaped, Counters
<1>2. used' = [used EXCEPT ![x] = used[x] + 1, !["faults"] = used["faults"] + 1]
  BY <1>1 DEF Suffer
<1>3. \A y \in Counted : used'[y] \in Nat /\ DOMAIN used' = Counted
  BY <1>1, <1>2
<1>4. "requests" \in Counted /\ x # "requests" /\ x \in Counters
  BY <1>1 DEF Counters
<1>5. used'["requests"] = used["requests"]
  BY <1>1, <1>2, <1>4
<1>6. used' \in [Counted -> Nat]
  BY <1>1, <1>2, <1>3
<1>. QED BY <1>5, <1>6 DEF Suffer

-----------------------------------------------------------------------------
(* What a step makes of a request.                                         *)

Else(q) == \A p \in Requests : p # q => request'[p] = request[p]

LEMMA Asking ==
    ASSUME Shaped, NEW q \in Requests, NEW plan \in DOMAIN PlanTo, Ask(q, plan)
    PROVE  /\ request' \in [Requests -> Asked] /\ Else(q) /\ Intends(q)'
           /\ request'[q].pc = "transition" /\ request[q].pc = "idle"
<1> DEFINE r == [NoRequest EXCEPT !.pc = "transition", !.plan = plan]
<1>1. r \in Asked /\ r.pc = "transition" /\ r.plan = plan
  BY DEF NoRequest, Asked
<1>2. request' = [request EXCEPT ![q] = r] /\ request[q].pc = "idle" /\ request \in [Requests -> Asked]
  BY DEF Ask, Shaped
<1> HIDE DEF r
<1>. QED BY <1>1, <1>2 DEF Else, Intends

LEMMA Dropping ==
    ASSUME Shaped, NEW q \in Requests, request' = [request EXCEPT ![q] = NoRequest]
    PROVE  request' \in [Requests -> Asked] /\ Else(q) /\ request'[q].pc = "idle" /\ Intends(q)'
<1>1. NoRequest \in Asked /\ NoRequest.pc = "idle"
  BY DEF NoRequest, Asked
<1>. QED BY <1>1 DEF Shaped, Else, Intends

LEMMA Versioning ==
    ASSUME Shaped, NEW q \in Requests, request[q].pc # "idle", NEW run \in Nat,
           request' = [request EXCEPT ![q].pc = "version", ![q].run = run]
    PROVE  /\ request' \in [Requests -> Asked] /\ Else(q) /\ Intends(q)'
           /\ request'[q].pc = "version" /\ request'[q].run = run
<1> DEFINE r == [request[q] EXCEPT !.pc = "version", !.run = run]
<1>1. request \in [Requests -> Asked] /\ request[q] \in Asked /\ request[q].plan \in DOMAIN PlanTo
  BY DEF Shaped, Intends
<1>2. r \in Asked /\ r.pc = "version" /\ r.run = run /\ r.plan = request[q].plan
  BY <1>1 DEF Asked
<1>3. request' = [request EXCEPT ![q] = r]
  BY <1>1
<1> HIDE DEF r
<1>. QED BY <1>1, <1>2, <1>3 DEF Else, Intends

LEMMA Proceeding ==
    ASSUME Shaped, NEW q \in Requests, request[q].pc # "idle", NEW next \in Enqueued, NEW run \in Nat,
           \/ request' = [request EXCEPT ![q].pc = "enqueue", ![q].next = next]
           \/ request' = [request EXCEPT ![q].pc = "enqueue", ![q].run = run, ![q].next = next]
    PROVE  /\ request' \in [Requests -> Asked] /\ Else(q) /\ Intends(q)'
           /\ request'[q].pc = "enqueue" /\ request'[q].next = next
<1> DEFINE r == [request[q] EXCEPT !.pc = "enqueue", !.next = next]
           s == [request[q] EXCEPT !.pc = "enqueue", !.run = run, !.next = next]
<1>1. request \in [Requests -> Asked] /\ request[q] \in Asked /\ request[q].plan \in DOMAIN PlanTo
  BY DEF Shaped, Intends
<1>2. /\ r \in Asked /\ r.pc = "enqueue" /\ r.next = next /\ r.plan = request[q].plan
      /\ s \in Asked /\ s.pc = "enqueue" /\ s.next = next /\ s.plan = request[q].plan
  BY <1>1 DEF Asked
<1>3. request' = [request EXCEPT ![q] = r] \/ request' = [request EXCEPT ![q] = s]
  BY <1>1
<1> HIDE DEF r, s
<1>. QED BY <1>1, <1>2, <1>3 DEF Else, Intends

-----------------------------------------------------------------------------
(* Versions and job ids.                                                   *)

(* Any versions include a latest one.                                      *)
LEMMA VersionsHaveMaximum ==
    ASSUME NEW S \in SUBSET Versions, S # {}
    PROVE  \E top \in S : \A m \in S : m <= top
<1> DEFINE below == {MaxRuns - n : n \in S}
<1>1. MaxRuns \in Nat /\ \A n \in S : n \in Nat /\ n <= MaxRuns
  BY VideoAssumption DEF Versions
<1>2. below \in SUBSET Nat /\ below # {}
  BY <1>1
<1> DEFINE lower == {pair \in Nat \X Nat : pair[1] < pair[2]}
<1>3. \E least \in below : \A k \in below : <<k, least>> \notin lower
  <2>1. IsWellFoundedOn(lower, Nat)
    BY NatLessThanWellFounded DEF OpToRel
  <2> HIDE DEF below, lower
  <2>. QED BY <1>2, <2>1, WFMin
<1>4. PICK least \in below : \A k \in below : least <= k
  <2> HIDE DEF below
  <2>1. \A k, m \in Nat : <<k, m>> \notin lower => m <= k
    OBVIOUS
  <2> HIDE DEF lower
  <2>. QED BY <1>2, <1>3, <2>1
<1>5. PICK top \in S : least = MaxRuns - top
  OBVIOUS
<1>6. \A m \in S : m <= top
  <2> SUFFICES ASSUME NEW m \in S PROVE m <= top
    OBVIOUS
  <2>1. least <= MaxRuns - m
    BY <1>4
  <2>2. m \in Nat /\ top \in Nat /\ MaxRuns \in Nat
    BY <1>1
  <2> HIDE DEF below
  <2>. QED BY <1>5, <2>1, <2>2
<1>. QED BY <1>6

LEMMA NextVersionIs ==
    ASSUME Shaped
    PROVE  /\ NextVersion \in Nat \ {0}
           /\ \/ NextVersion = 1
              \/ \E n \in Versions : transcripts[n] # "none" /\ NextVersion \in {n, n + 1}
           /\ NextVersion \in Versions => transcripts[NextVersion] # "COMPLETED"
<1> DEFINE existing == {n \in Versions : transcripts[n] # "none"}
           latest == CHOOSE n \in existing : \A m \in existing : m <= n
<1>1. NextVersion = IF existing = {} THEN 1
                    ELSE IF transcripts[latest] = "COMPLETED" THEN latest + 1 ELSE latest
  BY DEF NextVersion
<1>2. CASE existing = {}
  <2>1. NextVersion = 1 /\ \A n \in Versions : transcripts[n] = "none"
    BY <1>1, <1>2
  <2>. QED BY <2>1
<1>3. CASE existing # {}
  <2>1. \E n \in existing : \A m \in existing : m <= n
    BY <1>3, VersionsHaveMaximum
  <2>2. latest \in existing /\ \A m \in existing : m <= latest
    <3> HIDE DEF existing
    <3>. QED BY <2>1
  <2> HIDE DEF latest
  <2>3. latest \in Nat \ {0} /\ latest \in Versions /\ transcripts[latest] # "none"
    BY <2>2 DEF Versions
  <2>4. CASE transcripts[latest] = "COMPLETED"
    <3>1. NextVersion = latest + 1
      BY <1>1, <1>3, <2>4
    <3>2. NextVersion \notin existing
      BY <2>2, <2>3, <3>1
    <3>. QED BY <2>3, <3>1, <3>2
  <2>5. CASE transcripts[latest] # "COMPLETED"
    BY <1>1, <1>3, <2>3, <2>5
  <2>. QED BY <2>4, <2>5
<1>. QED BY <1>2, <1>3

LEMMA Ids ==
    ASSUME NEW n \in Nat, NEW run \in Nat
    PROVE  /\ IngestJob(run) \in JobId /\ IngestJob(run).queue = "ingest" /\ IngestJob(run).run = run
           /\ TranscriptionJob(n, run) \in JobId /\ TranscriptionJob(n, run).queue = "transcription"
           /\ TranscriptionJob(n, run).n = n /\ TranscriptionJob(n, run).run = run
           /\ AnalysisJob(n) \in JobId /\ AnalysisJob(n).queue = "analysis" /\ AnalysisJob(n).n = n
           /\ AnalysisJob(n).run = 0
BY DEF IngestJob, TranscriptionJob, AnalysisJob, JobId

LEMMA Enqueuings ==
    ASSUME NEW id \in JobId, NEW data \in Nat \cup {None}
    PROVE  /\ Enqueuing(id, data) \in Enqueued
           /\ Enqueuing(id, data).id = id /\ Enqueuing(id, data).data = data
BY DEF Enqueuing, Enqueued

-----------------------------------------------------------------------------
(* What a step makes of the row.                                           *)

RowBecomes(status, run, analysisRun, transcript, ready, deleted) ==
    /\ video' \in Video
    /\ video'.status = status /\ video'.run = run /\ video'.analysisRun = analysisRun
    /\ video'.transcript = transcript /\ video'.ready = ready /\ video'.deleted = deleted

Moved(status) ==
    RowBecomes(status, video.run, video.analysisRun, video.transcript, video.ready, video.deleted)

LEMMA Moving ==
    ASSUME video \in Video, NEW status \in Statuses,
           \/ video' = [video EXCEPT !.status = status]
           \/ video' = [video EXCEPT !.status = status, !.audio = TRUE]
    PROVE  Moved(status)
BY DEF Video, Moved, RowBecomes

LEMMA Activating ==
    ASSUME video \in Video, NEW n \in Nat, video' = [video EXCEPT !.transcript = n]
    PROVE  RowBecomes(video.status, video.run, video.analysisRun, n, video.ready, video.deleted)
BY DEF Video, RowBecomes

LEMMA Discarding ==
    ASSUME video \in Video, video' = [video EXCEPT !.audio = FALSE]
    PROVE  Moved(video.status)
BY DEF Video, Moved, RowBecomes

LEMMA Analysing ==
    ASSUME video \in Video, NEW n \in Nat,
           video' = [video EXCEPT !.status = "ANALYZING", !.analysisRun = n]
    PROVE  RowBecomes("ANALYZING", video.run, n, video.transcript, video.ready, video.deleted)
BY DEF Video, RowBecomes, Statuses, Processing

LEMMA Delivering ==
    ASSUME video \in Video,
           video' = [video EXCEPT !.status = "READY", !.ready = TRUE, !.failedStage = None,
                                  !.retryable = TRUE]
    PROVE  RowBecomes("READY", video.run, video.analysisRun, video.transcript, TRUE, video.deleted)
BY DEF Video, RowBecomes, Statuses

LEMMA FailingRow ==
    ASSUME video \in Video, NEW stage \in Processing, NEW b \in BOOLEAN,
           video' = [video EXCEPT !.status = "FAILED", !.failedStage = stage, !.retryable = b]
    PROVE  Moved("FAILED")
BY DEF Video, Moved, RowBecomes, Statuses

LEMMA Removing ==
    ASSUME video \in Video, video' = [video EXCEPT !.deleted = TRUE]
    PROVE  RowBecomes(video.status, video.run, video.analysisRun, video.transcript, video.ready, TRUE)
BY DEF Video, RowBecomes

LEMMA Restarting ==
    ASSUME video \in Video, NEW status \in Statuses, NEW n \in Nat
    PROVE  /\ video' = [[video EXCEPT !.status = status, !.retryable = TRUE] EXCEPT !.run = n] =>
                 RowBecomes(status, n, video.analysisRun, video.transcript, video.ready, video.deleted)
           /\ video' = [[video EXCEPT !.status = status, !.retryable = TRUE] EXCEPT !.analysisRun = n] =>
                 RowBecomes(status, video.run, n, video.transcript, video.ready, video.deleted)
BY DEF Video, RowBecomes

-----------------------------------------------------------------------------
(* What every step keeps.                                                  *)

RowsShaped ==
    /\ video \in Video
    /\ transcripts \in [Versions -> {"none", "PENDING", "PROCESSING", "COMPLETED", "FAILED"}]
    /\ candidates \in [Versions -> {"none", "live", "superseded"}]
    /\ held \in BOOLEAN

JobsShaped == DOMAIN jobs \subseteq JobId /\ jobs \in [DOMAIN jobs -> Job]

LEMMA ShapeFrame ==
    ASSUME Shaped, NEW w \in Slots, Alone(w), task' \in [Slots -> Task], Remembers(w)',
           RowsShaped', JobsShaped', DOMAIN jobs \subseteq DOMAIN jobs',
           request' = request, used' \in [Counted -> Nat]
    PROVE  Shaped'
<1>1. ASSUME NEW v \in Slots PROVE Remembers(v)'
  <2>1. CASE v = w
    BY <2>1
  <2>2. CASE v # w
    <3>1. task'[v] = task[v] /\ Remembers(v)
      BY <2>2 DEF Alone, Shaped
    <3>. QED BY <3>1 DEF Remembers, At, Transcribing
  <2>. QED BY <2>1, <2>2
<1>2. ASSUME NEW q \in Requests PROVE Intends(q)'
  BY DEF Shaped, Intends
<1>. QED BY <1>1, <1>2 DEF Shaped, RowsShaped, JobsShaped

(* A step of an execution that leaves the queue alone.                     *)
LEMMA WorkFrame ==
    ASSUME Shaped, NEW w \in Slots, Alone(w), task' \in [Slots -> Task], Remembers(w)',
           RowsShaped', UNCHANGED <<jobs, request, used>>
    PROVE  Shaped'
BY ShapeFrame DEF Shaped, JobsShaped

LEMMA ShapeOfRows == Shaped => RowsShaped /\ JobsShaped
BY DEF Shaped, RowsShaped, JobsShaped

(* No pc but these asks for more than a job.                               *)
LEMMA Rememberings ==
    ASSUME Shaped, NEW w \in Slots, task[w].pc # "idle", task'[w].job = task[w].job,
           DOMAIN jobs \subseteq DOMAIN jobs'
    PROVE  /\ task'[w].pc \notin TranscribingSteps \cup {"enqueue", "ensure-next", "fail"} =>
                 Remembers(w)'
           /\ task'[w].pc \in TranscribingSteps /\ task[w].job.queue # "transcription" => Remembers(w)'
           /\ task'[w].pc \in TranscribingSteps /\ Transcribing(w) /\ task'[w].seen = task[w].seen =>
                 Remembers(w)'
<1>1. task[w].job \in DOMAIN jobs' /\ (Transcribing(w) => task[w].seen \in Video)
  BY DEF Shaped, Remembers
<1>. QED BY <1>1 DEF Remembers, At, Transcribing, TranscribingSteps

-----------------------------------------------------------------------------
(* The steps of the stages.                                                *)

Works(w) == Shaped' /\ Alone(w) /\ task[w].pc # "idle" /\ task'[w].job = task[w].job

Quiet == UNCHANGED <<jobs, request, used>>

(* A step that only goes on to a pc that needs no more than the job.       *)
LEMMA QuietGoing ==
    ASSUME Shaped, NEW w \in Slots, task[w].pc # "idle",
           NEW pc \in Pcs \ {"enqueue", "ensure-next", "fail"}, Goto(w, pc) \/ Read(w, pc),
           \/ pc \notin TranscribingSteps
           \/ task[w].job.queue # "transcription"
           \/ Transcribing(w) /\ Goto(w, pc)
           \/ Read(w, pc),
           RowsShaped', Quiet
    PROVE  /\ Works(w) /\ task'[w].pc = pc
           /\ Goto(w, pc) => task'[w].seen = task[w].seen
           /\ Read(w, pc) => task'[w].seen = video
           /\ task'[w].version = task[w].version
<1>1. /\ task' \in [Slots -> Task] /\ Alone(w) /\ task'[w].pc = pc /\ task'[w].job = task[w].job
      /\ task'[w].version = task[w].version
  BY Going, Reading
<1>2. (Goto(w, pc) => task'[w].seen = task[w].seen) /\ (Read(w, pc) => task'[w].seen = video)
  BY Going, Reading
<1>3. Remembers(w)'
  <2>1. CASE Read(w, pc)
    <3>1. task'[w].seen \in Video /\ task[w].job \in DOMAIN jobs' /\ video \in Video
      BY <1>2, <2>1 DEF Shaped, Remembers, Quiet
    <3>. QED BY <1>1, <3>1, Reading, <2>1 DEF Remembers, At, Transcribing
  <2>2. CASE ~ Read(w, pc)
    BY <1>1, <1>2, <2>2, Rememberings DEF Quiet
  <2>. QED BY <2>1, <2>2
<1>4. Shaped'
  BY <1>1, <1>3, WorkFrame DEF Quiet
<1>. QED BY <1>1, <1>2, <1>4 DEF Works

LEMMA IngestReadStep ==
    ASSUME Shaped, NEW w \in Slots, IngestRead(w)
    PROVE  /\ Works(w) /\ Quiet /\ UNCHANGED rows
           /\ \/ task'[w].pc = "done"
              \/ task'[w].pc \in {"claim", "probe"} /\ video.status \in {"QUEUED", "INGESTING"}
              \/ /\ task'[w].pc = "ensure-next" /\ task'[w].seen = video
                 /\ video.status = "TRANSCRIBING" /\ ~ task[w].job.run < video.run
<1> DEFINE pc == IF video.deleted \/ task[w].job.run < video.run THEN "done"
                 ELSE CASE video.status = "TRANSCRIBING" -> "ensure-next"
                        [] video.status = "QUEUED" -> "claim"
                        [] video.status = "INGESTING" -> "probe"
                        [] OTHER -> "done"
<1>1. /\ task[w].pc = "read" /\ task[w].job.queue = "ingest" /\ Quiet /\ UNCHANGED rows
      /\ Read(w, pc)
  BY DEF IngestRead, At, Quiet
<1>2. \/ pc = "done"
      \/ pc \in {"claim", "probe"} /\ video.status \in {"QUEUED", "INGESTING"}
      \/ pc = "ensure-next" /\ video.status = "TRANSCRIBING" /\ ~ task[w].job.run < video.run
  OBVIOUS
<1> HIDE DEF pc
<1>3. pc \in Pcs
  BY <1>2 DEF Pcs, HandlerCalls
<1>4. /\ task' \in [Slots -> Task] /\ Alone(w) /\ task'[w].pc = pc /\ task'[w].job = task[w].job
      /\ task'[w].seen = video
  BY <1>1, <1>3, Reading
<1>5. Remembers(w)'
  <2>1. task[w].job \in DOMAIN jobs' /\ video \in Video
    BY <1>1 DEF Shaped, Remembers, Quiet
  <2>. QED BY <1>1, <1>2, <1>4, <2>1 DEF Remembers, At, Transcribing, TranscribingSteps
<1>6. Shaped'
  BY <1>1, <1>4, <1>5, WorkFrame, ShapeOfRows DEF Quiet, rows, RowsShaped
<1>. QED BY <1>1, <1>2, <1>4, <1>6 DEF Works

LEMMA EnsureTranscriptionJobStep ==
    ASSUME Shaped, NEW w \in Slots, EnsureTranscriptionJob(w)
    PROVE  /\ Works(w) /\ Quiet /\ UNCHANGED rows
           /\ task[w].pc = "ensure-next" /\ task[w].job.queue = "ingest" /\ task'[w].pc = "enqueue"
           /\ task'[w].next = Enqueuing(TranscriptionJob(NextVersion, task[w].seen.run), None)
<1>1. /\ task[w].pc = "ensure-next" /\ task[w].job.queue = "ingest" /\ Quiet /\ UNCHANGED rows
      /\ GoEnqueue(w, Enqueuing(TranscriptionJob(NextVersion, task[w].seen.run), None))
  BY DEF EnsureTranscriptionJob, At, Quiet
<1>2. task[w].seen.run \in Nat /\ NextVersion \in Nat
  <2>1. task[w].seen \in Video
    BY <1>1 DEF Shaped, Remembers, At
  <2>. QED BY <2>1, NextVersionIs DEF Video
<1> DEFINE next == Enqueuing(TranscriptionJob(NextVersion, task[w].seen.run), None)
<1>3. next \in Enqueued
  BY <1>2, Ids, Enqueuings
<1> HIDE DEF next
<1>4. /\ task' \in [Slots -> Task] /\ Alone(w) /\ task'[w].pc = "enqueue" /\ task'[w].job = task[w].job
      /\ task'[w].next = next
  BY <1>1, <1>3, Carrying DEF next
<1>5. Remembers(w)'
  <2>1. task[w].job \in DOMAIN jobs'
    BY <1>1 DEF Shaped, Remembers, Quiet
  <2>. QED BY <1>1, <1>3, <1>4, <2>1 DEF Remembers, At, Transcribing, TranscribingSteps
<1>6. Shaped'
  BY <1>1, <1>4, <1>5, WorkFrame, ShapeOfRows DEF Quiet, rows, RowsShaped
<1>. QED BY <1>1, <1>4, <1>6 DEF Works, next

LEMMA ClaimIngestStep ==
    ASSUME Shaped, NEW w \in Slots, ClaimIngest(w)
    PROVE  /\ Works(w) /\ Quiet /\ UNCHANGED <<transcripts, candidates, held>>
           /\ task[w].pc = "claim" /\ task[w].job.queue = "ingest"
           /\ \/ CanMove({"QUEUED"}) /\ Moved("INGESTING") /\ task'[w].pc = "probe"
              \/ UNCHANGED video /\ task'[w].pc = "done"
<1>1. /\ task[w].pc = "claim" /\ task[w].job.queue = "ingest" /\ Quiet
      /\ UNCHANGED <<transcripts, candidates, held>>
      /\ \/ CanMove({"QUEUED"}) /\ video' = [video EXCEPT !.status = "INGESTING"] /\ Goto(w, "probe")
         \/ UNCHANGED video /\ Goto(w, "done")
  BY DEF ClaimIngest, At, Quiet
<1>2. video \in Video
  BY DEF Shaped
<1>3. \/ CanMove({"QUEUED"}) /\ Moved("INGESTING") /\ Goto(w, "probe")
      \/ UNCHANGED video /\ Goto(w, "done")
  BY <1>1, <1>2, Moving DEF Statuses, Processing
<1>4. RowsShaped'
  BY <1>1, <1>2, <1>3, ShapeOfRows DEF RowsShaped, Moved, RowBecomes
<1>5. /\ Goto(w, "probe") => Works(w) /\ task'[w].pc = "probe"
      /\ Goto(w, "done") => Works(w) /\ task'[w].pc = "done"
  BY <1>1, <1>4, QuietGoing DEF Pcs, HandlerCalls, TranscribingSteps
<1>. QED BY <1>1, <1>3, <1>5

LEMMA IngestWorkStep ==
    ASSUME Shaped, NEW w \in Slots, Probe(w) \/ Prepare(w)
    PROVE  /\ Works(w) /\ Quiet /\ UNCHANGED rows
           /\ task[w].job.queue = "ingest"
           /\ \/ task[w].pc = "probe" /\ task'[w].pc = "charge"
              \/ task[w].pc = "prepare" /\ task'[w].pc = "version"
<1>1. /\ task[w].job.queue = "ingest" /\ Quiet /\ UNCHANGED rows
      /\ \/ task[w].pc = "probe" /\ Goto(w, "charge")
         \/ task[w].pc = "prepare" /\ Goto(w, "version")
  BY DEF Probe, Prepare, At, Quiet
<1>2. RowsShaped'
  BY <1>1, ShapeOfRows DEF rows, RowsShaped
<1>3. /\ Goto(w, "charge") => Works(w) /\ task'[w].pc = "charge"
      /\ Goto(w, "version") => Works(w) /\ task'[w].pc = "version"
  BY <1>1, <1>2, QuietGoing DEF Pcs, HandlerCalls
<1>. QED BY <1>1, <1>3

LEMMA ChooseVersionStep ==
    ASSUME Shaped, NEW w \in Slots, ChooseVersion(w)
    PROVE  /\ Works(w) /\ Quiet /\ UNCHANGED rows
           /\ task[w].pc = "version" /\ task[w].job.queue = "ingest"
           /\ task'[w].pc = "advance" /\ task'[w].version = NextVersion
<1> DEFINE t == [task[w] EXCEPT !.pc = "advance", !.version = NextVersion]
<1>1. /\ task[w].pc = "version" /\ task[w].job.queue = "ingest" /\ Quiet /\ UNCHANGED rows
      /\ task' = [task EXCEPT ![w].pc = "advance", ![w].version = NextVersion]
  BY DEF ChooseVersion, At, Quiet
<1>2. task \in [Slots -> Task] /\ task[w] \in Task /\ NextVersion \in Nat
  BY NextVersionIs DEF Shaped
<1>3. t \in Task /\ t.pc = "advance" /\ t.job = task[w].job /\ t.version = NextVersion
  BY <1>2 DEF Task, HandlerCalls
<1>4. task' = [task EXCEPT ![w] = t]
  BY <1>1, <1>2
<1> HIDE DEF t
<1>5. /\ task' \in [Slots -> Task] /\ Alone(w) /\ task'[w].pc = "advance"
      /\ task'[w].job = task[w].job /\ task'[w].version = NextVersion
  BY <1>2, <1>3, <1>4 DEF Alone
<1>6. Remembers(w)'
  BY <1>1, <1>5, Rememberings DEF TranscribingSteps, Quiet
<1>7. Shaped'
  BY <1>1, <1>5, <1>6, WorkFrame, ShapeOfRows DEF Quiet, rows, RowsShaped
<1>. QED BY <1>1, <1>5, <1>7 DEF Works

LEMMA FinishIngestStep ==
    ASSUME Shaped, NEW w \in Slots, FinishIngest(w)
    PROVE  /\ Works(w) /\ Quiet /\ UNCHANGED <<transcripts, candidates, held>>
           /\ task[w].pc = "advance" /\ task[w].job.queue = "ingest"
           /\ \/ /\ CanMove({"INGESTING"}) /\ Moved("TRANSCRIBING") /\ task'[w].pc = "enqueue"
                 /\ task'[w].next = Enqueuing(TranscriptionJob(task[w].version, video.run), None)
              \/ UNCHANGED video /\ task'[w].pc = "done"
<1> DEFINE next == Enqueuing(TranscriptionJob(task[w].version, video.run), None)
<1>1. /\ task[w].pc = "advance" /\ task[w].job.queue = "ingest" /\ Quiet
      /\ UNCHANGED <<transcripts, candidates, held>>
      /\ \/ /\ CanMove({"INGESTING"})
            /\ video' = [video EXCEPT !.status = "TRANSCRIBING", !.audio = TRUE] /\ GoEnqueue(w, next)
         \/ UNCHANGED video /\ Goto(w, "done")
  BY DEF FinishIngest, At, Quiet
<1>2. video \in Video /\ task[w].version \in Nat /\ video.run \in Nat
  BY DEF Shaped, Task, Video
<1>3. next \in Enqueued
  BY <1>2, Ids, Enqueuings
<1>4. \/ CanMove({"INGESTING"}) /\ Moved("TRANSCRIBING") /\ GoEnqueue(w, next)
      \/ UNCHANGED video /\ Goto(w, "done")
  <2> HIDE DEF next
  <2>. QED BY <1>1, <1>2, Moving DEF Statuses, Processing
<1>5. RowsShaped'
  <2> HIDE DEF next
  <2>. QED BY <1>1, <1>2, <1>4, ShapeOfRows DEF RowsShaped, Moved, RowBecomes
<1> HIDE DEF next
<1>6. CASE CanMove({"INGESTING"}) /\ Moved("TRANSCRIBING") /\ GoEnqueue(w, next)
  <2>1. /\ task' \in [Slots -> Task] /\ Alone(w) /\ task'[w].pc = "enqueue"
        /\ task'[w].job = task[w].job /\ task'[w].next = next
    BY <1>3, <1>6, Carrying
  <2>2. Remembers(w)'
    <3>1. task[w].job \in DOMAIN jobs'
      BY <1>1 DEF Shaped, Remembers, Quiet
    <3>. QED BY <1>3, <2>1, <3>1 DEF Remembers, At, Transcribing, TranscribingSteps
  <2>3. Works(w)
    BY <1>1, <1>5, <2>1, <2>2, WorkFrame DEF Works, Quiet
  <2>. QED BY <1>1, <1>6, <2>1, <2>3 DEF next
<1>7. CASE Goto(w, "done") /\ UNCHANGED video
  <2>1. Works(w) /\ task'[w].pc = "done"
    BY <1>1, <1>5, <1>7, QuietGoing DEF Pcs, HandlerCalls, TranscribingSteps
  <2>. QED BY <1>1, <1>7, <2>1
<1>. QED BY <1>4, <1>6, <1>7

LEMMA TranscriptionReadStep ==
    ASSUME Shaped, NEW w \in Slots, TranscriptionRead(w)
    PROVE  /\ Works(w) /\ Quiet /\ UNCHANGED rows
           /\ task[w].pc = "read" /\ task[w].job.queue = "transcription"
           /\ \/ /\ video.status = "ANALYZING" /\ task'[w].pc = "enqueue"
                 /\ task'[w].next = Enqueuing(AnalysisJob(video.analysisRun), video.transcript)
              \/ task'[w].pc = "done"
              \/ video.status = "TRANSCRIBING" /\ task'[w].pc = "charge" /\ task'[w].seen = video
<1> DEFINE next == Enqueuing(AnalysisJob(video.analysisRun), video.transcript)
<1>1. /\ task[w].pc = "read" /\ task[w].job.queue = "transcription" /\ Quiet /\ UNCHANGED rows
      /\ \/ video.status = "ANALYZING" /\ GoEnqueue(w, next)
         \/ Read(w, "done")
         \/ video.status = "TRANSCRIBING" /\ Read(w, "charge")
  BY DEF TranscriptionRead, At, Quiet
<1>2. next \in Enqueued
  <2>1. video.analysisRun \in Nat /\ video.transcript \in Nat
    BY DEF Shaped, Video
  <2>. QED BY <2>1, Ids, Enqueuings
<1>3. RowsShaped'
  BY <1>1, ShapeOfRows DEF rows, RowsShaped
<1> HIDE DEF next
<1>4. CASE video.status = "ANALYZING" /\ GoEnqueue(w, next)
  <2>1. /\ task' \in [Slots -> Task] /\ Alone(w) /\ task'[w].pc = "enqueue"
        /\ task'[w].job = task[w].job /\ task'[w].next = next
    BY <1>2, <1>4, Carrying
  <2>2. Remembers(w)'
    <3>1. task[w].job \in DOMAIN jobs'
      BY <1>1 DEF Shaped, Remembers, Quiet
    <3>. QED BY <1>2, <2>1, <3>1 DEF Remembers, At, Transcribing, TranscribingSteps
  <2>3. Works(w)
    BY <1>1, <1>3, <2>1, <2>2, WorkFrame DEF Works, Quiet
  <2>. QED BY <1>1, <1>4, <2>1, <2>3 DEF next
<1>5. CASE Read(w, "done")
  <2>1. Works(w) /\ task'[w].pc = "done"
    BY <1>1, <1>3, <1>5, QuietGoing DEF Pcs, HandlerCalls, TranscribingSteps
  <2>. QED BY <1>1, <2>1
<1>6. CASE video.status = "TRANSCRIBING" /\ Read(w, "charge")
  <2>1. Works(w) /\ task'[w].pc = "charge" /\ task'[w].seen = video
    BY <1>1, <1>3, <1>6, QuietGoing DEF Pcs, HandlerCalls
  <2>. QED BY <1>1, <1>6, <2>1
<1>. QED BY <1>1, <1>4, <1>5, <1>6

(* A transcription's step to a pc that needs what it read at first.         *)
LEMMA TranscriptWritten ==
    ASSUME Shaped, NEW w \in Slots, NEW status \in {"PENDING", "PROCESSING", "COMPLETED", "FAILED"},
           WriteTranscript(w, status)
    PROVE  /\ transcripts' \in [Versions -> {"none", "PENDING", "PROCESSING", "COMPLETED", "FAILED"}]
           /\ \A n \in Versions : transcripts'[n] = IF n = task[w].job.n THEN status ELSE transcripts[n]
BY DEF Shaped, WriteTranscript

LEMMA EnsureTranscriptStep ==
    ASSUME Shaped, NEW w \in Slots, EnsureTranscript(w)
    PROVE  /\ Works(w) /\ Quiet /\ UNCHANGED <<video, candidates, held>>
           /\ task[w].pc = "ensure" /\ task[w].job.queue = "transcription"
           /\ task'[w].seen = task[w].seen
           /\ \A n \in Versions :
                 \/ transcripts'[n] = transcripts[n]
                 \/ n = task[w].job.n /\ transcripts[n] = "none" /\ transcripts'[n] = "PENDING"
           /\ \/ task'[w].pc = "mark" /\ transcripts[task[w].job.n] # "COMPLETED"
              \/ task'[w].pc = "activate"
<1>1. /\ task[w].pc = "ensure" /\ task[w].job.queue = "transcription" /\ Quiet
      /\ UNCHANGED <<video, candidates, held>>
      /\ \/ transcripts[task[w].job.n] = "none" /\ WriteTranscript(w, "PENDING")
         \/ UNCHANGED transcripts
      /\ \/ transcripts[task[w].job.n] = "COMPLETED" /\ Goto(w, "activate")
         \/ transcripts[task[w].job.n] # "COMPLETED" /\ Goto(w, "mark")
  BY DEF EnsureTranscript, At, Quiet
<1>2. RowsShaped' /\ \A n \in Versions :
                 \/ transcripts'[n] = transcripts[n]
                 \/ n = task[w].job.n /\ transcripts[n] = "none" /\ transcripts'[n] = "PENDING"
  BY <1>1, TranscriptWritten, ShapeOfRows DEF RowsShaped
<1>3. Transcribing(w)
  BY <1>1 DEF Transcribing, TranscribingSteps
<1>4. /\ Goto(w, "activate") => Works(w) /\ task'[w].pc = "activate" /\ task'[w].seen = task[w].seen
      /\ Goto(w, "mark") => Works(w) /\ task'[w].pc = "mark" /\ task'[w].seen = task[w].seen
  BY <1>1, <1>2, <1>3, QuietGoing DEF Pcs, HandlerCalls
<1>. QED BY <1>1, <1>2, <1>4

LEMMA MarkProcessingStep ==
    ASSUME Shaped, NEW w \in Slots, MarkProcessing(w)
    PROVE  /\ Works(w) /\ Quiet /\ UNCHANGED <<video, candidates, held>>
           /\ task[w].pc = "mark" /\ task'[w].pc = "provider" /\ Transcribing(w)
           /\ task'[w].seen = task[w].seen /\ WriteTranscript(w, "PROCESSING")
<1>1. /\ task[w].pc = "mark" /\ task[w].job.queue = "transcription" /\ Quiet
      /\ UNCHANGED <<video, candidates, held>> /\ WriteTranscript(w, "PROCESSING") /\ Goto(w, "provider")
  BY DEF MarkProcessing, At, Quiet
<1>2. RowsShaped'
  BY <1>1, TranscriptWritten, ShapeOfRows DEF RowsShaped
<1>3. Transcribing(w)
  BY <1>1 DEF Transcribing, TranscribingSteps
<1>4. Works(w) /\ task'[w].pc = "provider" /\ task'[w].seen = task[w].seen
  BY <1>1, <1>2, <1>3, QuietGoing DEF Pcs, HandlerCalls
<1>. QED BY <1>1, <1>3, <1>4

(* An error leaves nothing but the job.                                    *)
LEMMA FailingWorks ==
    ASSUME Shaped, NEW w \in Slots, task[w].pc # "idle",
           NEW err \in {"transient", "credits", "fatal"}, Fails(w, err),
           RowsShaped', UNCHANGED <<jobs, request>>, used' \in [Counted -> Nat]
    PROVE  Works(w) /\ task'[w].pc = "failing"
<1>1. /\ task' \in [Slots -> Task] /\ Alone(w)
      /\ task'[w].pc = "failing" /\ task'[w].job = task[w].job
  BY Failing
<1>2. Remembers(w)'
  BY <1>1, Rememberings DEF TranscribingSteps
<1>3. JobsShaped'
  BY ShapeOfRows DEF JobsShaped
<1>. QED BY <1>1, <1>2, <1>3, ShapeFrame DEF Works

LEMMA TranscribeStep ==
    ASSUME Shaped, NEW w \in Slots, Transcribe(w)
    PROVE  /\ Works(w) /\ UNCHANGED <<video, candidates, held, jobs, request>>
           /\ task[w].pc = "provider" /\ Transcribing(w)
           /\ used'["requests"] = used["requests"]
           /\ \/ /\ task'[w].pc = "save" /\ task'[w].seen = task[w].seen /\ UNCHANGED transcripts
              \/ task'[w].pc = "failing" /\ WriteTranscript(w, "FAILED")
<1>1. /\ task[w].pc = "provider" /\ task[w].job.queue = "transcription"
      /\ UNCHANGED <<video, candidates, held, jobs, request>>
      /\ \/ Goto(w, "save") /\ UNCHANGED <<transcripts, used>>
         \/ WriteTranscript(w, "FAILED") /\ Suffer("errors") /\ Fails(w, "fatal")
  BY DEF Transcribe, At
<1>2. RowsShaped'
  BY <1>1, TranscriptWritten, ShapeOfRows DEF RowsShaped
<1>3. Transcribing(w)
  BY <1>1 DEF Transcribing, TranscribingSteps
<1>4. CASE Goto(w, "save") /\ UNCHANGED <<transcripts, used>>
  <2>1. Works(w) /\ task'[w].pc = "save" /\ task'[w].seen = task[w].seen
    BY <1>1, <1>2, <1>3, <1>4, QuietGoing DEF Pcs, HandlerCalls, Quiet
  <2>. QED BY <1>1, <1>3, <1>4, <2>1
<1>5. CASE WriteTranscript(w, "FAILED") /\ Suffer("errors") /\ Fails(w, "fatal")
  <2>1. used' \in [Counted -> Nat] /\ used'["requests"] = used["requests"]
    BY <1>5, Suffering DEF Counters
  <2>2. Works(w) /\ task'[w].pc = "failing"
    BY <1>1, <1>2, <1>5, <2>1, FailingWorks
  <2>. QED BY <1>1, <1>3, <1>5, <2>1, <2>2
<1>. QED BY <1>1, <1>4, <1>5

LEMMA SaveTranscriptStep ==
    ASSUME Shaped, NEW w \in Slots, SaveTranscript(w)
    PROVE  /\ Works(w) /\ Quiet /\ UNCHANGED <<video, candidates, held>>
           /\ task[w].pc = "save" /\ task'[w].pc = "activate" /\ Transcribing(w)
           /\ task'[w].seen = task[w].seen /\ WriteTranscript(w, "COMPLETED")
<1>1. /\ task[w].pc = "save" /\ task[w].job.queue = "transcription" /\ Quiet
      /\ UNCHANGED <<video, candidates, held>> /\ WriteTranscript(w, "COMPLETED") /\ Goto(w, "activate")
  BY DEF SaveTranscript, At, Quiet
<1>2. RowsShaped'
  BY <1>1, TranscriptWritten, ShapeOfRows DEF RowsShaped
<1>3. Transcribing(w)
  BY <1>1 DEF Transcribing, TranscribingSteps
<1>4. Works(w) /\ task'[w].pc = "activate" /\ task'[w].seen = task[w].seen
  BY <1>1, <1>2, <1>3, QuietGoing DEF Pcs, HandlerCalls
<1>. QED BY <1>1, <1>3, <1>4

LEMMA ActivateTranscriptStep ==
    ASSUME Shaped, NEW w \in Slots, ActivateTranscript(w)
    PROVE  /\ Works(w) /\ Quiet /\ UNCHANGED <<transcripts, candidates, held>>
           /\ task[w].pc = "activate" /\ task'[w].pc \in {"discard-audio", "advance"} /\ Transcribing(w)
           /\ task'[w].seen = task[w].seen
           /\ RowBecomes(video.status, video.run, video.analysisRun, task[w].job.n, video.ready,
                         video.deleted)
<1>1. /\ task[w].pc = "activate" /\ task[w].job.queue = "transcription" /\ Quiet
      /\ UNCHANGED <<transcripts, candidates, held>>
      /\ video' = [video EXCEPT !.transcript = task[w].job.n]
      /\ Goto(w, "discard-audio") \/ Goto(w, "advance")
  BY DEF ActivateTranscript, At, Quiet
<1>2. task[w].job.n \in Nat /\ video \in Video
  <2>1. task[w].job \in JobId
    BY <1>1 DEF Shaped, Remembers
  <2>. QED BY <2>1 DEF JobId, Shaped
<1>3. RowBecomes(video.status, video.run, video.analysisRun, task[w].job.n, video.ready, video.deleted)
  BY <1>1, <1>2, Activating
<1>4. RowsShaped'
  BY <1>1, <1>3, ShapeOfRows DEF RowsShaped, RowBecomes
<1>5. Transcribing(w)
  BY <1>1 DEF Transcribing, TranscribingSteps
<1>6. /\ Goto(w, "discard-audio") =>
           Works(w) /\ task'[w].pc = "discard-audio" /\ task'[w].seen = task[w].seen
      /\ Goto(w, "advance") => Works(w) /\ task'[w].pc = "advance" /\ task'[w].seen = task[w].seen
  BY <1>1, <1>4, <1>5, QuietGoing DEF Pcs, HandlerCalls
<1>. QED BY <1>1, <1>3, <1>5, <1>6

LEMMA DiscardAudioStep ==
    ASSUME Shaped, NEW w \in Slots, DiscardAudio(w)
    PROVE  /\ Works(w) /\ Quiet /\ UNCHANGED <<transcripts, candidates, held>>
           /\ task[w].pc = "discard-audio" /\ task'[w].pc = "advance" /\ Transcribing(w)
           /\ task'[w].seen = task[w].seen /\ Moved(video.status)
<1>1. /\ task[w].pc = "discard-audio" /\ task[w].job.queue = "transcription" /\ Quiet
      /\ UNCHANGED <<transcripts, candidates, held>>
      /\ video' = [video EXCEPT !.audio = FALSE] /\ Goto(w, "advance") /\ video \in Video
  BY DEF DiscardAudio, At, Quiet, Shaped
<1>2. Moved(video.status)
  BY <1>1, Discarding
<1>3. RowsShaped'
  BY <1>1, <1>2, ShapeOfRows DEF RowsShaped, Moved, RowBecomes
<1>4. Transcribing(w)
  BY <1>1 DEF Transcribing, TranscribingSteps
<1>5. Works(w) /\ task'[w].pc = "advance" /\ task'[w].seen = task[w].seen
  BY <1>1, <1>3, <1>4, QuietGoing DEF Pcs, HandlerCalls
<1>. QED BY <1>1, <1>2, <1>4, <1>5

LEMMA FinishTranscriptionStep ==
    ASSUME Shaped, NEW w \in Slots, FinishTranscription(w)
    PROVE  /\ Works(w) /\ Quiet /\ UNCHANGED <<transcripts, candidates, held>>
           /\ task[w].pc = "advance" /\ Transcribing(w) /\ task[w].seen.analysisRun \in Nat
           /\ \/ /\ CanMove({"TRANSCRIBING"}) /\ task'[w].pc = "enqueue"
                 /\ RowBecomes("ANALYZING", video.run, task[w].seen.analysisRun + 1, video.transcript,
                               video.ready, video.deleted)
                 /\ task'[w].next = Enqueuing(AnalysisJob(task[w].seen.analysisRun + 1), task[w].job.n)
              \/ UNCHANGED video /\ task'[w].pc = "done"
<1> DEFINE run == task[w].seen.analysisRun + 1
           next == Enqueuing(AnalysisJob(run), task[w].job.n)
<1>1. /\ task[w].pc = "advance" /\ task[w].job.queue = "transcription" /\ Quiet
      /\ UNCHANGED <<transcripts, candidates, held>>
      /\ \/ /\ CanMove({"TRANSCRIBING"})
            /\ video' = [video EXCEPT !.status = "ANALYZING", !.analysisRun = run] /\ GoEnqueue(w, next)
         \/ UNCHANGED video /\ Goto(w, "done")
  BY DEF FinishTranscription, At, Quiet
<1>2. Transcribing(w)
  BY <1>1 DEF Transcribing, TranscribingSteps
<1>3. task[w].seen.analysisRun \in Nat /\ task[w].job.n \in Nat /\ video \in Video
  <2>1. task[w].seen \in Video /\ task[w].job \in JobId
    BY <1>1, <1>2 DEF Shaped, Remembers
  <2>. QED BY <2>1 DEF Shaped, Video, JobId
<1>4. run \in Nat /\ next \in Enqueued
  BY <1>3, Ids, Enqueuings
<1> HIDE DEF next, run
<1>5. \/ /\ CanMove({"TRANSCRIBING"}) /\ GoEnqueue(w, next)
         /\ RowBecomes("ANALYZING", video.run, run, video.transcript, video.ready, video.deleted)
      \/ UNCHANGED video /\ Goto(w, "done")
  BY <1>1, <1>3, <1>4, Analysing
<1>6. RowsShaped'
  BY <1>1, <1>3, <1>5, ShapeOfRows DEF RowsShaped, RowBecomes
<1>7. CASE /\ CanMove({"TRANSCRIBING"}) /\ GoEnqueue(w, next)
           /\ RowBecomes("ANALYZING", video.run, run, video.transcript, video.ready, video.deleted)
  <2>1. /\ task' \in [Slots -> Task] /\ Alone(w) /\ task'[w].pc = "enqueue"
        /\ task'[w].job = task[w].job /\ task'[w].next = next
    BY <1>4, <1>7, Carrying
  <2>2. Remembers(w)'
    <3>1. task[w].job \in DOMAIN jobs'
      BY <1>1 DEF Shaped, Remembers, Quiet
    <3>. QED BY <1>4, <2>1, <3>1 DEF Remembers, At, Transcribing, TranscribingSteps
  <2>3. Works(w)
    BY <1>1, <1>6, <2>1, <2>2, WorkFrame DEF Works, Quiet
  <2>. QED BY <1>1, <1>2, <1>3, <1>7, <2>1, <2>3 DEF next, run
<1>8. CASE UNCHANGED video /\ Goto(w, "done")
  <2>1. Works(w) /\ task'[w].pc = "done"
    BY <1>1, <1>6, <1>8, QuietGoing DEF Pcs, HandlerCalls, TranscribingSteps
  <2>. QED BY <1>1, <1>2, <1>3, <1>8, <2>1
<1>. QED BY <1>5, <1>7, <1>8

LEMMA AnalysisWorkStep ==
    ASSUME Shaped, NEW w \in Slots, AnalysisRead(w) \/ LoadTranscript(w) \/ FindMoments(w)
    PROVE  /\ Works(w) /\ Quiet /\ UNCHANGED rows
           /\ task[w].job.queue = "analysis"
           /\ \/ task[w].pc = "read" /\ task'[w].pc = "done"
              \/ /\ task[w].pc = "read" /\ task'[w].pc \in {"load", "charge"}
                 /\ task'[w].pc = "load" => video.ready
                 /\ video.status = "ANALYZING" /\ task[w].job.n = video.analysisRun
              \/ task[w].pc = "load" /\ task'[w].pc \in {"llm", "failing"}
              \/ task[w].pc = "llm" /\ task'[w].pc = "publish"
<1>1. /\ task[w].job.queue = "analysis" /\ Quiet /\ UNCHANGED rows
      /\ \/ task[w].pc = "read" /\ Goto(w, "done")
         \/ /\ task[w].pc = "read" /\ ((Goto(w, "load") /\ video.ready) \/ Goto(w, "charge"))
            /\ video.status = "ANALYZING" /\ task[w].job.n = video.analysisRun
         \/ task[w].pc = "load" /\ (Goto(w, "llm") \/ Fails(w, "fatal"))
         \/ task[w].pc = "llm" /\ Goto(w, "publish")
  BY DEF AnalysisRead, LoadTranscript, FindMoments, At, Quiet
<1>2. RowsShaped'
  BY <1>1, ShapeOfRows DEF rows, RowsShaped
<1>3. /\ Goto(w, "done") => Works(w) /\ task'[w].pc = "done"
      /\ Goto(w, "load") => Works(w) /\ task'[w].pc = "load"
      /\ Goto(w, "charge") => Works(w) /\ task'[w].pc = "charge"
      /\ Goto(w, "llm") => Works(w) /\ task'[w].pc = "llm"
      /\ Goto(w, "publish") => Works(w) /\ task'[w].pc = "publish"
  BY <1>1, <1>2, QuietGoing DEF Pcs, HandlerCalls, TranscribingSteps
<1>4. Fails(w, "fatal") => Works(w) /\ task'[w].pc = "failing"
  <2>1. used' \in [Counted -> Nat] /\ UNCHANGED <<jobs, request>>
    BY <1>1 DEF Quiet, Shaped
  <2>. QED BY <1>1, <1>2, <2>1, FailingWorks
<1>. QED BY <1>1, <1>3, <1>4

LEMMA PublishCandidatesStep ==
    ASSUME Shaped, NEW w \in Slots, PublishCandidates(w)
    PROVE  /\ Works(w) /\ Quiet /\ UNCHANGED <<video, transcripts, held>>
           /\ task[w].pc = "publish" /\ task[w].job.queue = "analysis" /\ task'[w].pc = "advance"
           /\ \A r \in Versions : candidates'[r] = "live" <=> r = task[w].job.n
<1>1. /\ task[w].pc = "publish" /\ task[w].job.queue = "analysis" /\ Quiet
      /\ UNCHANGED <<video, transcripts, held>> /\ Goto(w, "advance")
      /\ candidates' = [r \in Versions |-> IF r = task[w].job.n THEN "live"
                                           ELSE IF candidates[r] = "live" THEN "superseded"
                                           ELSE candidates[r]]
  BY DEF PublishCandidates, At, Quiet
<1>2. candidates \in [Versions -> {"none", "live", "superseded"}]
  BY DEF Shaped
<1>3. RowsShaped' /\ \A r \in Versions : candidates'[r] = "live" <=> r = task[w].job.n
  BY <1>1, <1>2, ShapeOfRows DEF RowsShaped
<1>4. Works(w) /\ task'[w].pc = "advance"
  BY <1>1, <1>3, QuietGoing DEF Pcs, HandlerCalls
<1>. QED BY <1>1, <1>3, <1>4

LEMMA FinishAnalysisStep ==
    ASSUME Shaped, NEW w \in Slots, FinishAnalysis(w)
    PROVE  /\ Works(w) /\ Quiet /\ UNCHANGED <<transcripts, candidates, held>>
           /\ task[w].pc = "advance" /\ task[w].job.queue = "analysis" /\ task'[w].pc = "done"
           /\ \/ /\ CanMove({"ANALYZING"})
                 /\ RowBecomes("READY", video.run, video.analysisRun, video.transcript, TRUE, video.deleted)
              \/ UNCHANGED video
<1>1. /\ task[w].pc = "advance" /\ task[w].job.queue = "analysis" /\ Quiet
      /\ UNCHANGED <<transcripts, candidates, held>> /\ Goto(w, "done")
      /\ \/ /\ CanMove({"ANALYZING"})
            /\ video' = [video EXCEPT !.status = "READY", !.ready = TRUE, !.failedStage = None,
                                      !.retryable = TRUE]
         \/ UNCHANGED video
  BY DEF FinishAnalysis, At, Quiet
<1>2. video \in Video
  BY DEF Shaped
<1>3. \/ /\ CanMove({"ANALYZING"})
         /\ RowBecomes("READY", video.run, video.analysisRun, video.transcript, TRUE, video.deleted)
      \/ UNCHANGED video
  BY <1>1, <1>2, Delivering
<1>4. RowsShaped'
  BY <1>1, <1>2, <1>3, ShapeOfRows DEF RowsShaped, RowBecomes
<1>5. Works(w) /\ task'[w].pc = "done"
  BY <1>1, <1>4, QuietGoing DEF Pcs, HandlerCalls, TranscribingSteps
<1>. QED BY <1>1, <1>3, <1>5

-----------------------------------------------------------------------------
(* The steps of every execution, and the failures.                         *)

LEMMA ChargeStep ==
    ASSUME Shaped, NEW w \in Slots, Charge(w)
    PROVE  /\ Works(w) /\ UNCHANGED <<video, transcripts, candidates, jobs, request>>
           /\ task[w].pc = "charge" /\ used'["requests"] = used["requests"]
           /\ \/ /\ held' = TRUE /\ task'[w].seen = task[w].seen
                 /\ \/ task[w].job.queue = "ingest" /\ task'[w].pc = "prepare"
                    \/ task[w].job.queue = "transcription" /\ task'[w].pc = "ensure"
                    \/ task[w].job.queue = "analysis" /\ task'[w].pc = "load"
              \/ UNCHANGED held /\ task'[w].pc = "failing"
<1>1. /\ task[w].pc = "charge" /\ UNCHANGED <<video, transcripts, candidates, jobs, request>>
      /\ \/ held' = TRUE /\ Goto(w, AfterCharge[task[w].job.queue]) /\ UNCHANGED used
         \/ UNCHANGED held /\ Suffer("errors") /\ Fails(w, "credits")
  BY DEF Charge
<1>2. task[w].job.queue \in {"ingest", "transcription", "analysis"}
  BY <1>1 DEF Shaped, Remembers, JobId
<1>3. RowsShaped'
  BY <1>1, ShapeOfRows DEF RowsShaped
<1>4. CASE held' = TRUE /\ Goto(w, AfterCharge[task[w].job.queue]) /\ UNCHANGED used
  <2>1. \/ task[w].job.queue = "ingest" /\ Goto(w, "prepare")
        \/ task[w].job.queue = "transcription" /\ Goto(w, "ensure")
        \/ task[w].job.queue = "analysis" /\ Goto(w, "load")
    BY <1>2, <1>4 DEF AfterCharge
  <2>2. Quiet
    BY <1>1, <1>4 DEF Quiet
  <2>3. CASE task[w].job.queue = "ingest" /\ Goto(w, "prepare")
    <3>1. Works(w) /\ task'[w].pc = "prepare" /\ task'[w].seen = task[w].seen
      BY <1>1, <1>3, <2>2, <2>3, QuietGoing DEF Pcs, HandlerCalls
    <3>. QED BY <1>1, <1>4, <2>3, <3>1
  <2>4. CASE task[w].job.queue = "transcription" /\ Goto(w, "ensure")
    <3>1. Transcribing(w)
      BY <1>1, <2>4 DEF Transcribing, TranscribingSteps
    <3>2. Works(w) /\ task'[w].pc = "ensure" /\ task'[w].seen = task[w].seen
      BY <1>1, <1>3, <2>2, <2>4, <3>1, QuietGoing DEF Pcs, HandlerCalls
    <3>. QED BY <1>1, <1>4, <2>4, <3>2
  <2>5. CASE task[w].job.queue = "analysis" /\ Goto(w, "load")
    <3>1. Works(w) /\ task'[w].pc = "load" /\ task'[w].seen = task[w].seen
      BY <1>1, <1>3, <2>2, <2>5, QuietGoing DEF Pcs, HandlerCalls
    <3>. QED BY <1>1, <1>4, <2>5, <3>1
  <2>. QED BY <2>1, <2>3, <2>4, <2>5
<1>5. CASE UNCHANGED held /\ Suffer("errors") /\ Fails(w, "credits")
  <2>1. used' \in [Counted -> Nat] /\ used'["requests"] = used["requests"]
    BY <1>5, Suffering DEF Counters
  <2>2. Works(w) /\ task'[w].pc = "failing"
    BY <1>1, <1>3, <1>5, <2>1, FailingWorks
  <2>. QED BY <1>1, <1>5, <2>1, <2>2
<1>. QED BY <1>1, <1>4, <1>5

LEMMA EnqueueStep ==
    ASSUME Shaped, NEW w \in Slots, Enqueue(w)
    PROVE  /\ Works(w) /\ UNCHANGED <<rows, request, used>>
           /\ task[w].pc = "enqueue" /\ task'[w].pc = "done"
           /\ task[w].next.id \in JobId
           /\ DOMAIN jobs' = DOMAIN jobs \cup {task[w].next.id}
           /\ \A i \in DOMAIN jobs : jobs'[i] = jobs[i]
           /\ task[w].next.id \notin DOMAIN jobs =>
                 /\ jobs'[task[w].next.id].state = "waiting"
                 /\ jobs'[task[w].next.id].data = task[w].next.data
<1> DEFINE t == [task[w] EXCEPT !.pc = "done", !.next = None, !.seen = None]
<1>1. /\ task[w].pc = "enqueue" /\ UNCHANGED <<rows, request, used>>
      /\ Add(task[w].next.id, task[w].next.data)
      /\ task' = [task EXCEPT ![w].pc = "done", ![w].next = None, ![w].seen = None]
  BY DEF Enqueue
<1>2. task \in [Slots -> Task] /\ task[w] \in Task /\ task[w].next \in Enqueued
  BY <1>1 DEF Shaped, Remembers
<1>3. task[w].next.id \in JobId /\ task[w].next.data \in Nat \cup {None}
  BY <1>2 DEF Enqueued
<1>4. t \in Task /\ t.pc = "done" /\ t.job = task[w].job
  BY <1>2 DEF Task, HandlerCalls
<1>5. task' = [task EXCEPT ![w] = t]
  BY <1>1, <1>2
<1> HIDE DEF t
<1>6. task' \in [Slots -> Task] /\ Alone(w) /\ task'[w].pc = "done" /\ task'[w].job = task[w].job
  BY <1>2, <1>4, <1>5 DEF Alone
<1>7. /\ JobsShaped' /\ DOMAIN jobs' = DOMAIN jobs \cup {task[w].next.id}
      /\ \A i \in DOMAIN jobs : jobs'[i] = jobs[i]
      /\ task[w].next.id \notin DOMAIN jobs =>
            /\ jobs'[task[w].next.id].state = "waiting"
            /\ jobs'[task[w].next.id].data = task[w].next.data
  BY <1>1, <1>3, Adding DEF JobsShaped
<1>8. Remembers(w)'
  BY <1>1, <1>6, <1>7, Rememberings DEF TranscribingSteps
<1>9. Shaped'
  <2>1. RowsShaped' /\ used' \in [Counted -> Nat] /\ request' = request
    BY <1>1, ShapeOfRows DEF RowsShaped, rows, Shaped
  <2>. QED BY <1>6, <1>7, <1>8, <2>1, ShapeFrame
<1>. QED BY <1>1, <1>3, <1>6, <1>7, <1>9 DEF Works

(* The ways an execution ends: its report to the queue, if it is heard.    *)
Ends(w) ==
    /\ Shaped' /\ Alone(w) /\ task[w].pc # "idle" /\ task'[w].pc = "idle"
    /\ UNCHANGED <<rows, request>> /\ used'["requests"] = used["requests"]
    /\ OnlyJob(task[w].job)

LEMMA Ending ==
    ASSUME Shaped, NEW w \in Slots, task[w].pc # "idle",
           NEW state \in {"waiting", "completed", "failed"}, Settle(w, task[w].job, state),
           task' = [task EXCEPT ![w] = Idle], UNCHANGED <<rows, request>>,
           used' \in [Counted -> Nat], used'["requests"] = used["requests"]
    PROVE  Ends(w) /\ (Holds(w, task[w].job) => jobs'[task[w].job].state = state)
<1>1. task[w].job \in DOMAIN jobs /\ DOMAIN jobs \subseteq JobId
  BY DEF Shaped, Remembers
<1>2. OnlyJob(task[w].job) /\ (Holds(w, task[w].job) => jobs'[task[w].job].state = state)
  <2>1. PICK id \in DOMAIN jobs : id = task[w].job
    BY <1>1
  <2>. QED BY <2>1, Settling
<1>3. task' \in [Slots -> Task] /\ Alone(w) /\ task'[w].pc = "idle"
  BY Idling
<1>4. Remembers(w)'
  BY <1>3 DEF Remembers, At, Transcribing, TranscribingSteps
<1>5. Shaped'
  <2>1. RowsShaped' /\ request' = request /\ JobsShaped' /\ DOMAIN jobs' = DOMAIN jobs
    BY <1>1, <1>2, ShapeOfRows DEF RowsShaped, rows, JobsShaped, OnlyJob
  <2>. QED BY <1>3, <1>4, <2>1, ShapeFrame
<1>. QED BY <1>2, <1>3, <1>5 DEF Ends

(* What the queue is told when an execution ends at a pc.                  *)
LEMMA EndStep ==
    ASSUME Shaped, NEW w \in Slots, Complete(w) \/ RetryLater(w) \/ GiveUp(w) \/ RecordFails(w)
    PROVE  /\ Ends(w)
           /\ task[w].pc \in {"done", "give-up", "failing", "read"}
           /\ Holds(w, task[w].job) =>
                 \/ jobs'[task[w].job].state \in {"completed", "failed"}
                 \/ jobs'[task[w].job].state = "waiting" /\ task[w].pc \in {"failing", "read"}
<1>1. CASE Complete(w)
  <2>1. /\ task[w].pc = "done" /\ Settle(w, task[w].job, "completed") /\ task' = [task EXCEPT ![w] = Idle]
        /\ UNCHANGED <<rows, request>> /\ used' \in [Counted -> Nat]
        /\ used'["requests"] = used["requests"]
    BY <1>1 DEF Complete, Shaped
  <2>. QED BY <2>1, Ending
<1>2. CASE RetryLater(w)
  <2>1. /\ task[w].pc = "failing" /\ Settle(w, task[w].job, "waiting") /\ task' = [task EXCEPT ![w] = Idle]
        /\ UNCHANGED <<rows, request>> /\ used' \in [Counted -> Nat]
        /\ used'["requests"] = used["requests"]
    BY <1>2 DEF RetryLater, Shaped
  <2>. QED BY <2>1, Ending
<1>3. CASE GiveUp(w)
  <2>1. /\ task[w].pc = "give-up" /\ Settle(w, task[w].job, "failed") /\ task' = [task EXCEPT ![w] = Idle]
        /\ UNCHANGED <<rows, request>> /\ used' \in [Counted -> Nat]
        /\ used'["requests"] = used["requests"]
    BY <1>3 DEF GiveUp, Shaped
  <2>. QED BY <2>1, Ending
<1>4. CASE RecordFails(w)
  <2>1. /\ task[w].pc \in {"read", "failing"} /\ task' = [task EXCEPT ![w] = Idle]
        /\ UNCHANGED <<rows, request>> /\ used' \in [Counted -> Nat]
        /\ used'["requests"] = used["requests"]
        /\ Settle(w, task[w].job, "waiting") \/ Settle(w, task[w].job, "failed")
    BY <1>4, Suffering DEF RecordFails, Counters
  <2>2. CASE Settle(w, task[w].job, "waiting")
    BY <2>1, <2>2, Ending
  <2>3. CASE Settle(w, task[w].job, "failed")
    BY <2>1, <2>3, Ending
  <2>. QED BY <2>1, <2>2, <2>3
<1>. QED BY <1>1, <1>2, <1>3, <1>4

LEMMA FailReadStep ==
    ASSUME Shaped, NEW w \in Slots, FailRead(w)
    PROVE  /\ Works(w) /\ Quiet /\ UNCHANGED rows
           /\ task[w].pc = "failing"
           /\ \/ task'[w].pc = "fail" /\ task'[w].seen = video
              \/ task'[w].pc = "give-up"
<1>1. /\ task[w].pc = "failing" /\ Quiet /\ UNCHANGED rows
      /\ (CanMove(Processing) /\ Read(w, "fail")) \/ Read(w, "give-up")
  BY DEF FailRead, Quiet
<1>2. task[w].job \in DOMAIN jobs' /\ video \in Video
  BY <1>1 DEF Shaped, Remembers, Quiet
<1>3. CASE CanMove(Processing) /\ Read(w, "fail")
  <2>1. /\ task' \in [Slots -> Task] /\ Alone(w) /\ task'[w].pc = "fail"
        /\ task'[w].job = task[w].job /\ task'[w].seen = video
    BY <1>3, Reading DEF Pcs
  <2>2. Remembers(w)'
    BY <1>2, <1>3, <2>1 DEF Remembers, At, Transcribing, TranscribingSteps, CanMove
  <2>3. Shaped'
    BY <1>1, <2>1, <2>2, WorkFrame, ShapeOfRows DEF Quiet, rows, RowsShaped
  <2>. QED BY <1>1, <2>1, <2>3 DEF Works
<1>4. CASE Read(w, "give-up")
  <2>1. RowsShaped'
    BY <1>1, ShapeOfRows DEF rows, RowsShaped
  <2>2. Works(w) /\ task'[w].pc = "give-up"
    BY <1>1, <1>4, <2>1, QuietGoing DEF Pcs
  <2>. QED BY <1>1, <2>2
<1>. QED BY <1>1, <1>3, <1>4

LEMMA FailVideoStep ==
    ASSUME Shaped, NEW w \in Slots, FailVideo(w)
    PROVE  /\ Works(w) /\ Quiet /\ UNCHANGED <<transcripts, candidates, held>>
           /\ task[w].pc = "fail"
           /\ \/ /\ CanMove(Processing) /\ Moved("FAILED")
                 /\ \/ task[w].seen.ready /\ task'[w].pc = "give-up"
                    \/ task'[w].pc = "refund"
              \/ UNCHANGED video /\ task'[w].pc = "give-up"
<1>1. /\ task[w].pc = "fail" /\ Quiet /\ UNCHANGED <<transcripts, candidates, held>>
      /\ \/ /\ CanMove(Processing)
            /\ video' = [video EXCEPT !.status = "FAILED", !.failedStage = task[w].seen.status,
                                      !.retryable = task[w].err # "fatal"]
            /\ (task[w].seen.ready /\ Goto(w, "give-up")) \/ Goto(w, "refund")
         \/ UNCHANGED video /\ Goto(w, "give-up")
  BY DEF FailVideo, Quiet
<1>2. task[w].seen.status \in Processing /\ video \in Video
  BY <1>1 DEF Shaped, Remembers
<1>3. \/ /\ CanMove(Processing) /\ Moved("FAILED")
         /\ (task[w].seen.ready /\ Goto(w, "give-up")) \/ Goto(w, "refund")
      \/ UNCHANGED video /\ Goto(w, "give-up")
  <2> DEFINE b == task[w].err # "fatal"
  <2>1. b \in BOOLEAN
    OBVIOUS
  <2>2. ASSUME video' = [video EXCEPT !.status = "FAILED", !.failedStage = task[w].seen.status,
                                      !.retryable = b]
        PROVE  Moved("FAILED")
    <3> HIDE DEF b
    <3>. QED BY <1>2, <2>1, <2>2, FailingRow
  <2>. QED BY <1>1, <2>2
<1>4. RowsShaped'
  BY <1>1, <1>2, <1>3, ShapeOfRows DEF RowsShaped, Moved, RowBecomes
<1>5. /\ Goto(w, "give-up") => Works(w) /\ task'[w].pc = "give-up"
      /\ Goto(w, "refund") => Works(w) /\ task'[w].pc = "refund"
  BY <1>1, <1>4, QuietGoing DEF Pcs, TranscribingSteps
<1>. QED BY <1>1, <1>3, <1>5

LEMMA RefundStep ==
    ASSUME Shaped, NEW w \in Slots, Refund(w)
    PROVE  /\ Works(w) /\ UNCHANGED <<video, transcripts, candidates, jobs, request>>
           /\ task[w].pc = "refund" /\ task'[w].pc = "give-up" /\ held' = FALSE
           /\ used'["requests"] = used["requests"]
           /\ used'["lateRefunds"] = IF held /\ Overtaken THEN used["lateRefunds"] + 1
                                     ELSE used["lateRefunds"]
<1>1. /\ task[w].pc = "refund" /\ Goto(w, "give-up") /\ held' = FALSE
      /\ UNCHANGED <<video, transcripts, candidates, jobs, request>>
      /\ used' = IF held /\ Overtaken THEN [used EXCEPT !["lateRefunds"] = used["lateRefunds"] + 1]
                 ELSE used
  BY DEF Refund
<1>2. RowsShaped'
  BY <1>1, ShapeOfRows DEF RowsShaped
<1>3. used \in [Counted -> Nat] /\ "lateRefunds" \in Counted /\ "requests" \in Counted
  BY Bounds DEF Shaped, Counters
<1>4. /\ used' \in [Counted -> Nat] /\ used'["requests"] = used["requests"]
      /\ used'["lateRefunds"] = IF held /\ Overtaken THEN used["lateRefunds"] + 1
                                ELSE used["lateRefunds"]
  BY <1>1, <1>3
<1>5. /\ task' \in [Slots -> Task] /\ Alone(w) /\ task'[w].pc = "give-up" /\ task'[w].job = task[w].job
  BY <1>1, Going DEF Pcs
<1>6. Remembers(w)'
  BY <1>1, <1>5, Rememberings DEF TranscribingSteps
<1>7. Shaped'
  BY <1>1, <1>2, <1>4, <1>5, <1>6, ShapeFrame, ShapeOfRows DEF JobsShaped
<1>. QED BY <1>1, <1>4, <1>5, <1>7 DEF Works

LEMMA CallFailsStep ==
    ASSUME Shaped, NEW w \in Slots, CallFails(w)
    PROVE  /\ Works(w) /\ UNCHANGED <<rows, jobs, request>>
           /\ task[w].pc \in FaultyCalls \cap HandlerCalls
           /\ used'["requests"] = used["requests"] /\ task'[w].pc = "failing"
<1>1. /\ task[w].pc \in FaultyCalls \cap HandlerCalls /\ UNCHANGED <<rows, jobs, request>>
      /\ Suffer("errors")
      /\ \/ Fails(w, "transient")
         \/ Fails(w, "fatal")
  BY DEF CallFails
<1>2. used' \in [Counted -> Nat] /\ used'["requests"] = used["requests"]
  BY <1>1, Suffering DEF Counters
<1>3. RowsShaped' /\ task[w].pc # "idle"
  BY <1>1, ShapeOfRows DEF RowsShaped, rows, HandlerCalls
<1>4. Works(w) /\ task'[w].pc = "failing"
  BY <1>1, <1>2, <1>3, FailingWorks
<1>. QED BY <1>1, <1>2, <1>4

LEMMA BookkeepingFailsStep ==
    ASSUME Shaped, NEW w \in Slots, BookkeepingFails(w)
    PROVE  /\ Works(w) /\ UNCHANGED <<rows, jobs, request>>
           /\ task[w].pc \in {"fail", "refund"} \cap FaultyCalls /\ task'[w].pc = "give-up"
           /\ used'["requests"] = used["requests"]
<1>1. /\ task[w].pc \in {"fail", "refund"} \cap FaultyCalls /\ UNCHANGED <<rows, jobs, request>>
      /\ Suffer("errors") /\ Goto(w, "give-up")
  BY DEF BookkeepingFails
<1>2. used' \in [Counted -> Nat] /\ used'["requests"] = used["requests"]
  BY <1>1, Suffering DEF Counters
<1>3. /\ task' \in [Slots -> Task] /\ Alone(w) /\ task'[w].pc = "give-up" /\ task'[w].job = task[w].job
  BY <1>1, Going DEF Pcs
<1>4. Remembers(w)'
  BY <1>1, <1>3, Rememberings DEF TranscribingSteps
<1>5. Shaped'
  <2>1. RowsShaped' /\ JobsShaped' /\ DOMAIN jobs' = DOMAIN jobs /\ request' = request
    BY <1>1, ShapeOfRows DEF RowsShaped, rows, JobsShaped
  <2>. QED BY <1>2, <1>3, <1>4, <2>1, ShapeFrame
<1>. QED BY <1>1, <1>2, <1>3, <1>5 DEF Works

LEMMA CrashStep ==
    ASSUME Shaped, NEW w \in Slots, Crash(w)
    PROVE  /\ Shaped' /\ Alone(w) /\ task'[w].pc = "idle" /\ UNCHANGED <<rows, jobs, request>>
           /\ used'["requests"] = used["requests"] /\ used.crashes < Bound.crashes
<1>1. task' = [task EXCEPT ![w] = Idle] /\ UNCHANGED <<rows, jobs, request>> /\ Suffer("crashes")
  BY DEF Crash
<1>2. /\ used' \in [Counted -> Nat] /\ used'["requests"] = used["requests"]
      /\ used.crashes < Bound.crashes
  BY <1>1, Suffering DEF Counters
<1>3. task' \in [Slots -> Task] /\ Alone(w) /\ task'[w].pc = "idle"
  BY <1>1, Idling
<1>4. Remembers(w)'
  BY <1>3 DEF Remembers, At, Transcribing, TranscribingSteps
<1>5. Shaped'
  <2>1. RowsShaped' /\ JobsShaped' /\ DOMAIN jobs' = DOMAIN jobs /\ request' = request
    BY <1>1, ShapeOfRows DEF RowsShaped, rows, JobsShaped
  <2>. QED BY <1>2, <1>3, <1>4, <2>1, ShapeFrame
<1>. QED BY <1>1, <1>2, <1>3, <1>5

LEMMA StartStep ==
    ASSUME Shaped, NEW w \in Slots, Start(w)
    PROVE  /\ Shaped' /\ Alone(w) /\ task[w].pc = "idle" /\ task'[w].pc = "read"
           /\ UNCHANGED <<rows, request, used>>
           /\ \E id \in DOMAIN jobs :
                 /\ task'[w].job = id /\ OnlyJob(id) /\ jobs[id].state = "waiting"
                 /\ jobs'[id].state = "active" /\ jobs'[id].slot = w
<1>1. PICK id \in DOMAIN jobs :
         /\ task[w].pc = "idle" /\ Take(w, id) /\ UNCHANGED <<rows, request, used>>
         /\ task' = [task EXCEPT ![w] = [Idle EXCEPT !.pc = "read", !.job = id,
                                                     !.attempt = jobs[id].attempts + 1]]
  BY DEF Start
<1>2. task' \in [Slots -> Task] /\ Alone(w) /\ task'[w].pc = "read" /\ task'[w].job = id
  BY <1>1, Starting
<1>3. /\ OnlyJob(id) /\ jobs[id].state = "waiting"
      /\ jobs'[id].state = "active" /\ jobs'[id].slot = w
  BY <1>1, Taking
<1>4. Remembers(w)'
  BY <1>2, <1>3 DEF Remembers, At, Transcribing, TranscribingSteps, OnlyJob
<1>5. Shaped'
  <2>1. /\ RowsShaped' /\ JobsShaped' /\ DOMAIN jobs' = DOMAIN jobs /\ request' = request
        /\ used' \in [Counted -> Nat]
    BY <1>1, <1>3, ShapeOfRows DEF RowsShaped, rows, JobsShaped, OnlyJob, Shaped
  <2>. QED BY <1>2, <1>4, <2>1, ShapeFrame
<1>. QED BY <1>1, <1>2, <1>3, <1>5

LEMMA StallStep ==
    ASSUME Shaped, NEW id \in DOMAIN jobs, Stall(id)
    PROVE  /\ Shaped' /\ UNCHANGED <<rows, task, request>> /\ OnlyJob(id)
           /\ jobs[id].state = "active" /\ used'["requests"] = used["requests"]
           /\ task[jobs[id].slot].job # id \/ used.lostLocks < Bound.lostLocks
<1>1. /\ OnlyJob(id) /\ jobs[id].state = "active" /\ UNCHANGED <<rows, task, request>>
  BY Reclaiming DEF Stall
<1>2. /\ used' \in [Counted -> Nat] /\ used'["requests"] = used["requests"]
      /\ task[jobs[id].slot].job # id \/ used.lostLocks < Bound.lostLocks
  BY Suffering DEF Stall, Counters, Shaped
<1>3. /\ \A v \in Slots : Remembers(v)'
      /\ \A q \in Requests : Intends(q)'
  BY <1>1 DEF Shaped, Remembers, Intends, At, Transcribing, OnlyJob
<1>4. Shaped'
  BY <1>1, <1>2, <1>3 DEF Shaped, OnlyJob, rows
<1>. QED BY <1>1, <1>2, <1>4

-----------------------------------------------------------------------------
(* The requests, the removal and the janitor.                              *)

LEMMA RequestFrame ==
    ASSUME Shaped, NEW q \in Requests, Else(q), request' \in [Requests -> Asked], Intends(q)',
           RowsShaped', JobsShaped', DOMAIN jobs \subseteq DOMAIN jobs', task' = task,
           used' \in [Counted -> Nat]
    PROVE  Shaped'
<1>1. ASSUME NEW p \in Requests PROVE Intends(p)'
  <2>1. CASE p = q
    BY <2>1
  <2>2. CASE p # q
    BY <2>2 DEF Else, Shaped, Intends
  <2>. QED BY <2>1, <2>2
<1>2. ASSUME NEW w \in Slots PROVE Remembers(w)'
  BY DEF Shaped, Remembers, At, Transcribing
<1>. QED BY <1>1, <1>2 DEF Shaped, RowsShaped, JobsShaped

LEMMA PlansAre == DOMAIN PlanTo = {"ingest", "transcription", "analysis", "reanalysis"}
BY DEF PlanTo

LEMMA AskStep ==
    ASSUME Shaped, NEW q \in Requests, Process(q) \/ Analyze(q)
    PROVE  /\ Shaped' /\ Else(q) /\ UNCHANGED <<rows, jobs, task>>
           /\ request[q].pc = "idle" /\ request'[q].pc = "transition"
           /\ used.requests < Bound.requests /\ used'["requests"] = used["requests"] + 1
<1>1. PICK plan \in DOMAIN PlanTo : Ask(q, plan)
  <2>1. ProcessPlan \in DOMAIN PlanTo /\ "reanalysis" \in DOMAIN PlanTo
    BY PlansAre DEF ProcessPlan
  <2>. QED BY <2>1 DEF Process, Analyze
<1>2. /\ request' \in [Requests -> Asked] /\ Else(q) /\ Intends(q)'
      /\ request[q].pc = "idle" /\ request'[q].pc = "transition"
  BY <1>1, Asking
<1>3. /\ UNCHANGED <<rows, jobs, task>> /\ used' \in [Counted -> Nat]
      /\ used.requests < Bound.requests /\ used'["requests"] = used["requests"] + 1
  BY <1>1, Using DEF Ask, Counters
<1>4. Shaped'
  <2>1. RowsShaped' /\ JobsShaped' /\ DOMAIN jobs' = DOMAIN jobs /\ task' = task
    BY <1>3, ShapeOfRows DEF RowsShaped, rows, JobsShaped
  <2>. QED BY <1>2, <1>3, <2>1, RequestFrame
<1>. QED BY <1>2, <1>3, <1>4

LEMMA RestartStep ==
    ASSUME Shaped, NEW q \in Requests, Restart(q)
    PROVE  /\ Shaped' /\ Else(q) /\ UNCHANGED <<transcripts, candidates, held, jobs, task, used>>
           /\ request[q].pc = "transition"
           /\ \/ UNCHANGED video /\ request'[q].pc = "idle"
              \/ /\ CanMove({"FAILED"}) /\ request'[q].pc = "enqueue"
                 /\ RowBecomes("QUEUED", video.run + 1, video.analysisRun, video.transcript,
                               video.ready, video.deleted)
                 /\ request'[q].next = Enqueuing(IngestJob(video.run + 1), None)
              \/ /\ CanMove({"FAILED"}) /\ request'[q].pc = "version"
                 /\ RowBecomes("TRANSCRIBING", video.run + 1, video.analysisRun, video.transcript,
                               video.ready, video.deleted)
                 /\ request'[q].run = video.run + 1
              \/ /\ CanMove({"READY", "FAILED"}) /\ request'[q].pc = "enqueue"
                 /\ RowBecomes("ANALYZING", video.run, video.analysisRun + 1, video.transcript,
                               video.ready, video.deleted)
                 /\ request'[q].next = Enqueuing(AnalysisJob(video.analysisRun + 1), video.transcript)
<1> DEFINE plan == request[q].plan
           run == video.run + 1
           analysisRun == video.analysisRun + 1
           moved(status) == [video EXCEPT !.status = status, !.retryable = TRUE]
<1>1. /\ request[q].pc = "transition" /\ UNCHANGED <<transcripts, candidates, held, jobs, task, used>>
      /\ plan \in {"ingest", "transcription", "analysis", "reanalysis"}
      /\ video \in Video /\ used \in [Counted -> Nat]
  BY PlansAre DEF Restart, Shaped, Intends
<1>2. run \in Nat /\ analysisRun \in Nat /\ video.transcript \in Nat
  BY <1>1 DEF Video
<1>3. /\ Enqueuing(IngestJob(run), None) \in Enqueued
      /\ Enqueuing(AnalysisJob(analysisRun), video.transcript) \in Enqueued
  BY <1>2, Ids, Enqueuings
<1>4. \/ request' = [request EXCEPT ![q] = NoRequest] /\ UNCHANGED video
      \/ /\ CanMove({"FAILED"}) /\ video' = [moved("QUEUED") EXCEPT !.run = run]
         /\ request' = [request EXCEPT ![q].pc = "enqueue", ![q].next = Enqueuing(IngestJob(run), None)]
      \/ /\ CanMove({"FAILED"}) /\ video' = [moved("TRANSCRIBING") EXCEPT !.run = run]
         /\ request' = [request EXCEPT ![q].pc = "version", ![q].run = run]
      \/ /\ CanMove({"READY", "FAILED"}) /\ video' = [moved("ANALYZING") EXCEPT !.analysisRun = analysisRun]
         /\ request' = [request EXCEPT ![q].pc = "enqueue",
                           ![q].next = Enqueuing(AnalysisJob(analysisRun), video.transcript)]
  <2>1. CASE ~ CanMove(PlanFrom[plan])
    <3>1. request' = [request EXCEPT ![q] = NoRequest] /\ UNCHANGED video
      BY <2>1 DEF Restart
    <3>. QED BY <3>1
  <2>2. CASE CanMove(PlanFrom[plan]) /\ plan = "ingest"
    <3>1. PlanFrom[plan] = {"FAILED"} /\ PlanTo[plan] = "QUEUED"
      BY <2>2 DEF PlanFrom, PlanTo
    <3>2. video' = [moved(PlanTo[plan]) EXCEPT !.run = run]
      BY <2>2 DEF Restart
    <3>3. request' = [request EXCEPT ![q].pc = "enqueue", ![q].next = Enqueuing(IngestJob(run), None)]
      BY <2>2 DEF Restart
    <3>. QED BY <2>2, <3>1, <3>2, <3>3
  <2>3. CASE CanMove(PlanFrom[plan]) /\ plan = "transcription"
    <3>1. PlanFrom[plan] = {"FAILED"} /\ PlanTo[plan] = "TRANSCRIBING"
      BY <2>3 DEF PlanFrom, PlanTo
    <3>2. video' = [moved(PlanTo[plan]) EXCEPT !.run = run]
      BY <2>3 DEF Restart
    <3>3. request' = [request EXCEPT ![q].pc = "version", ![q].run = run]
      BY <2>3 DEF Restart
    <3>. QED BY <2>3, <3>1, <3>2, <3>3
  <2>4. CASE CanMove(PlanFrom[plan]) /\ plan \in {"analysis", "reanalysis"}
    <3>1. PlanTo[plan] = "ANALYZING" /\ CanMove({"READY", "FAILED"})
      BY <2>4 DEF PlanFrom, PlanTo, CanMove
    <3>2. video' = [moved(PlanTo[plan]) EXCEPT !.analysisRun = analysisRun]
      BY <2>4 DEF Restart
    <3>3. request' = [request EXCEPT ![q].pc = "enqueue",
                         ![q].next = Enqueuing(AnalysisJob(analysisRun), video.transcript)]
      BY <2>4 DEF Restart
    <3>. QED BY <3>1, <3>2, <3>3
  <2>. QED BY <1>1, <2>1, <2>2, <2>3, <2>4
<1> HIDE DEF run, analysisRun
<1>5. CASE request' = [request EXCEPT ![q] = NoRequest] /\ UNCHANGED video
  <2>1. request' \in [Requests -> Asked] /\ Else(q) /\ request'[q].pc = "idle" /\ Intends(q)'
    BY <1>5, Dropping
  <2>2. RowsShaped' /\ JobsShaped' /\ DOMAIN jobs' = DOMAIN jobs /\ task' = task
    BY <1>1, <1>5, ShapeOfRows DEF RowsShaped, JobsShaped
  <2>3. Shaped'
    BY <1>1, <2>1, <2>2, RequestFrame
  <2>. QED BY <1>1, <1>5, <2>1, <2>3
<1>6. CASE /\ CanMove({"FAILED"}) /\ video' = [moved("QUEUED") EXCEPT !.run = run]
           /\ request' = [request EXCEPT ![q].pc = "enqueue", ![q].next = Enqueuing(IngestJob(run), None)]
  <2>1. /\ request' \in [Requests -> Asked] /\ Else(q) /\ Intends(q)'
        /\ request'[q].pc = "enqueue" /\ request'[q].next = Enqueuing(IngestJob(run), None)
    <3> DEFINE next == Enqueuing(IngestJob(run), None)
    <3>1. next \in Enqueued /\ request' = [request EXCEPT ![q].pc = "enqueue", ![q].next = next]
      BY <1>3, <1>6
    <3> HIDE DEF next
    <3>2. /\ request' \in [Requests -> Asked] /\ Else(q) /\ Intends(q)'
          /\ request'[q].pc = "enqueue" /\ request'[q].next = next
      BY <1>1, <1>2, <3>1, Proceeding
    <3>. QED BY <3>2 DEF next
  <2>2. RowBecomes("QUEUED", run, video.analysisRun, video.transcript, video.ready, video.deleted)
    BY <1>1, <1>2, <1>6, Restarting DEF Statuses, Processing
  <2>3. RowsShaped' /\ JobsShaped' /\ DOMAIN jobs' = DOMAIN jobs /\ task' = task
    BY <1>1, <2>2, ShapeOfRows DEF RowsShaped, JobsShaped, RowBecomes
  <2>4. Shaped'
    BY <1>1, <2>1, <2>3, RequestFrame
  <2>. QED BY <1>1, <1>6, <2>1, <2>2, <2>4 DEF run
<1>7. CASE /\ CanMove({"FAILED"}) /\ video' = [moved("TRANSCRIBING") EXCEPT !.run = run]
           /\ request' = [request EXCEPT ![q].pc = "version", ![q].run = run]
  <2>1. /\ request' \in [Requests -> Asked] /\ Else(q) /\ Intends(q)'
        /\ request'[q].pc = "version" /\ request'[q].run = run
    BY <1>1, <1>2, <1>7, Versioning
  <2>2. RowBecomes("TRANSCRIBING", run, video.analysisRun, video.transcript, video.ready, video.deleted)
    BY <1>1, <1>2, <1>7, Restarting DEF Statuses, Processing
  <2>3. RowsShaped' /\ JobsShaped' /\ DOMAIN jobs' = DOMAIN jobs /\ task' = task
    BY <1>1, <2>2, ShapeOfRows DEF RowsShaped, JobsShaped, RowBecomes
  <2>4. Shaped'
    BY <1>1, <2>1, <2>3, RequestFrame
  <2>. QED BY <1>1, <1>7, <2>1, <2>2, <2>4 DEF run
<1>8. CASE /\ CanMove({"READY", "FAILED"})
           /\ video' = [moved("ANALYZING") EXCEPT !.analysisRun = analysisRun]
           /\ request' = [request EXCEPT ![q].pc = "enqueue",
                             ![q].next = Enqueuing(AnalysisJob(analysisRun), video.transcript)]
  <2>1. /\ request' \in [Requests -> Asked] /\ Else(q) /\ Intends(q)' /\ request'[q].pc = "enqueue"
        /\ request'[q].next = Enqueuing(AnalysisJob(analysisRun), video.transcript)
    <3> DEFINE next == Enqueuing(AnalysisJob(analysisRun), video.transcript)
    <3>1. next \in Enqueued /\ request' = [request EXCEPT ![q].pc = "enqueue", ![q].next = next]
      BY <1>3, <1>8
    <3> HIDE DEF next
    <3>2. /\ request' \in [Requests -> Asked] /\ Else(q) /\ Intends(q)'
          /\ request'[q].pc = "enqueue" /\ request'[q].next = next
      BY <1>1, <1>2, <3>1, Proceeding
    <3>. QED BY <3>2 DEF next
  <2>2. RowBecomes("ANALYZING", video.run, analysisRun, video.transcript, video.ready, video.deleted)
    BY <1>1, <1>2, <1>8, Restarting DEF Statuses, Processing
  <2>3. RowsShaped' /\ JobsShaped' /\ DOMAIN jobs' = DOMAIN jobs /\ task' = task
    BY <1>1, <2>2, ShapeOfRows DEF RowsShaped, JobsShaped, RowBecomes
  <2>4. Shaped'
    BY <1>1, <2>1, <2>3, RequestFrame
  <2>. QED BY <1>1, <1>8, <2>1, <2>2, <2>4 DEF analysisRun
<1>. QED BY <1>4, <1>5, <1>6, <1>7, <1>8

LEMMA RequestVersionStep ==
    ASSUME Shaped, NEW q \in Requests, RequestVersion(q)
    PROVE  /\ Shaped' /\ Else(q) /\ UNCHANGED <<rows, jobs, task, used>>
           /\ request[q].pc = "version" /\ request'[q].pc = "enqueue"
           /\ request'[q].next = Enqueuing(TranscriptionJob(NextVersion, request[q].run), None)
<1> DEFINE next == Enqueuing(TranscriptionJob(NextVersion, request[q].run), None)
           run == 0
<1>1. /\ request[q].pc = "version" /\ UNCHANGED <<rows, jobs, task, used>>
      /\ request' = [request EXCEPT ![q].pc = "enqueue", ![q].run = run, ![q].next = next]
  BY DEF RequestVersion
<1>2. next \in Enqueued /\ run \in Nat
  <2>1. request[q].run \in Nat /\ NextVersion \in Nat
    BY NextVersionIs DEF Shaped, Asked
  <2>. QED BY <2>1, Ids, Enqueuings
<1> HIDE DEF next, run
<1>3. /\ request' \in [Requests -> Asked] /\ Else(q) /\ Intends(q)'
      /\ request'[q].pc = "enqueue" /\ request'[q].next = next
  BY <1>1, <1>2, Proceeding
<1>4. Shaped'
  <2>1. /\ RowsShaped' /\ JobsShaped' /\ DOMAIN jobs' = DOMAIN jobs /\ task' = task
        /\ used' \in [Counted -> Nat]
    BY <1>1, ShapeOfRows DEF RowsShaped, rows, JobsShaped, Shaped
  <2>. QED BY <1>3, <2>1, RequestFrame
<1>. QED BY <1>1, <1>3, <1>4 DEF next

LEMMA RequestEnqueuesStep ==
    ASSUME Shaped, NEW q \in Requests, RequestEnqueues(q)
    PROVE  /\ Shaped' /\ Else(q) /\ UNCHANGED <<rows, task, used>>
           /\ request[q].pc = "enqueue" /\ request'[q].pc = "idle"
           /\ request[q].next.id \in JobId
           /\ DOMAIN jobs' = DOMAIN jobs \cup {request[q].next.id}
           /\ \A i \in DOMAIN jobs : jobs'[i] = jobs[i]
           /\ request[q].next.id \notin DOMAIN jobs =>
                 /\ jobs'[request[q].next.id].state = "waiting"
                 /\ jobs'[request[q].next.id].data = request[q].next.data
<1>1. /\ request[q].pc = "enqueue" /\ UNCHANGED <<rows, task, used>>
      /\ Add(request[q].next.id, request[q].next.data)
      /\ request' = [request EXCEPT ![q] = NoRequest]
  BY DEF RequestEnqueues
<1>2. request[q].next.id \in JobId /\ request[q].next.data \in Nat \cup {None}
  BY <1>1 DEF Shaped, Intends, Enqueued
<1>3. /\ JobsShaped' /\ DOMAIN jobs' = DOMAIN jobs \cup {request[q].next.id}
      /\ \A i \in DOMAIN jobs : jobs'[i] = jobs[i]
      /\ request[q].next.id \notin DOMAIN jobs =>
            /\ jobs'[request[q].next.id].state = "waiting"
            /\ jobs'[request[q].next.id].data = request[q].next.data
  BY <1>1, <1>2, Adding DEF JobsShaped
<1>4. request' \in [Requests -> Asked] /\ Else(q) /\ request'[q].pc = "idle" /\ Intends(q)'
  BY <1>1, Dropping
<1>5. Shaped'
  <2>1. RowsShaped' /\ task' = task /\ used' \in [Counted -> Nat]
    BY <1>1, ShapeOfRows DEF RowsShaped, rows, Shaped
  <2>. QED BY <1>3, <1>4, <2>1, RequestFrame
<1>. QED BY <1>1, <1>2, <1>3, <1>4, <1>5

LEMMA EnqueueLostStep ==
    ASSUME Shaped, NEW q \in Requests, EnqueueLost(q)
    PROVE  /\ Shaped' /\ Else(q) /\ UNCHANGED <<rows, jobs, task, used>>
           /\ request'[q].pc = "idle"
<1>1. UNCHANGED <<rows, jobs, task, used>> /\ request' = [request EXCEPT ![q] = NoRequest]
  BY DEF EnqueueLost
<1>2. request' \in [Requests -> Asked] /\ Else(q) /\ request'[q].pc = "idle" /\ Intends(q)'
  BY <1>1, Dropping
<1>3. Shaped'
  <2>1. /\ RowsShaped' /\ JobsShaped' /\ DOMAIN jobs' = DOMAIN jobs /\ task' = task
        /\ used' \in [Counted -> Nat]
    BY <1>1, ShapeOfRows DEF RowsShaped, rows, JobsShaped, Shaped
  <2>. QED BY <1>2, <2>1, RequestFrame
<1>. QED BY <1>1, <1>2, <1>3

(* A step of the row or of the jobs that no execution or request takes.    *)
LEMMA OutsideFrame ==
    ASSUME Shaped, RowsShaped', JobsShaped', DOMAIN jobs \subseteq DOMAIN jobs',
           task' = task, request' = request, used' \in [Counted -> Nat]
    PROVE  Shaped'
<1>1. ASSUME NEW w \in Slots PROVE Remembers(w)'
  BY DEF Shaped, Remembers, At, Transcribing
<1>2. ASSUME NEW q \in Requests PROVE Intends(q)'
  BY DEF Shaped, Intends
<1>. QED BY <1>1, <1>2 DEF Shaped, RowsShaped, JobsShaped

LEMMA RemoveVideoStep ==
    ASSUME Shaped, RemoveVideo
    PROVE  /\ Shaped' /\ UNCHANGED <<transcripts, held, jobs, task, request>> /\ ~ video.deleted
           /\ RowBecomes(video.status, video.run, video.analysisRun, video.transcript, video.ready, TRUE)
           /\ used'["requests"] = used["requests"]
<1>1. /\ video' = [video EXCEPT !.deleted = TRUE] /\ ~ video.deleted /\ Use("removals")
      /\ UNCHANGED <<transcripts, held, jobs, task, request>> /\ video \in Video
      /\ candidates' = [r \in Versions |-> IF candidates[r] = "live" THEN "superseded" ELSE candidates[r]]
      /\ candidates \in [Versions -> {"none", "live", "superseded"}]
  BY DEF RemoveVideo, Shaped
<1>2. RowBecomes(video.status, video.run, video.analysisRun, video.transcript, video.ready, TRUE)
  BY <1>1, Removing
<1>3. candidates' \in [Versions -> {"none", "live", "superseded"}]
  BY <1>1
<1>4. used' \in [Counted -> Nat] /\ used'["requests"] = used["requests"]
  BY <1>1, Using DEF Counters
<1>5. Shaped'
  <2>1. RowsShaped' /\ JobsShaped' /\ DOMAIN jobs' = DOMAIN jobs
    BY <1>1, <1>2, <1>3, ShapeOfRows DEF RowsShaped, JobsShaped, RowBecomes
  <2>. QED BY <1>1, <1>4, <2>1, OutsideFrame
<1>. QED BY <1>1, <1>2, <1>4, <1>5

LEMMA RequeueStep ==
    ASSUME Shaped, Requeue
    PROVE  /\ Shaped' /\ UNCHANGED <<rows, task, request, used>>
           /\ CanMove({"QUEUED"}) /\ IngestJob(video.run) \in JobId
           /\ DOMAIN jobs' = DOMAIN jobs \cup {IngestJob(video.run)}
           /\ \A i \in DOMAIN jobs : jobs'[i] = jobs[i]
           /\ IngestJob(video.run) \notin DOMAIN jobs =>
                 /\ jobs'[IngestJob(video.run)].state = "waiting"
                 /\ jobs'[IngestJob(video.run)].data = None
<1> DEFINE id == IngestJob(video.run)
<1>1. /\ CanMove({"QUEUED"}) /\ Add(id, None) /\ UNCHANGED <<rows, task, request, used>>
  BY DEF Requeue
<1>2. id \in JobId
  <2>1. video.run \in Nat
    BY DEF Shaped, Video
  <2>. QED BY <2>1, Ids
<1> HIDE DEF id
<1>3. /\ JobsShaped' /\ DOMAIN jobs' = DOMAIN jobs \cup {id}
      /\ \A i \in DOMAIN jobs : jobs'[i] = jobs[i]
      /\ id \notin DOMAIN jobs => jobs'[id].state = "waiting" /\ jobs'[id].data = None
  BY <1>1, <1>2, Adding DEF JobsShaped
<1>4. Shaped'
  <2>1. RowsShaped' /\ used' \in [Counted -> Nat] /\ task' = task /\ request' = request
    BY <1>1, ShapeOfRows DEF RowsShaped, rows, Shaped
  <2>. QED BY <1>3, <2>1, OutsideFrame
<1>. QED BY <1>1, <1>2, <1>3, <1>4 DEF id

-----------------------------------------------------------------------------
(* Every step at once.                                                     *)

LEMMA InitShaped ==
    ASSUME Init
    PROVE  /\ Shaped /\ used["requests"] = 0
           /\ \A q \in Requests : \/ request[q].pc = "idle"
                                  \/ request[q].pc = "enqueue" /\ request[q].next.id = IngestJob(1)
           /\ \A w \in Slots : task[w].pc = "idle"
<1>1. video \in Video
  BY DEF Init, Video, Statuses, Processing
<1>2. Idle \in Task /\ Idle.pc = "idle" /\ task = [w \in Slots |-> Idle]
  BY DEF Init, Idle, Task
<1>3. used \in [Counted -> Nat] /\ used["requests"] = 0
  BY Bounds DEF Init, Counters
<1>4. /\ request \in [Requests -> Asked]
      /\ \A q \in Requests : /\ Intends(q)
                             /\ \/ request[q].pc = "idle"
                                \/ request[q].pc = "enqueue" /\ request[q].next.id = IngestJob(1)
  <2>1. PICK q \in Requests : request = [r \in Requests |-> IF r # q THEN NoRequest
                  ELSE [pc |-> "enqueue", plan |-> "ingest", run |-> 0,
                        next |-> Enqueuing(IngestJob(1), None)]]
    BY DEF Init
  <2> DEFINE next == Enqueuing(IngestJob(1), None)
             r == [pc |-> "enqueue", plan |-> "ingest", run |-> 0, next |-> next]
  <2>2. next \in Enqueued /\ next.id = IngestJob(1)
    BY Ids, Enqueuings
  <2> HIDE DEF next
  <2>3. r \in Asked /\ r.pc = "enqueue" /\ r.next = next /\ r.plan \in DOMAIN PlanTo
    BY <2>2, PlansAre DEF Asked
  <2>4. NoRequest \in Asked /\ NoRequest.pc = "idle"
    BY DEF NoRequest, Asked
  <2>5. request = [p \in Requests |-> IF p # q THEN NoRequest ELSE r]
    BY <2>1 DEF next
  <2> HIDE DEF r
  <2>. QED BY <2>2, <2>3, <2>4, <2>5 DEF Intends
<1>5. DOMAIN jobs = {} /\ jobs \in [DOMAIN jobs -> Job]
  BY DEF Init
<1>6. \A w \in Slots : Remembers(w) /\ task[w].pc = "idle"
  BY <1>2 DEF Remembers, At, Transcribing, TranscribingSteps
<1>7. /\ transcripts \in [Versions -> {"none", "PENDING", "PROCESSING", "COMPLETED", "FAILED"}]
      /\ candidates \in [Versions -> {"none", "live", "superseded"}] /\ held \in BOOLEAN
  BY DEF Init
<1>. QED BY <1>1, <1>2, <1>3, <1>4, <1>5, <1>6, <1>7 DEF Shaped

(* One step of one execution, told apart by what the lemmas above say.     *)
LEMMA ExecutionSteps ==
    ASSUME NEW w \in Slots, Execute(w)
    PROVE  \/ IngestRead(w) \/ EnsureTranscriptionJob(w) \/ ClaimIngest(w) \/ (Probe(w) \/ Prepare(w))
           \/ ChooseVersion(w) \/ FinishIngest(w)
           \/ TranscriptionRead(w) \/ EnsureTranscript(w) \/ MarkProcessing(w) \/ Transcribe(w)
           \/ SaveTranscript(w) \/ ActivateTranscript(w) \/ DiscardAudio(w) \/ FinishTranscription(w)
           \/ (AnalysisRead(w) \/ LoadTranscript(w) \/ FindMoments(w))
           \/ PublishCandidates(w) \/ FinishAnalysis(w)
           \/ Charge(w) \/ Enqueue(w) \/ FailRead(w) \/ FailVideo(w) \/ Refund(w)
           \/ (Complete(w) \/ RetryLater(w) \/ GiveUp(w) \/ RecordFails(w))
BY DEF Execute, Ingest, Transcription, Analysis, Failure

LEMMA ShapedStep ==
    ASSUME Shaped, [Next]_vars
    PROVE  Shaped'
<1>1. ASSUME NEW w \in Slots, Execute(w) PROVE Shaped'
  <2>1. CASE \/ IngestRead(w) \/ EnsureTranscriptionJob(w) \/ ClaimIngest(w) \/ (Probe(w) \/ Prepare(w))
             \/ ChooseVersion(w) \/ FinishIngest(w)
    BY <2>1, IngestReadStep, EnsureTranscriptionJobStep, ClaimIngestStep, IngestWorkStep,
       ChooseVersionStep, FinishIngestStep DEF Works
  <2>2. CASE \/ TranscriptionRead(w) \/ EnsureTranscript(w) \/ MarkProcessing(w) \/ Transcribe(w)
             \/ SaveTranscript(w) \/ ActivateTranscript(w) \/ DiscardAudio(w) \/ FinishTranscription(w)
    BY <2>2, TranscriptionReadStep, EnsureTranscriptStep, MarkProcessingStep, TranscribeStep,
       SaveTranscriptStep, ActivateTranscriptStep, DiscardAudioStep, FinishTranscriptionStep DEF Works
  <2>3. CASE \/ (AnalysisRead(w) \/ LoadTranscript(w) \/ FindMoments(w))
             \/ PublishCandidates(w) \/ FinishAnalysis(w)
    BY <2>3, AnalysisWorkStep, PublishCandidatesStep, FinishAnalysisStep DEF Works
  <2>4. CASE \/ Charge(w) \/ Enqueue(w) \/ FailRead(w) \/ FailVideo(w) \/ Refund(w)
             \/ (Complete(w) \/ RetryLater(w) \/ GiveUp(w) \/ RecordFails(w))
    BY <2>4, ChargeStep, EnqueueStep, FailReadStep, FailVideoStep, RefundStep, EndStep DEF Works, Ends
  <2>. QED BY <1>1, <2>1, <2>2, <2>3, <2>4, ExecutionSteps
<1>2. ASSUME NEW w \in Slots,
             Start(w) \/ CallFails(w) \/ BookkeepingFails(w) \/ RecordFails(w) \/ Crash(w)
      PROVE  Shaped'
  BY <1>2, StartStep, CallFailsStep, BookkeepingFailsStep, EndStep, CrashStep DEF Works, Ends
<1>3. ASSUME NEW id \in DOMAIN jobs, Stall(id) PROVE Shaped'
  BY <1>3, StallStep
<1>4. ASSUME NEW q \in Requests,
             \/ Process(q) \/ Analyze(q) \/ Restart(q)
             \/ RequestVersion(q) \/ RequestEnqueues(q) \/ EnqueueLost(q)
      PROVE  Shaped'
  BY <1>4, AskStep, RestartStep, RequestVersionStep, RequestEnqueuesStep, EnqueueLostStep
<1>5. CASE RemoveVideo \/ Requeue
  BY <1>5, RemoveVideoStep, RequeueStep
<1>6. CASE UNCHANGED vars
  <2>1. RowsShaped' /\ JobsShaped' /\ used' \in [Counted -> Nat]
    BY <1>6, ShapeOfRows DEF vars, rows, RowsShaped, JobsShaped, Shaped
  <2>. QED BY <1>6, <2>1, OutsideFrame DEF vars
<1>. QED BY <1>1, <1>2, <1>3, <1>4, <1>5, <1>6 DEF Next

(* Whatever the handlers, the requests and the faults do, the video row,
   the jobs, what each execution remembers and what each request is about to
   enqueue keep their shape: an execution always has a job of the queue, and
   a failure that is reported has seen the processing state it failed in.  *)
THEOREM ShapedHolds == Spec => []Shaped
<1>1. Init => Shaped
  BY InitShaped
<1>2. Shaped /\ [Next]_vars => Shaped'
  BY ShapedStep
<1>. QED BY <1>1, <1>2, PTL DEF Spec

-----------------------------------------------------------------------------
(* What is delivered is paid for.                                          *)

LEMMA PaidFrame ==
    ASSUME PaidInv, NEW w \in Slots, Shaped', Alone(w), request' = request,
           used'["requests"] = used["requests"],
           video'.status = video.status \/ video.status # "FAILED",
           held' = held \/ held' = TRUE \/ video'.status = "FAILED",
           PaidWork(w)', video'.status \in {"TRANSCRIBING", "ANALYZING", "READY"} => held'
    PROVE  PaidInv'
<1>1. ASSUME NEW v \in Slots PROVE PaidWork(v)'
  <2>1. CASE v = w
    BY <2>1
  <2>2. CASE v # w
    BY <2>2 DEF PaidInv, PaidWork, Alone
  <2>. QED BY <2>1, <2>2
<1>2. held \in BOOLEAN /\ held' \in BOOLEAN
  BY DEF PaidInv, Shaped
<1>. QED BY <1>1, <1>2 DEF PaidInv

(* A step that leaves the row and the credits alone, to a pc that asks for
   no more than the pc before.                                             *)
LEMMA PaidQuiet ==
    ASSUME PaidInv, NEW w \in Slots, Shaped', Alone(w), request' = request, UNCHANGED rows,
           used'["requests"] = used["requests"],
           \/ task'[w].pc \notin {"refund", "prepare", "version", "advance"}
           \/ task'[w].pc # "refund" /\ task'[w].job = task[w].job /\ task[w].job.queue # "ingest"
           \/ /\ task'[w].pc \in {"version", "advance"} /\ task'[w].job = task[w].job
              /\ task[w].pc \in {"prepare", "version"}
    PROVE  PaidInv'
<1>1. PaidWork(w)'
  BY DEF PaidInv, PaidWork, rows
<1>. QED BY <1>1, PaidFrame DEF PaidInv, rows

LEMMA PaidExecution ==
    ASSUME PaidInv, NEW w \in Slots, Execute(w)
    PROVE  PaidInv'
<1>0. Shaped
  BY DEF PaidInv
<1>1. CASE IngestRead(w) \/ EnsureTranscriptionJob(w) \/ (Probe(w) \/ Prepare(w)) \/ ChooseVersion(w)
  <2>1. /\ Works(w) /\ Quiet /\ UNCHANGED rows
        /\ \/ task'[w].pc \in {"done", "claim", "probe", "ensure-next", "enqueue", "charge"}
           \/ task[w].pc = "prepare" /\ task'[w].pc = "version"
           \/ task[w].pc = "version" /\ task'[w].pc = "advance"
    BY <1>0, <1>1, IngestReadStep, EnsureTranscriptionJobStep, IngestWorkStep, ChooseVersionStep
  <2>. QED BY <2>1, PaidQuiet DEF Works, Quiet
<1>2. CASE ClaimIngest(w)
  <2>1. /\ Works(w) /\ Quiet /\ held' = held /\ task'[w].pc \in {"probe", "done"}
        /\ \/ video.status = "QUEUED" /\ video'.status = "INGESTING"
           \/ video'.status = video.status
    BY <1>0, <1>2, ClaimIngestStep DEF Moved, RowBecomes, CanMove
  <2>. QED BY <2>1, PaidFrame DEF Works, Quiet, PaidInv, PaidWork
<1>3. CASE FinishIngest(w)
  <2>1. /\ Works(w) /\ Quiet /\ held' = held /\ task'[w].pc \in {"enqueue", "done"}
        /\ task[w].pc = "advance" /\ task[w].job.queue = "ingest"
        /\ \/ video.status = "INGESTING" /\ video'.status = "TRANSCRIBING"
           \/ video'.status = video.status
    BY <1>0, <1>3, FinishIngestStep DEF Moved, RowBecomes, CanMove
  <2>2. video.status = "INGESTING" => held
    BY <2>1 DEF PaidInv, PaidWork
  <2>. QED BY <2>1, <2>2, PaidFrame DEF Works, Quiet, PaidInv, PaidWork
<1>4. CASE \/ TranscriptionRead(w) \/ EnsureTranscript(w) \/ MarkProcessing(w) \/ Transcribe(w)
           \/ SaveTranscript(w) \/ ActivateTranscript(w) \/ DiscardAudio(w) \/ FinishTranscription(w)
  <2>1. /\ Works(w) /\ request' = request /\ used'["requests"] = used["requests"] /\ held' = held
        /\ task'[w].pc # "refund" /\ task[w].job.queue = "transcription"
        /\ \/ video'.status = video.status
           \/ video.status = "TRANSCRIBING" /\ video'.status = "ANALYZING"
    <3>1. CASE TranscriptionRead(w) \/ EnsureTranscript(w) \/ MarkProcessing(w) \/ Transcribe(w)
      BY <1>0, <3>1, TranscriptionReadStep, EnsureTranscriptStep, MarkProcessingStep, TranscribeStep
      DEF Quiet, rows, Transcribing
    <3>2. CASE SaveTranscript(w) \/ ActivateTranscript(w) \/ DiscardAudio(w) \/ FinishTranscription(w)
      BY <1>0, <3>2, SaveTranscriptStep, ActivateTranscriptStep, DiscardAudioStep, FinishTranscriptionStep
      DEF Quiet, rows, Transcribing, Moved, RowBecomes, CanMove
    <3>. QED BY <1>4, <3>1, <3>2
  <2>. QED BY <2>1, PaidFrame DEF Works, PaidInv, PaidWork
<1>5. CASE \/ (AnalysisRead(w) \/ LoadTranscript(w) \/ FindMoments(w))
           \/ PublishCandidates(w) \/ FinishAnalysis(w)
  <2>1. /\ Works(w) /\ Quiet /\ held' = held /\ task'[w].pc # "refund" /\ task[w].job.queue = "analysis"
        /\ \/ video'.status = video.status
           \/ video.status = "ANALYZING" /\ video'.status = "READY"
    BY <1>0, <1>5, AnalysisWorkStep, PublishCandidatesStep, FinishAnalysisStep
    DEF rows, RowBecomes, CanMove
  <2>. QED BY <2>1, PaidFrame DEF Works, Quiet, PaidInv, PaidWork
<1>6. CASE Charge(w)
  <2>1. /\ Works(w) /\ request' = request /\ used'["requests"] = used["requests"] /\ video' = video
        /\ \/ held' = TRUE /\ task'[w].pc \in {"prepare", "ensure", "load"}
           \/ held' = held /\ task'[w].pc = "failing"
    BY <1>0, <1>6, ChargeStep
  <2>2. PaidWork(w)' /\ (video'.status \in {"TRANSCRIBING", "ANALYZING", "READY"} => held')
    BY <2>1 DEF PaidInv, PaidWork
  <2>3. video'.status = video.status /\ Shaped' /\ Alone(w)
    BY <2>1 DEF Works
  <2>. QED BY <2>1, <2>2, <2>3, PaidFrame
<1>7. CASE Enqueue(w) \/ FailRead(w)
  <2>1. /\ Works(w) /\ UNCHANGED <<rows, request, used>>
        /\ task'[w].pc \in {"done", "fail", "give-up"}
    BY <1>0, <1>7, EnqueueStep, FailReadStep DEF Quiet
  <2>. QED BY <2>1, PaidQuiet DEF Works
<1>8. CASE FailVideo(w)
  <2>1. /\ Works(w) /\ Quiet /\ held' = held
        /\ \/ video.status \in Processing /\ video'.status = "FAILED" /\ task'[w].pc \in {"give-up", "refund"}
           \/ video' = video /\ task'[w].pc = "give-up"
    BY <1>0, <1>8, FailVideoStep DEF Moved, RowBecomes, CanMove
  <2>. QED BY <2>1, PaidFrame DEF Works, Quiet, PaidInv, PaidWork, Processing
<1>9. CASE Refund(w)
  <2>1. /\ Works(w) /\ request' = request /\ used'["requests"] = used["requests"]
        /\ video' = video /\ task[w].pc = "refund" /\ task'[w].pc = "give-up"
    BY <1>0, <1>9, RefundStep
  <2>2. video.status = "FAILED"
    BY <2>1 DEF PaidInv, PaidWork
  <2>. QED BY <2>1, <2>2, PaidFrame DEF Works, PaidInv, PaidWork
<1>10. CASE Complete(w) \/ RetryLater(w) \/ GiveUp(w) \/ RecordFails(w)
  BY <1>0, <1>10, EndStep, PaidQuiet DEF Ends
<1>. QED BY <1>1, <1>2, <1>3, <1>4, <1>5, <1>6, <1>7, <1>8, <1>9, <1>10, ExecutionSteps

LEMMA PaidStep ==
    ASSUME Bound.requests = 0, PaidInv, [Next]_vars
    PROVE  PaidInv'
<1>0. Shaped
  BY DEF PaidInv
<1>1. ASSUME NEW w \in Slots, Execute(w) PROVE PaidInv'
  BY <1>1, PaidExecution
<1>2. ASSUME NEW w \in Slots, Start(w) \/ CallFails(w) \/ BookkeepingFails(w) \/ Crash(w)
      PROVE  PaidInv'
  <2>1. /\ Shaped' /\ Alone(w) /\ UNCHANGED <<rows, request>> /\ used'["requests"] = used["requests"]
        /\ task'[w].pc \in {"read", "failing", "give-up", "idle"}
    BY <1>0, <1>2, StartStep, CallFailsStep, BookkeepingFailsStep, CrashStep DEF Works
  <2>. QED BY <2>1, PaidQuiet
<1>3. ASSUME NEW w \in Slots, RecordFails(w) PROVE PaidInv'
  BY <1>0, <1>3, EndStep, PaidQuiet DEF Ends
<1>4. ASSUME NEW id \in DOMAIN jobs, Stall(id) PROVE PaidInv'
  BY <1>0, <1>4, StallStep DEF PaidInv, PaidWork, rows
<1>5. ASSUME NEW q \in Requests, Process(q) \/ Analyze(q) PROVE FALSE
  <2>1. used.requests < Bound.requests /\ used.requests = 0
    BY <1>0, <1>5, AskStep DEF PaidInv
  <2>. QED BY <2>1
<1>6. ASSUME NEW q \in Requests, Restart(q) \/ RequestVersion(q) PROVE FALSE
  <2>1. request[q].pc \in {"transition", "version"}
    BY <1>6 DEF Restart, RequestVersion
  <2>. QED BY <2>1 DEF PaidInv
<1>7. ASSUME NEW q \in Requests, RequestEnqueues(q) \/ EnqueueLost(q) PROVE PaidInv'
  <2>1. Shaped' /\ Else(q) /\ UNCHANGED <<rows, task, used>> /\ request'[q].pc = "idle"
    BY <1>0, <1>7, RequestEnqueuesStep, EnqueueLostStep
  <2>2. \A p \in Requests : request'[p].pc \in {"idle", "enqueue"}
    BY <2>1 DEF Else, PaidInv
  <2>. QED BY <2>1, <2>2 DEF PaidInv, PaidWork, rows
<1>8. CASE RemoveVideo
  <2>1. /\ Shaped' /\ UNCHANGED <<held, task, request>> /\ video'.status = video.status
        /\ used'["requests"] = used["requests"]
    BY <1>0, <1>8, RemoveVideoStep DEF RowBecomes
  <2>. QED BY <2>1 DEF PaidInv, PaidWork
<1>9. CASE Requeue \/ UNCHANGED vars
  <2>1. Shaped' /\ UNCHANGED <<rows, task, request, used>>
    BY <1>0, <1>9, RequeueStep, ShapedStep DEF vars
  <2>. QED BY <2>1 DEF PaidInv, PaidWork, rows
<1>. QED BY <1>1, <1>2, <1>3, <1>4, <1>5, <1>6, <1>7, <1>8, <1>9 DEF Next

(* As long as nobody restarts the video, it is READY only while its credits
   are taken, whichever calls fail, however often a slot dies and even when a
   job runs twice at once, because only the execution that moved the video to
   FAILED refunds.                                                         *)
LEMMA UnattendedIsPaid ==
    ASSUME Bound.requests = 0
    PROVE  Spec => []ReadyIsPaid
<1>1. Init => PaidInv
  <2> SUFFICES ASSUME Init PROVE PaidInv
    OBVIOUS
  <2>1. video.status = "QUEUED"
    BY DEF Init
  <2>. QED BY <2>1, InitShaped DEF PaidInv, PaidWork
<1>2. PaidInv /\ [Next]_vars => PaidInv'
  BY PaidStep
<1>3. PaidInv => ReadyIsPaid
  BY DEF PaidInv, ReadyIsPaid
<1>. QED BY <1>1, <1>2, <1>3, PTL DEF Spec

-----------------------------------------------------------------------------
(* A calm pipeline: one execution is in charge of the video at a time.     *)

LEMMA CurrentIs ==
    ASSUME Shaped, NEW id \in JobId, Current(id)
    PROVE  /\ video.status \in {"QUEUED", "INGESTING", "TRANSCRIBING", "ANALYZING"}
           /\ id.queue = "ingest" =>
                 /\ id = IngestJob(video.run)
                 /\ \/ video.status \in {"QUEUED", "INGESTING"}
                    \/ video.status = "TRANSCRIBING" /\ NoTranscriptionOf(video.run)
           /\ id.queue = "transcription" =>
                 /\ id.run = video.run
                 /\ \/ video.status = "TRANSCRIBING"
                    \/ video.status = "ANALYZING" /\ AnalysisJob(video.analysisRun) \notin Known
           /\ id.queue = "analysis" =>
                 id = AnalysisJob(video.analysisRun) /\ video.status = "ANALYZING"
           /\ video.status # "ANALYZING" => id.run = video.run
<1>1. video.run \in Nat /\ video.analysisRun \in Nat
  BY DEF Shaped, Video
<1>2. /\ IngestJob(video.run).queue = "ingest" /\ IngestJob(video.run).run = video.run
      /\ AnalysisJob(video.analysisRun).queue = "analysis"
  BY <1>1, Ids
<1>. QED BY <1>2 DEF Current

LEMMA KnownIds ==
    ASSUME Shaped
    PROVE  /\ Known \subseteq JobId /\ DOMAIN jobs \subseteq Known
           /\ \A q \in Requests : request[q].pc = "enqueue" => request[q].next.id \in Known
           /\ \A w \in Slots : task[w].pc # "idle" => task[w].job \in DOMAIN jobs
BY DEF Shaped, Known, Intends, Enqueued, Remembers

LEMMA OneCurrent ==
    ASSUME Shaped, KnownInv, NEW i \in Known, NEW j \in Known, Current(i), Current(j)
    PROVE  i = j
<1>1. i \in JobId /\ j \in JobId
  BY KnownIds
<1>2. i.queue \in {"ingest", "transcription", "analysis"} /\ j.queue \in {"ingest", "transcription", "analysis"}
  BY <1>1 DEF JobId
<1>3. CASE i.queue = "ingest"
  BY <1>1, <1>2, <1>3, CurrentIs DEF NoTranscriptionOf
<1>4. CASE i.queue = "transcription"
  <2>1. CASE j.queue = "transcription"
    BY <1>1, <1>4, <2>1, CurrentIs DEF KnownInv
  <2>2. CASE j.queue # "transcription"
    BY <1>1, <1>2, <1>4, <2>2, CurrentIs DEF NoTranscriptionOf
  <2>. QED BY <2>1, <2>2
<1>5. CASE i.queue = "analysis"
  BY <1>1, <1>2, <1>5, CurrentIs
<1>. QED BY <1>2, <1>3, <1>4, <1>5

(* While an execution is in charge, no other is, nothing waits, and a request
   has nothing new to enqueue.                                             *)
LEMMA SoleCharge ==
    ASSUME CalmInv, NEW w \in Slots, InCharge(w)
    PROVE  /\ task[w].job \in DOMAIN jobs /\ task[w].job \in JobId /\ Current(task[w].job)
           /\ \A v \in Slots : v # w => ~ InCharge(v)
           /\ \A id \in DOMAIN jobs : jobs[id].state # "waiting"
           /\ \A q \in Requests : /\ request[q].pc # "version"
                                  /\ request[q].pc = "enqueue" => request[q].next.id \in DOMAIN jobs
<1> DEFINE job == task[w].job
<1>1. Shaped /\ OwnerInv /\ KnownInv
  BY DEF CalmInv
<1>2. /\ job \in DOMAIN jobs /\ job \in Known /\ job \in JobId /\ Current(job) /\ Holds(w, job)
  BY <1>1, KnownIds DEF InCharge, OwnerInv
<1>3. ASSUME NEW v \in Slots, InCharge(v) PROVE v = w
  <2>1. task[v].job \in Known /\ Current(task[v].job) /\ Holds(v, task[v].job)
    BY <1>1, <1>3, KnownIds DEF InCharge, OwnerInv
  <2>2. task[v].job = job
    BY <1>1, <1>2, <2>1, OneCurrent
  <2>. QED BY <1>2, <2>1, <2>2 DEF Holds
<1>4. ASSUME NEW id \in DOMAIN jobs, jobs[id].state = "waiting" PROVE FALSE
  <2>1. id \in Known /\ Current(id)
    BY <1>1, <1>4, KnownIds DEF OwnerInv
  <2>2. id = job
    BY <1>1, <1>2, <2>1, OneCurrent
  <2>. QED BY <1>2, <1>4, <2>2 DEF Holds
<1>5. ASSUME NEW q \in Requests, request[q].pc = "version" PROVE FALSE
  <2>1. video.status = "TRANSCRIBING" /\ job.run # video.run
    BY <1>1, <1>2, <1>5 DEF KnownInv
  <2>. QED BY <1>1, <1>2, <2>1, CurrentIs
<1>6. ASSUME NEW q \in Requests, request[q].pc = "enqueue" PROVE request[q].next.id \in DOMAIN jobs
  <2>1. CASE Current(request[q].next.id)
    <3>1. request[q].next.id = job
      BY <1>1, <1>2, <1>6, <2>1, OneCurrent, KnownIds
    <3>. QED BY <1>2, <3>1
  <2>. QED BY <1>1, <1>6, <2>1 DEF OwnerInv
<1>. QED BY <1>2, <1>3, <1>4, <1>5, <1>6

(* When nothing can be current, nothing is in charge or waits.             *)
LEMMA NoneInCharge ==
    ASSUME CalmInv, \A id \in Known : ~ Current(id)
    PROVE  /\ \A w \in Slots : ~ InCharge(w)
           /\ \A id \in DOMAIN jobs : jobs[id].state # "waiting"
           /\ \A q \in Requests : request[q].pc = "enqueue" => request[q].next.id \in DOMAIN jobs
BY KnownIds DEF CalmInv, OwnerInv, InCharge

LEMMA KnownStays ==
    ASSUME UNCHANGED <<jobs, request>>
    PROVE  Known' = Known
BY DEF Known

(* A step of the execution in charge that leaves the queue alone.          *)
LEMMA ChargeFrame ==
    ASSUME CalmInv, NEW w \in Slots, InCharge(w), Works(w), task'[w].pc # "idle",
           UNCHANGED <<jobs, request>>,
           video.run <= video'.run, video.analysisRun <= video'.analysisRun,
           video'.status \in {"QUEUED", "INGESTING"} =>
              video.status \in {"QUEUED", "INGESTING"} /\ video'.run = video.run,
           InCharge(w)' => Current(task[w].job)', StillStands(w)', MomentsInv'
    PROVE  CalmInv'
<1>1. Shaped /\ OwnerInv /\ KnownInv /\ WorkInv /\ Shaped'
  BY DEF CalmInv, Works
<1>2. /\ \A v \in Slots : v # w => ~ InCharge(v) /\ ~ InCharge(v)'
      /\ \A id \in DOMAIN jobs : jobs[id].state # "waiting"
      /\ \A q \in Requests : /\ request[q].pc # "version"
                             /\ request[q].pc = "enqueue" => request[q].next.id \in DOMAIN jobs
  BY SoleCharge DEF Works, Alone, InCharge
<1>3. Known' = Known /\ DOMAIN jobs \subseteq Known /\ Known \subseteq JobId
  BY <1>1, KnownStays, KnownIds
<1>4. OwnerInv'
  <2>1. \A v \in Slots : task'[v].pc # "idle" => task[v].pc # "idle" /\ task'[v].job = task[v].job
    BY DEF Works, Alone
  <2>2. \A v \in Slots : (task'[v].pc # "idle" => Holds(v, task[v].job)')
    BY <1>1, <2>1 DEF OwnerInv, Holds
  <2>3. \A id \in DOMAIN jobs' : jobs'[id].state = "active" =>
          \E v \in Slots : jobs'[id].slot = v /\ task'[v].pc # "idle" /\ task'[v].job = id
    <3> SUFFICES ASSUME NEW id \in DOMAIN jobs, jobs[id].state = "active"
                 PROVE  \E v \in Slots : jobs[id].slot = v /\ task'[v].pc # "idle" /\ task'[v].job = id
      OBVIOUS
    <3>1. PICK v \in Slots : jobs[id].slot = v /\ task[v].pc # "idle" /\ task[v].job = id
      BY <1>1 DEF OwnerInv
    <3>2. task'[v].pc # "idle" /\ task'[v].job = id
      BY <3>1 DEF Works, Alone
    <3>. QED BY <3>1, <3>2
  <2>4. \A v \in Slots : InCharge(v)' => Current(task[v].job)'
    BY <1>2
  <2>. QED BY <1>2, <2>1, <2>2, <2>3, <2>4 DEF OwnerInv
<1>5. KnownInv'
  <2>1. \A id \in Known : id.run \in Nat /\ id.n \in Nat
    BY <1>3 DEF JobId
  <2>2. video.run \in Nat /\ video.analysisRun \in Nat /\ video'.run \in Nat /\ video'.analysisRun \in Nat
    BY <1>1 DEF Shaped, Video
  <2>3. \A id \in Known : id.run <= video'.run /\ (id.queue = "analysis" => id.n <= video'.analysisRun)
    BY <1>1, <2>1, <2>2 DEF KnownInv
  <2>. QED BY <1>1, <1>2, <1>3, <2>3 DEF KnownInv, NoTranscriptionOf
<1>6. WorkInv'
  <2>1. ASSUME NEW v \in Slots, ~ InCharge(v)' PROVE StillStands(v)'
    BY <2>1 DEF StillStands, InCharge, At, Transcribing, TranscribingSteps
  <2>. QED BY <1>2, <2>1 DEF WorkInv
<1>. QED BY <1>1, <1>4, <1>5, <1>6 DEF CalmInv

(* A step of an execution that leaves the row's part of the invariant and
   the queue alone, and takes charge of nothing.                           *)
LEMMA StandingFrame ==
    ASSUME CalmInv, NEW w \in Slots, Works(w), task'[w].pc # "idle",
           UNCHANGED <<video, jobs, request>>, InCharge(w)' => InCharge(w),
           transcripts' = transcripts \/ InCharge(w), StillStands(w)'
    PROVE  CalmInv'
<1>1. Shaped /\ OwnerInv /\ KnownInv /\ WorkInv /\ MomentsInv
  BY DEF CalmInv
<1>2. Known' = Known
  BY KnownStays
<1>3. MomentsInv'
  BY <1>1 DEF MomentsInv
<1>4. CASE InCharge(w)
  <2>1. Current(task[w].job)'
    <3>1. Current(task[w].job)
      BY <1>4, SoleCharge
    <3>. QED BY <1>2, <3>1 DEF Current, NoTranscriptionOf, Works
  <2>2. video.run <= video'.run /\ video.analysisRun <= video'.analysisRun
    BY <1>1 DEF Shaped, Video
  <2>. QED BY <1>3, <1>4, <2>1, <2>2, ChargeFrame
<1>5. CASE ~ InCharge(w)
  <2>1. OwnerInv'
    <3>1. \A v \in Slots : /\ task'[v].pc # "idle" <=> task[v].pc # "idle"
                           /\ task[v].pc # "idle" => task'[v].job = task[v].job
                           /\ InCharge(v)' => InCharge(v) /\ task'[v].job = task[v].job
      BY <1>5 DEF Works, Alone, InCharge
    <3>2. \A id : Current(id)' <=> Current(id)
      BY <1>2 DEF Current, NoTranscriptionOf
    <3>3. \A id \in DOMAIN jobs' : jobs'[id].state = "active" =>
            \E v \in Slots : jobs'[id].slot = v /\ task'[v].pc # "idle" /\ task'[v].job = id
      <4> SUFFICES ASSUME NEW id \in DOMAIN jobs, jobs[id].state = "active"
                   PROVE  \E v \in Slots : jobs[id].slot = v /\ task'[v].pc # "idle" /\ task'[v].job = id
        OBVIOUS
      <4>1. PICK v \in Slots : jobs[id].slot = v /\ task[v].pc # "idle" /\ task[v].job = id
        BY <1>1 DEF OwnerInv
      <4>. QED BY <3>1, <4>1
    <3>. QED BY <1>1, <3>1, <3>2, <3>3 DEF OwnerInv, Holds
  <2>2. KnownInv'
    BY <1>1, <1>2 DEF KnownInv, NoTranscriptionOf
  <2>3. WorkInv'
    <3>1. ASSUME NEW v \in Slots, v # w PROVE StillStands(v)'
      BY <1>1, <1>5, <3>1 DEF WorkInv, StillStands, At, Transcribing, Works, Alone
    <3>. QED BY <3>1 DEF WorkInv
  <2>. QED BY <1>3, <2>1, <2>2, <2>3 DEF CalmInv, Works
<1>. QED BY <1>4, <1>5

-----------------------------------------------------------------------------
(* The steps of the execution in charge.                                   *)

LEMMA CalmIngest ==
    ASSUME CalmInv, NEW w \in Slots,
           \/ IngestRead(w) \/ EnsureTranscriptionJob(w) \/ ClaimIngest(w) \/ (Probe(w) \/ Prepare(w))
           \/ ChooseVersion(w) \/ FinishIngest(w)
    PROVE  CalmInv'
<1>0. /\ Shaped /\ WorkInv /\ KnownInv /\ StillStands(w) /\ video \in Video
      /\ task[w].job.queue = "ingest" /\ InCharge(w)
  BY DEF CalmInv, WorkInv, Shaped, IngestRead, EnsureTranscriptionJob, ClaimIngest, Probe, Prepare,
         ChooseVersion, FinishIngest, At, InCharge
<1>1. /\ task[w].job = IngestJob(video.run) /\ task[w].job.run = video.run
      /\ video.run \in Nat /\ video.analysisRun \in Nat
  <2>1. video.run \in Nat /\ video.analysisRun \in Nat
    BY <1>0 DEF Video
  <2>. QED BY <1>0, <2>1, SoleCharge, CurrentIs, Ids
<1>2. CASE IngestRead(w)
  <2>1. /\ Works(w) /\ Quiet /\ UNCHANGED rows
        /\ \/ task'[w].pc \in {"done", "claim", "probe"}
           \/ task'[w].pc = "ensure-next" /\ task'[w].seen = video /\ video.status = "TRANSCRIBING"
    BY <1>0, <1>2, IngestReadStep
  <2>2. StillStands(w)'
    BY <1>0, <2>1 DEF StillStands, At, Transcribing, Works, rows
  <2>. QED BY <1>0, <2>1, <2>2, StandingFrame DEF Quiet, rows
<1>3. CASE EnsureTranscriptionJob(w)
  <2>1. /\ Works(w) /\ Quiet /\ UNCHANGED rows /\ task'[w].pc = "enqueue"
        /\ At(w, "ingest", "ensure-next")
        /\ task'[w].next = Enqueuing(TranscriptionJob(NextVersion, task[w].seen.run), None)
    BY <1>0, <1>3, EnsureTranscriptionJobStep DEF At
  <2>2. video.status = "TRANSCRIBING" /\ task[w].seen.run = video.run
    BY <1>0, <2>1 DEF StillStands
  <2>3. task'[w].next.id.queue = "transcription" /\ task'[w].next.id.run = video.run
    BY <1>0, <1>1, <2>1, <2>2, NextVersionIs DEF Enqueuing, TranscriptionJob
  <2>4. StillStands(w)'
    BY <1>0, <2>1, <2>2, <2>3 DEF StillStands, At, Transcribing, TranscribingSteps, Works, rows
  <2>. QED BY <1>0, <2>1, <2>4, StandingFrame DEF Quiet, rows
<1>4. CASE ClaimIngest(w)
  <2>1. /\ Works(w) /\ Quiet
        /\ \/ video.status = "QUEUED" /\ Moved("INGESTING") /\ task'[w].pc = "probe"
           \/ UNCHANGED <<video, transcripts>> /\ task'[w].pc = "done"
    BY <1>0, <1>4, ClaimIngestStep DEF CanMove
  <2>2. StillStands(w)'
    BY <1>0, <2>1 DEF StillStands, At, Transcribing, Works
  <2>3. CASE video.status = "QUEUED" /\ Moved("INGESTING") /\ task'[w].pc = "probe"
    <3>1. /\ video'.status = "INGESTING" /\ video'.run = video.run
          /\ video'.analysisRun = video.analysisRun
      BY <2>3 DEF Moved, RowBecomes
    <3>2. Current(task[w].job)'
      BY <1>1, <2>1, <3>1 DEF Current, Works
    <3>3. MomentsInv'
      BY <3>1 DEF MomentsInv
    <3>. QED BY <1>0, <1>1, <2>1, <2>2, <2>3, <3>1, <3>2, <3>3, ChargeFrame DEF Quiet
  <2>4. CASE UNCHANGED <<video, transcripts>> /\ task'[w].pc = "done"
    BY <1>0, <2>1, <2>2, <2>4, StandingFrame DEF Quiet
  <2>. QED BY <2>1, <2>3, <2>4
<1>5. CASE (Probe(w) \/ Prepare(w)) \/ ChooseVersion(w)
  <2>1. Works(w) /\ Quiet /\ UNCHANGED rows /\ task'[w].pc \in {"charge", "version", "advance"}
    BY <1>0, <1>5, IngestWorkStep, ChooseVersionStep
  <2>2. StillStands(w)'
    BY <1>0, <2>1 DEF StillStands, At, Transcribing, Works
  <2>. QED BY <1>0, <2>1, <2>2, StandingFrame DEF Quiet, rows
<1>6. CASE FinishIngest(w)
  <2>1. /\ Works(w) /\ Quiet
        /\ \/ /\ video.status = "INGESTING" /\ Moved("TRANSCRIBING") /\ task'[w].pc = "enqueue"
              /\ task'[w].next = Enqueuing(TranscriptionJob(task[w].version, video.run), None)
           \/ UNCHANGED <<video, transcripts>> /\ task'[w].pc = "done"
    BY <1>0, <1>6, FinishIngestStep DEF CanMove
  <2>2. CASE /\ video.status = "INGESTING" /\ Moved("TRANSCRIBING") /\ task'[w].pc = "enqueue"
             /\ task'[w].next = Enqueuing(TranscriptionJob(task[w].version, video.run), None)
    <3>1. /\ video'.status = "TRANSCRIBING" /\ video'.run = video.run
          /\ video'.analysisRun = video.analysisRun
      BY <2>2 DEF Moved, RowBecomes
    <3>2. task'[w].next.id.queue = "transcription" /\ task'[w].next.id.run = video.run
      BY <2>2 DEF Enqueuing, TranscriptionJob
    <3>3. StillStands(w)'
      BY <1>0, <2>1, <2>2, <3>1, <3>2 DEF StillStands, At, Transcribing, TranscribingSteps, Works
    <3>4. Current(task[w].job)'
      <4>1. NoTranscriptionOf(video.run)
        BY <1>0, <2>2 DEF KnownInv
      <4>2. Known' = Known
        BY <2>1, KnownStays DEF Quiet
      <4>. QED BY <1>1, <2>1, <3>1, <4>1, <4>2 DEF Current, NoTranscriptionOf, Works
    <3>5. MomentsInv'
      BY <3>1 DEF MomentsInv
    <3>. QED BY <1>0, <1>1, <2>1, <2>2, <3>1, <3>3, <3>4, <3>5, ChargeFrame DEF Quiet
  <2>3. CASE UNCHANGED <<video, transcripts>> /\ task'[w].pc = "done"
    <3>1. StillStands(w)'
      BY <2>1, <2>3 DEF StillStands, At, Transcribing, TranscribingSteps
    <3>. QED BY <1>0, <2>1, <2>3, <3>1, StandingFrame DEF Quiet
  <2>. QED BY <2>1, <2>2, <2>3
<1>. QED BY <1>2, <1>3, <1>4, <1>5, <1>6

LEMMA CalmTranscription ==
    ASSUME CalmInv, NEW w \in Slots,
           \/ TranscriptionRead(w) \/ EnsureTranscript(w) \/ MarkProcessing(w) \/ Transcribe(w)
           \/ SaveTranscript(w) \/ ActivateTranscript(w) \/ DiscardAudio(w) \/ FinishTranscription(w)
    PROVE  CalmInv'
<1>0. /\ Shaped /\ WorkInv /\ KnownInv /\ StillStands(w) /\ video \in Video
      /\ task[w].job.queue = "transcription" /\ InCharge(w)
  BY DEF CalmInv, WorkInv, Shaped, TranscriptionRead, EnsureTranscript, MarkProcessing, Transcribe,
         SaveTranscript, ActivateTranscript, DiscardAudio, FinishTranscription, At, InCharge
<1>1. /\ task[w].job.run = video.run /\ task[w].job \in JobId /\ task[w].job.n \in Nat
      /\ video.run \in Nat /\ video.analysisRun \in Nat /\ Known \subseteq JobId
  BY <1>0, SoleCharge, CurrentIs, KnownIds DEF Video, JobId
<1>2. Transcribing(w) =>
        /\ video.status = "TRANSCRIBING" /\ task[w].seen.analysisRun = video.analysisRun
        /\ task[w].pc \in {"mark", "provider", "save"} /\ task[w].job.n \in Versions =>
              transcripts[task[w].job.n] # "COMPLETED"
        /\ task[w].pc \in {"discard-audio", "advance"} => video.transcript = task[w].job.n
  BY <1>0 DEF StillStands
<1>3. CASE TranscriptionRead(w)
  <2>1. /\ Works(w) /\ Quiet /\ UNCHANGED rows
        /\ \/ /\ video.status = "ANALYZING" /\ task'[w].pc = "enqueue"
              /\ task'[w].next = Enqueuing(AnalysisJob(video.analysisRun), video.transcript)
           \/ task'[w].pc = "done"
           \/ video.status = "TRANSCRIBING" /\ task'[w].pc = "charge" /\ task'[w].seen = video
    BY <1>0, <1>3, TranscriptionReadStep
  <2>2. StillStands(w)'
    BY <1>0, <2>1 DEF StillStands, At, Transcribing, TranscribingSteps, Works, rows
  <2>. QED BY <1>0, <2>1, <2>2, StandingFrame DEF Quiet, rows
<1>4. CASE EnsureTranscript(w)
  <2>1. /\ Works(w) /\ Quiet /\ UNCHANGED video /\ task[w].pc = "ensure" /\ task'[w].seen = task[w].seen
        /\ \/ /\ task'[w].pc = "mark"
              /\ task[w].job.n \in Versions => transcripts'[task[w].job.n] # "COMPLETED"
           \/ task'[w].pc = "activate"
    BY <1>0, <1>4, EnsureTranscriptStep
  <2>2. video.status = "TRANSCRIBING" /\ task[w].seen.analysisRun = video.analysisRun
    BY <1>0, <1>2, <2>1 DEF Transcribing, TranscribingSteps
  <2>3. StillStands(w)'
    BY <1>0, <2>1, <2>2 DEF StillStands, At, Transcribing, TranscribingSteps, Works
  <2>. QED BY <1>0, <2>1, <2>3, StandingFrame DEF Quiet, InCharge
<1>5. CASE MarkProcessing(w) \/ SaveTranscript(w)
  <2>1. /\ Works(w) /\ Quiet /\ UNCHANGED video /\ Transcribing(w) /\ task'[w].seen = task[w].seen
        /\ \/ task'[w].pc = "provider" /\ WriteTranscript(w, "PROCESSING")
           \/ task'[w].pc = "activate"
    BY <1>0, <1>5, MarkProcessingStep, SaveTranscriptStep
  <2>2. task'[w].pc = "provider" /\ task[w].job.n \in Versions =>
          transcripts'[task[w].job.n] # "COMPLETED"
    BY <1>0, <2>1, TranscriptWritten
  <2>3. StillStands(w)'
    BY <1>0, <1>2, <2>1, <2>2 DEF StillStands, At, Transcribing, TranscribingSteps, Works
  <2>. QED BY <1>0, <2>1, <2>3, StandingFrame DEF Quiet, InCharge
<1>6. CASE Transcribe(w)
  <2>1. /\ Works(w) /\ UNCHANGED <<video, jobs, request>> /\ Transcribing(w) /\ task[w].pc = "provider"
        /\ \/ task'[w].pc = "save" /\ task'[w].seen = task[w].seen /\ UNCHANGED transcripts
           \/ task'[w].pc = "failing"
    BY <1>0, <1>6, TranscribeStep
  <2>2. StillStands(w)'
    BY <1>0, <1>2, <2>1 DEF StillStands, At, Transcribing, TranscribingSteps, Works
  <2>. QED BY <1>0, <2>1, <2>2, StandingFrame
<1>7. CASE ActivateTranscript(w) \/ DiscardAudio(w)
  <2>1. /\ Works(w) /\ Quiet /\ Transcribing(w) /\ task'[w].seen = task[w].seen
        /\ task'[w].pc \in {"discard-audio", "advance"} /\ video'.status = video.status
        /\ video'.run = video.run /\ video'.analysisRun = video.analysisRun
        /\ video'.transcript = task[w].job.n
    BY <1>0, <1>2, <1>7, ActivateTranscriptStep, DiscardAudioStep DEF Moved, RowBecomes
  <2>2. StillStands(w)'
    BY <1>0, <1>2, <2>1 DEF StillStands, At, Transcribing, TranscribingSteps, Works
  <2>3. Current(task[w].job)'
    BY <1>0, <1>1, <1>2, <2>1 DEF Current, Works
  <2>4. MomentsInv'
    BY <1>2, <2>1 DEF MomentsInv
  <2>. QED BY <1>0, <1>1, <1>2, <2>1, <2>2, <2>3, <2>4, ChargeFrame DEF Quiet
<1>8. CASE FinishTranscription(w)
  <2>1. /\ Works(w) /\ Quiet /\ Transcribing(w) /\ task[w].pc = "advance"
        /\ \/ /\ task'[w].pc = "enqueue"
              /\ RowBecomes("ANALYZING", video.run, task[w].seen.analysisRun + 1, video.transcript,
                            video.ready, video.deleted)
              /\ task'[w].next = Enqueuing(AnalysisJob(task[w].seen.analysisRun + 1), task[w].job.n)
           \/ UNCHANGED <<video, transcripts>> /\ task'[w].pc = "done"
    BY <1>0, <1>8, FinishTranscriptionStep
  <2>2. /\ video.status = "TRANSCRIBING" /\ task[w].seen.analysisRun = video.analysisRun
        /\ video.transcript = task[w].job.n
    BY <1>2, <2>1
  <2> DEFINE ar == video.analysisRun + 1
  <2>3. CASE UNCHANGED <<video, transcripts>> /\ task'[w].pc = "done"
    <3>1. StillStands(w)'
      BY <2>1, <2>3 DEF StillStands, At, Transcribing, TranscribingSteps
    <3>. QED BY <1>0, <2>1, <2>3, <3>1, StandingFrame DEF Quiet
  <2>4. CASE /\ task'[w].pc = "enqueue"
             /\ RowBecomes("ANALYZING", video.run, ar, video.transcript, video.ready, video.deleted)
             /\ task'[w].next = Enqueuing(AnalysisJob(ar), task[w].job.n)
    <3>1. /\ video'.status = "ANALYZING" /\ video'.run = video.run /\ video'.analysisRun = ar
          /\ video'.transcript = task[w].job.n /\ ar \in Nat /\ video.analysisRun < ar
      BY <1>1, <2>2, <2>4 DEF RowBecomes
    <3>2. Known' = Known /\ AnalysisJob(ar) \notin Known
      <4>1. \A id \in Known : id.queue = "analysis" => id.n <= video.analysisRun /\ id.n \in Nat
        BY <1>0, <1>1 DEF KnownInv, JobId
      <4>2. AnalysisJob(ar).queue = "analysis" /\ AnalysisJob(ar).n = ar
        BY <3>1, Ids
      <4>. QED BY <1>1, <2>1, <3>1, <4>1, <4>2, KnownStays DEF Quiet
    <3> HIDE DEF ar
    <3>3. StillStands(w)'
      BY <1>0, <2>1, <2>4, <3>1 DEF StillStands, At, Transcribing, TranscribingSteps, Works
    <3>4. Current(task[w].job)'
      BY <1>0, <1>1, <2>1, <3>1, <3>2 DEF Current, Works
    <3>5. MomentsInv'
      BY <1>0, <2>1, <3>1, <3>2, KnownIds DEF MomentsInv, Quiet
    <3>. QED BY <1>0, <1>1, <2>1, <2>4, <3>1, <3>3, <3>4, <3>5, ChargeFrame DEF Quiet
  <2>. QED BY <2>1, <2>2, <2>3, <2>4
<1>. QED BY <1>3, <1>4, <1>5, <1>6, <1>7, <1>8

LEMMA CalmAnalysis ==
    ASSUME CalmInv, NEW w \in Slots,
           \/ (AnalysisRead(w) \/ LoadTranscript(w) \/ FindMoments(w))
           \/ PublishCandidates(w) \/ FinishAnalysis(w)
    PROVE  CalmInv'
<1>0. /\ Shaped /\ MomentsInv /\ video \in Video /\ task[w].job.queue = "analysis" /\ InCharge(w)
  BY DEF CalmInv, Shaped, AnalysisRead, LoadTranscript, FindMoments, PublishCandidates, FinishAnalysis,
         At, InCharge
<1>1. /\ task[w].job \in DOMAIN jobs /\ task[w].job = AnalysisJob(video.analysisRun)
      /\ video.run \in Nat /\ video.analysisRun \in Nat
  BY <1>0, SoleCharge, CurrentIs DEF Video
<1>2. /\ Works(w) /\ Quiet /\ task'[w].pc \notin {"idle", "enqueue", "fail"}
      /\ \/ UNCHANGED video
         \/ /\ task'[w].pc = "done"
            /\ RowBecomes("READY", video.run, video.analysisRun, video.transcript, TRUE, video.deleted)
  BY <1>0, AnalysisWorkStep, PublishCandidatesStep, FinishAnalysisStep DEF rows
<1>3. StillStands(w)'
  BY <1>0, <1>2 DEF StillStands, At, Transcribing, Works
<1>4. CASE UNCHANGED video
  BY <1>0, <1>2, <1>3, <1>4, StandingFrame DEF Quiet
<1>5. CASE /\ task'[w].pc = "done"
           /\ RowBecomes("READY", video.run, video.analysisRun, video.transcript, TRUE, video.deleted)
  <2>1. /\ video'.status = "READY" /\ video'.run = video.run /\ video'.analysisRun = video.analysisRun
        /\ video'.transcript = video.transcript /\ video.status = "ANALYZING"
    BY <1>0, <1>5, SoleCharge, CurrentIs DEF RowBecomes
  <2>2. MomentsInv'
    BY <1>0, <1>1, <1>2, <2>1 DEF MomentsInv, Quiet
  <2>. QED BY <1>0, <1>1, <1>2, <1>3, <1>5, <2>1, <2>2, ChargeFrame DEF Quiet, InCharge
<1>. QED BY <1>2, <1>4, <1>5

(* Charges, errors and failures.                                           *)
LEMMA CalmFailure ==
    ASSUME CalmInv, NEW w \in Slots,
           \/ Charge(w) \/ FailRead(w) \/ FailVideo(w) \/ Refund(w)
           \/ CallFails(w) /\ "done" \notin FaultyCalls
           \/ BookkeepingFails(w)
    PROVE  CalmInv'
<1>0. Shaped /\ MomentsInv /\ StillStands(w) /\ video \in Video
  BY DEF CalmInv, WorkInv, Shaped
<1>1. CASE Charge(w)
  <2>1. /\ Works(w) /\ UNCHANGED <<video, transcripts, jobs, request>> /\ task[w].pc = "charge"
        /\ \/ /\ task'[w].seen = task[w].seen
              /\ \/ task'[w].pc = "prepare" /\ task[w].job.queue = "ingest"
                 \/ task'[w].pc = "ensure" /\ task[w].job.queue = "transcription"
                 \/ task'[w].pc = "load" /\ task[w].job.queue = "analysis"
           \/ task'[w].pc = "failing"
    BY <1>0, <1>1, ChargeStep
  <2>2. StillStands(w)'
    BY <1>0, <2>1 DEF StillStands, At, Transcribing, TranscribingSteps, Works
  <2>. QED BY <2>1, <2>2, StandingFrame DEF InCharge
<1>2. CASE FailRead(w)
  <2>1. /\ Works(w) /\ Quiet /\ UNCHANGED rows /\ task[w].pc = "failing"
        /\ \/ task'[w].pc = "fail" /\ task'[w].seen = video
           \/ task'[w].pc = "give-up"
    BY <1>0, <1>2, FailReadStep
  <2>2. StillStands(w)'
    BY <2>1 DEF StillStands, At, Transcribing, TranscribingSteps, Works, rows
  <2>. QED BY <2>1, <2>2, StandingFrame DEF InCharge, Quiet, rows
<1>3. CASE FailVideo(w)
  <2>1. /\ Works(w) /\ Quiet /\ task[w].pc = "fail" /\ task'[w].pc \in {"refund", "give-up"}
        /\ Moved("FAILED") \/ UNCHANGED <<video, transcripts>>
    BY <1>0, <1>3, FailVideoStep
  <2>2. StillStands(w)'
    BY <2>1 DEF StillStands, At, Transcribing, TranscribingSteps
  <2>3. CASE Moved("FAILED")
    <3>1. /\ video'.status = "FAILED" /\ video'.run = video.run
          /\ video'.analysisRun = video.analysisRun /\ video.run \in Nat /\ video.analysisRun \in Nat
      BY <1>0, <2>3 DEF Moved, RowBecomes, Video
    <3>2. MomentsInv'
      BY <3>1 DEF MomentsInv
    <3>. QED BY <2>1, <2>2, <3>1, <3>2, ChargeFrame DEF InCharge, Quiet
  <2>4. CASE UNCHANGED <<video, transcripts>>
    BY <2>1, <2>2, <2>4, StandingFrame DEF InCharge, Quiet
  <2>. QED BY <2>1, <2>3, <2>4
<1>4. CASE Refund(w) \/ BookkeepingFails(w)
  <2>1. /\ Works(w) /\ UNCHANGED <<video, transcripts, jobs, request>> /\ task'[w].pc = "give-up"
    BY <1>0, <1>4, RefundStep, BookkeepingFailsStep DEF Quiet, rows
  <2>2. StillStands(w)'
    BY <2>1 DEF StillStands, At, Transcribing, TranscribingSteps
  <2>. QED BY <2>1, <2>2, StandingFrame DEF InCharge
<1>5. CASE CallFails(w) /\ "done" \notin FaultyCalls
  <2>1. /\ Works(w) /\ UNCHANGED <<video, transcripts, jobs, request>> /\ task'[w].pc = "failing"
        /\ InCharge(w)
    BY <1>0, <1>5, CallFailsStep DEF rows, InCharge, HandlerCalls
  <2>2. StillStands(w)'
    BY <2>1 DEF StillStands, At, Transcribing, TranscribingSteps
  <2>. QED BY <2>1, <2>2, StandingFrame
<1>. QED BY <1>1, <1>2, <1>3, <1>4, <1>5

-----------------------------------------------------------------------------
(* The steps that add, take and settle jobs.                               *)

Owners ==
    /\ \A w \in Slots : task[w].pc # "idle" => Holds(w, task[w].job)
    /\ \A id \in DOMAIN jobs : jobs[id].state = "active" =>
          \E w \in Slots : jobs[id].slot = w /\ task[w].pc # "idle" /\ task[w].job = id

LEMMA OwnersStay ==
    ASSUME Shaped, OwnerInv,
           \A v \in Slots : /\ task'[v].pc # "idle" <=> task[v].pc # "idle"
                            /\ task[v].pc # "idle" => task'[v].job = task[v].job,
           DOMAIN jobs \subseteq DOMAIN jobs', \A id \in DOMAIN jobs : jobs'[id] = jobs[id],
           \A id \in DOMAIN jobs' : id \in DOMAIN jobs \/ jobs'[id].state # "active"
    PROVE  Owners'
<1>1. ASSUME NEW v \in Slots, task'[v].pc # "idle" PROVE Holds(v, task[v].job)'
  <2>1. /\ task[v].pc # "idle" /\ task'[v].job = task[v].job /\ task[v].job \in DOMAIN jobs
        /\ Holds(v, task[v].job)
    BY <1>1, KnownIds DEF OwnerInv
  <2>. QED BY <2>1 DEF Holds
<1>2. ASSUME NEW id \in DOMAIN jobs', jobs'[id].state = "active"
      PROVE  \E v \in Slots : jobs'[id].slot = v /\ task'[v].pc # "idle" /\ task'[v].job = id
  <2>1. id \in DOMAIN jobs /\ jobs[id].state = "active" /\ jobs'[id] = jobs[id]
    BY <1>2
  <2>2. PICK v \in Slots : jobs[id].slot = v /\ task[v].pc # "idle" /\ task[v].job = id
    BY <2>1 DEF OwnerInv
  <2>. QED BY <2>1, <2>2
<1>. QED BY <1>1, <1>2 DEF Owners

LEMMA KnownGrows ==
    ASSUME NEW id, DOMAIN jobs' = DOMAIN jobs \cup {id}, request' = request
    PROVE  Known' = Known \cup {id}
BY DEF Known

LEMMA KnownAsked ==
    ASSUME NEW q \in Requests, Else(q), jobs' = jobs
    PROVE  /\ request'[q].pc # "enqueue" => Known' \subseteq Known
           /\ request'[q].pc # "enqueue" /\ request[q].pc # "enqueue" => Known' = Known
           /\ request'[q].pc = "enqueue" /\ request[q].pc # "enqueue" =>
                 Known' = Known \cup {request'[q].next.id}
BY DEF Known, Else

LEMMA KnownMoves ==
    ASSUME NEW q \in Requests, Else(q), request[q].pc = "enqueue", request'[q].pc # "enqueue",
           DOMAIN jobs' = DOMAIN jobs \cup {request[q].next.id}
    PROVE  Known' = Known
BY DEF Known, Else

LEMMA CalmEnqueue ==
    ASSUME CalmInv, NEW w \in Slots, Enqueue(w)
    PROVE  CalmInv'
<1>0. /\ Shaped /\ OwnerInv /\ KnownInv /\ WorkInv /\ MomentsInv /\ video \in Video
      /\ StillStands(w) /\ task[w].pc = "enqueue" /\ InCharge(w)
  BY DEF CalmInv, WorkInv, Shaped, Enqueue, InCharge
<1>. PICK id : id = task[w].next.id
  OBVIOUS
<1>1. /\ Works(w) /\ UNCHANGED <<rows, request, used>> /\ task'[w].pc = "done" /\ id \in JobId
      /\ DOMAIN jobs' = DOMAIN jobs \cup {id} /\ \A i \in DOMAIN jobs : jobs'[i] = jobs[i]
      /\ id \notin DOMAIN jobs => jobs'[id].state = "waiting" /\ jobs'[id].data = task[w].next.data
  BY <1>0, EnqueueStep
<1>2. /\ \A v \in Slots : ~ InCharge(v)'
      /\ \A i \in DOMAIN jobs : jobs[i].state # "waiting"
      /\ \A q \in Requests : /\ request[q].pc # "version"
                             /\ request[q].pc = "enqueue" => request[q].next.id \in DOMAIN jobs
  BY <1>0, <1>1, SoleCharge DEF Works, Alone, InCharge
<1>3. video.run \in Nat /\ video.analysisRun \in Nat /\ task[w].job \in JobId /\ Current(task[w].job)
  BY <1>0, SoleCharge DEF Video
<1>4. \/ /\ video.status = "TRANSCRIBING" /\ NoTranscriptionOf(video.run)
         /\ id.queue = "transcription" /\ id.run = video.run
      \/ /\ video.status = "ANALYZING" /\ id = AnalysisJob(video.analysisRun) /\ id \notin Known
         /\ task[w].next.data = video.transcript /\ id.queue = "analysis" /\ id.run = 0
         /\ id.n = video.analysisRun
  <2>1. CASE task[w].job.queue = "ingest"
    BY <1>0, <1>3, <2>1, CurrentIs DEF StillStands
  <2>2. CASE task[w].job.queue = "transcription"
    <3>1. video.status = "ANALYZING" /\ AnalysisJob(video.analysisRun) \notin Known
      BY <1>0, <1>3, <2>2, CurrentIs DEF StillStands
    <3>2. task[w].next = Enqueuing(AnalysisJob(video.analysisRun), video.transcript)
      BY <1>0, <2>2 DEF StillStands
    <3>3. task[w].next.id = AnalysisJob(video.analysisRun) /\ task[w].next.data = video.transcript
      BY <3>2 DEF Enqueuing
    <3>. QED BY <1>3, <3>1, <3>3, Ids
  <2>. QED BY <1>0, <2>1, <2>2 DEF StillStands
<1>5. id \notin Known /\ Known \subseteq JobId /\ DOMAIN jobs \subseteq Known
  BY <1>0, <1>4, KnownIds DEF NoTranscriptionOf
<1>6. Known' = Known \cup {id}
  BY <1>1, KnownGrows
<1>7. Current(id)'
  BY <1>1, <1>4 DEF Current, rows
<1>8. OwnerInv'
  <2>1. Owners'
    BY <1>0, <1>1, <1>5, OwnersStay DEF Works, Alone
  <2>. QED BY <1>1, <1>2, <1>7, <2>1 DEF OwnerInv, Owners
<1>9. KnownInv'
  <2>1. \A i, j \in Known' :
          i.queue = "transcription" /\ j.queue = "transcription" /\ i.run = j.run => i = j
    BY <1>0, <1>4, <1>6 DEF KnownInv, NoTranscriptionOf
  <2>2. \A i \in Known' : i.run <= video.run /\ (i.queue = "analysis" => i.n <= video.analysisRun)
    BY <1>0, <1>3, <1>4, <1>6 DEF KnownInv
  <2>. QED BY <1>1, <1>2, <1>4, <2>1, <2>2 DEF KnownInv, rows
<1>10. WorkInv'
  BY <1>2 DEF WorkInv, StillStands, InCharge, At, Transcribing, TranscribingSteps
<1>11. MomentsInv'
  BY <1>0, <1>1, <1>4, <1>5 DEF MomentsInv, rows
<1>. QED BY <1>1, <1>8, <1>9, <1>10, <1>11 DEF CalmInv, Works

LEMMA CalmStart ==
    ASSUME CalmInv, NEW w \in Slots, Start(w)
    PROVE  CalmInv'
<1>0. Shaped /\ OwnerInv /\ KnownInv /\ WorkInv /\ MomentsInv
  BY DEF CalmInv
<1>1. PICK id \in DOMAIN jobs :
         /\ Shaped' /\ Alone(w) /\ task[w].pc = "idle" /\ task'[w].pc = "read"
         /\ UNCHANGED <<rows, request, used>> /\ task'[w].job = id /\ OnlyJob(id)
         /\ jobs[id].state = "waiting" /\ jobs'[id].state = "active" /\ jobs'[id].slot = w
  BY <1>0, StartStep
<1>2. DOMAIN jobs' = DOMAIN jobs /\ \A i \in DOMAIN jobs : i # id => jobs'[i] = jobs[i]
  BY <1>1 DEF OnlyJob
<1>3. Known' = Known
  BY <1>1, <1>2 DEF Known
<1>4. \A i : Current(i)' <=> Current(i)
  BY <1>1, <1>3 DEF Current, NoTranscriptionOf, rows
<1>5. OwnerInv'
  <2>1. ASSUME NEW v \in Slots, task'[v].pc # "idle" PROVE Holds(v, task[v].job)'
    <3>1. CASE v = w
      BY <1>1, <3>1 DEF Holds
    <3>2. CASE v # w
      <4>1. task'[v] = task[v] /\ Holds(v, task[v].job) /\ task[v].job \in DOMAIN jobs
        BY <1>0, <1>1, <2>1, <3>2, KnownIds DEF OwnerInv, Alone
      <4>. QED BY <1>1, <1>2, <4>1 DEF Holds
    <3>. QED BY <3>1, <3>2
  <2>2. ASSUME NEW i \in DOMAIN jobs', jobs'[i].state = "active"
        PROVE  \E v \in Slots : jobs'[i].slot = v /\ task'[v].pc # "idle" /\ task'[v].job = i
    <3>1. CASE i = id
      BY <1>1, <3>1
    <3>2. CASE i # id
      <4>1. jobs'[i] = jobs[i] /\ i \in DOMAIN jobs
        BY <1>2, <3>2
      <4>2. PICK v \in Slots : jobs[i].slot = v /\ task[v].pc # "idle" /\ task[v].job = i
        BY <1>0, <2>2, <4>1 DEF OwnerInv
      <4>3. v # w
        BY <1>1, <4>2
      <4>. QED BY <1>1, <4>1, <4>2, <4>3 DEF Alone
    <3>. QED BY <3>1, <3>2
  <2>3. \A i \in DOMAIN jobs' : jobs'[i].state = "waiting" => Current(i)'
    BY <1>0, <1>1, <1>2, <1>4 DEF OwnerInv
  <2>4. ASSUME NEW v \in Slots, InCharge(v)' PROVE Current(task[v].job)'
    <3>1. CASE v = w
      BY <1>0, <1>1, <1>4, <3>1 DEF OwnerInv
    <3>2. CASE v # w
      <4>1. task'[v] = task[v] /\ InCharge(v)
        BY <1>1, <2>4, <3>2 DEF InCharge, Alone
      <4>. QED BY <1>0, <1>4, <4>1 DEF OwnerInv
    <3>. QED BY <3>1, <3>2
  <2>. QED BY <1>0, <1>1, <1>2, <1>4, <2>1, <2>2, <2>3, <2>4 DEF OwnerInv
<1>6. KnownInv'
  BY <1>0, <1>1, <1>3 DEF KnownInv, NoTranscriptionOf, rows
<1>7. WorkInv'
  <2>1. ASSUME NEW v \in Slots PROVE StillStands(v)'
    <3>1. CASE v = w
      BY <1>1, <3>1 DEF StillStands, At, Transcribing, TranscribingSteps
    <3>2. CASE v # w
      BY <1>0, <1>1, <3>2 DEF WorkInv, StillStands, At, Transcribing, Alone, rows
    <3>. QED BY <3>1, <3>2
  <2>. QED BY <2>1 DEF WorkInv
<1>8. MomentsInv'
  BY <1>0, <1>1, <1>2 DEF MomentsInv, OnlyJob, rows
<1>. QED BY <1>1, <1>5, <1>6, <1>7, <1>8 DEF CalmInv

LEMMA CalmEnd ==
    ASSUME CalmInv, NEW w \in Slots, Complete(w) \/ RetryLater(w) \/ GiveUp(w) \/ RecordFails(w)
    PROVE  CalmInv'
<1>0. Shaped /\ OwnerInv /\ KnownInv /\ WorkInv /\ MomentsInv
  BY DEF CalmInv
<1>1. PICK id : id = task[w].job
  OBVIOUS
<1>2. /\ Shaped' /\ Alone(w) /\ task[w].pc # "idle" /\ task'[w].pc = "idle"
      /\ UNCHANGED <<rows, request>> /\ OnlyJob(id)
      /\ Holds(w, id) =>
            \/ jobs'[id].state \in {"completed", "failed"}
            \/ jobs'[id].state = "waiting" /\ task[w].pc \in {"failing", "read"}
  BY <1>0, <1>1, EndStep DEF Ends
<1>3. /\ DOMAIN jobs' = DOMAIN jobs /\ (\A i \in DOMAIN jobs : i # id => jobs'[i] = jobs[i])
      /\ jobs'[id].data = jobs[id].data
      /\ id \in DOMAIN jobs /\ Holds(w, id)
  BY <1>0, <1>1, <1>2, KnownIds DEF OnlyJob, OwnerInv
<1>4. Known' = Known
  BY <1>2, <1>3 DEF Known
<1>5. \A i : Current(i)' <=> Current(i)
  BY <1>2, <1>4 DEF Current, NoTranscriptionOf, rows
<1>6. OwnerInv'
  <2>1. ASSUME NEW v \in Slots, task'[v].pc # "idle" PROVE Holds(v, task[v].job)'
    <3>1. v # w /\ task'[v] = task[v] /\ Holds(v, task[v].job) /\ task[v].job \in DOMAIN jobs
      BY <1>0, <1>2, <2>1, KnownIds DEF OwnerInv, Alone
    <3>2. task[v].job # id
      BY <1>3, <3>1 DEF Holds
    <3>. QED BY <1>3, <3>1, <3>2 DEF Holds
  <2>2. ASSUME NEW i \in DOMAIN jobs', jobs'[i].state = "active"
        PROVE  \E v \in Slots : jobs'[i].slot = v /\ task'[v].pc # "idle" /\ task'[v].job = i
    <3>1. i # id
      BY <1>2, <1>3, <2>2
    <3>2. jobs'[i] = jobs[i] /\ i \in DOMAIN jobs
      BY <1>3, <3>1
    <3>3. PICK v \in Slots : jobs[i].slot = v /\ task[v].pc # "idle" /\ task[v].job = i
      BY <1>0, <2>2, <3>2 DEF OwnerInv
    <3>4. v # w
      BY <1>1, <3>1, <3>3
    <3>. QED BY <1>2, <3>2, <3>3, <3>4 DEF Alone
  <2>3. \A i \in DOMAIN jobs' : jobs'[i].state = "waiting" => Current(i)'
    <3> SUFFICES ASSUME NEW i \in DOMAIN jobs, jobs'[i].state = "waiting" PROVE Current(i)
      BY <1>3, <1>5
    <3>1. CASE i = id
      <4>1. InCharge(w)
        BY <1>2, <1>3, <3>1 DEF InCharge
      <4>. QED BY <1>0, <1>1, <3>1, <4>1 DEF OwnerInv
    <3>2. CASE i # id
      BY <1>0, <1>3, <3>2 DEF OwnerInv
    <3>. QED BY <3>1, <3>2
  <2>4. ASSUME NEW v \in Slots, InCharge(v)' PROVE Current(task[v].job)'
    <3>1. task'[v] = task[v] /\ InCharge(v)
      BY <1>2, <2>4 DEF InCharge, Alone
    <3>. QED BY <1>0, <1>5, <3>1 DEF OwnerInv
  <2>. QED BY <1>0, <1>2, <1>3, <1>5, <2>1, <2>2, <2>3, <2>4 DEF OwnerInv
<1>7. KnownInv'
  BY <1>0, <1>2, <1>4 DEF KnownInv, NoTranscriptionOf, rows
<1>8. WorkInv'
  <2>1. ASSUME NEW v \in Slots PROVE StillStands(v)'
    <3>1. CASE v = w
      BY <1>2, <3>1 DEF StillStands, At, Transcribing, TranscribingSteps
    <3>2. CASE v # w
      BY <1>0, <1>2, <3>2 DEF WorkInv, StillStands, At, Transcribing, Alone, rows
    <3>. QED BY <3>1, <3>2
  <2>. QED BY <2>1 DEF WorkInv
<1>9. MomentsInv'
  BY <1>0, <1>2, <1>3 DEF MomentsInv, rows
<1>. QED BY <1>2, <1>6, <1>7, <1>8, <1>9 DEF CalmInv

-----------------------------------------------------------------------------
(* The steps of the requests, of the removal and of the janitor.           *)

LEMMA CalmAsk ==
    ASSUME CalmInv, NEW q \in Requests, Process(q) \/ Analyze(q) \/ EnqueueLost(q)
    PROVE  CalmInv'
<1>0. Shaped /\ OwnerInv /\ KnownInv /\ WorkInv /\ MomentsInv
  BY DEF CalmInv
<1>1. /\ Shaped' /\ Else(q) /\ UNCHANGED <<rows, jobs, task>> /\ request'[q].pc \in {"idle", "transition"}
  BY <1>0, AskStep, EnqueueLostStep
<1>2. Known' \subseteq Known
  BY <1>1, KnownAsked
<1>3. \A i : Current(i) => Current(i)'
  BY <1>1, <1>2 DEF Current, NoTranscriptionOf, rows
<1>4. OwnerInv'
  <2>1. ASSUME NEW p \in Requests, request'[p].pc = "enqueue"
        PROVE  request'[p].next.id \in DOMAIN jobs' \/ Current(request[p].next.id)'
    <3>1. request'[p] = request[p] /\ (request[p].next.id \in DOMAIN jobs \/ Current(request[p].next.id))
      BY <1>0, <1>1, <2>1 DEF Else, OwnerInv
    <3>. QED BY <1>1, <1>3, <3>1
  <2>2. ASSUME NEW v \in Slots, InCharge(v)' PROVE Current(task[v].job)'
    <3>1. task'[v] = task[v] /\ InCharge(v)
      BY <1>1, <2>2 DEF InCharge
    <3>. QED BY <1>0, <1>3, <3>1 DEF OwnerInv
  <2>. QED BY <1>0, <1>1, <1>3, <2>1, <2>2 DEF OwnerInv, Holds
<1>5. KnownInv'
  BY <1>0, <1>1, <1>2 DEF KnownInv, NoTranscriptionOf, rows, Else
<1>6. WorkInv'
  BY <1>0, <1>1 DEF WorkInv, StillStands, At, Transcribing, rows
<1>7. MomentsInv'
  BY <1>0, <1>1 DEF MomentsInv, rows, Else
<1>. QED BY <1>1, <1>4, <1>5, <1>6, <1>7 DEF CalmInv

(* A video that is READY or FAILED is nobody's.                            *)
LEMMA NobodyWhenDone ==
    ASSUME CalmInv, video.status \in {"READY", "FAILED"}
    PROVE  /\ \A w \in Slots : ~ InCharge(w)
           /\ \A id \in DOMAIN jobs : jobs[id].state # "waiting"
           /\ \A p \in Requests : /\ request[p].pc = "enqueue" => request[p].next.id \in DOMAIN jobs
                                  /\ request[p].pc # "version"
<1>1. \A id \in Known : ~ Current(id)
  BY CurrentIs, KnownIds DEF CalmInv
<1>2. \A p \in Requests : request[p].pc # "version"
  BY DEF CalmInv, KnownInv
<1>. QED BY <1>1, <1>2, NoneInCharge

LEMMA CalmRestart ==
    ASSUME CalmInv, NEW q \in Requests, Restart(q)
    PROVE  CalmInv'
<1>0. Shaped /\ OwnerInv /\ KnownInv /\ WorkInv /\ MomentsInv /\ DOMAIN jobs \subseteq Known
  BY KnownIds DEF CalmInv
<1>1. /\ Shaped' /\ Else(q) /\ UNCHANGED <<transcripts, jobs, task, used>> /\ request[q].pc = "transition"
  BY <1>0, RestartStep
<1>2. /\ video.run \in Nat /\ video.analysisRun \in Nat /\ video.run < video.run + 1
      /\ video.analysisRun < video.analysisRun + 1 /\ Known \subseteq JobId
      /\ \A id \in Known : id.run \in Nat /\ id.n \in Nat
      /\ \A id \in Known : id.run <= video.run /\ (id.queue = "analysis" => id.n <= video.analysisRun)
  BY <1>0, KnownIds DEF Shaped, Video, JobId, KnownInv
<1>3. CASE UNCHANGED video /\ request'[q].pc = "idle"
  <2>1. Known' = Known
    BY <1>1, <1>3, KnownAsked
  <2>2. \A i : Current(i)' <=> Current(i)
    BY <1>3, <2>1 DEF Current, NoTranscriptionOf
  <2>3. OwnerInv'
    <3>1. ASSUME NEW p \in Requests, request'[p].pc = "enqueue"
          PROVE  request'[p].next.id \in DOMAIN jobs' \/ Current(request[p].next.id)'
      <4>1. request'[p] = request[p] /\ (request[p].next.id \in DOMAIN jobs \/ Current(request[p].next.id))
        BY <1>0, <1>1, <1>3, <3>1 DEF Else, OwnerInv
      <4>. QED BY <1>1, <2>2, <4>1
    <3>2. ASSUME NEW v \in Slots, InCharge(v)' PROVE Current(task[v].job)'
      <4>1. task'[v] = task[v] /\ InCharge(v)
        BY <1>1, <3>2 DEF InCharge
      <4>. QED BY <1>0, <2>2, <4>1 DEF OwnerInv
    <3>. QED BY <1>0, <1>1, <2>2, <3>1, <3>2 DEF OwnerInv, Holds
  <2>4. KnownInv'
    BY <1>0, <1>1, <1>3, <2>1 DEF KnownInv, NoTranscriptionOf, Else
  <2>5. WorkInv'
    BY <1>0, <1>1, <1>3 DEF WorkInv, StillStands, At, Transcribing
  <2>6. MomentsInv'
    BY <1>0, <1>1, <1>3 DEF MomentsInv, Else
  <2>. QED BY <1>1, <2>3, <2>4, <2>5, <2>6 DEF CalmInv
<1>4. CASE video.status \in {"READY", "FAILED"}
  <2>1. /\ \A v \in Slots : ~ InCharge(v) /\ ~ InCharge(v)'
        /\ \A id \in DOMAIN jobs : jobs[id].state # "waiting"
        /\ \A p \in Requests : /\ request[p].pc = "enqueue" => request[p].next.id \in DOMAIN jobs
                               /\ request[p].pc # "version"
    BY <1>1, <1>4, NobodyWhenDone DEF InCharge
  <2>2. WorkInv'
    BY <2>1 DEF WorkInv, StillStands, InCharge, At, Transcribing, TranscribingSteps
  <2>3. ASSUME request'[q].pc = "enqueue" => Current(request[q].next.id)' PROVE OwnerInv'
    <3>1. Owners'
      BY <1>0, <1>1, OwnersStay
    <3>. QED BY <1>1, <2>1, <2>3, <3>1 DEF OwnerInv, Owners, Else
  <2>4. CASE /\ request'[q].pc = "enqueue" /\ request'[q].next = Enqueuing(IngestJob(video.run + 1), None)
             /\ RowBecomes("QUEUED", video.run + 1, video.analysisRun, video.transcript,
                           video.ready, video.deleted)
    <3>1. PICK id : id = IngestJob(video.run + 1)
      OBVIOUS
    <3>2. /\ request'[q].next.id = id /\ id.queue = "ingest" /\ id.run = video.run + 1
          /\ video'.status = "QUEUED" /\ video'.run = video.run + 1
          /\ video'.analysisRun = video.analysisRun /\ id = IngestJob(video'.run)
      BY <2>4, <3>1 DEF RowBecomes, Enqueuing, IngestJob
    <3>3. Known' = Known \cup {id}
      BY <1>1, <2>4, <3>2, KnownAsked
    <3>4. OwnerInv'
      BY <2>3, <3>2 DEF Current
    <3>5. KnownInv'
      BY <1>0, <1>1, <1>2, <2>1, <2>4, <3>2, <3>3 DEF KnownInv, NoTranscriptionOf, Else
    <3>6. MomentsInv'
      BY <3>2 DEF MomentsInv
    <3>. QED BY <1>1, <2>2, <3>4, <3>5, <3>6 DEF CalmInv
  <2>5. CASE /\ request'[q].pc = "version" /\ request'[q].run = video.run + 1
             /\ RowBecomes("TRANSCRIBING", video.run + 1, video.analysisRun, video.transcript,
                           video.ready, video.deleted)
    <3>1. /\ video'.status = "TRANSCRIBING" /\ video'.run = video.run + 1
          /\ video'.analysisRun = video.analysisRun /\ Known' = Known
      BY <1>1, <2>5, KnownAsked DEF RowBecomes
    <3>2. OwnerInv'
      BY <2>3, <2>5
    <3>3. KnownInv'
      BY <1>0, <1>1, <1>2, <2>1, <2>5, <3>1 DEF KnownInv, NoTranscriptionOf, Else
    <3>4. MomentsInv'
      BY <3>1 DEF MomentsInv
    <3>. QED BY <1>1, <2>2, <3>2, <3>3, <3>4 DEF CalmInv
  <2>6. CASE /\ request'[q].pc = "enqueue"
             /\ request'[q].next = Enqueuing(AnalysisJob(video.analysisRun + 1), video.transcript)
             /\ RowBecomes("ANALYZING", video.run, video.analysisRun + 1, video.transcript,
                           video.ready, video.deleted)
    <3>1. PICK id : id = AnalysisJob(video.analysisRun + 1)
      OBVIOUS
    <3>2. /\ request'[q].next.id = id /\ request'[q].next.data = video.transcript
          /\ id.queue = "analysis" /\ id.run = 0 /\ id.n = video.analysisRun + 1
          /\ video'.status = "ANALYZING" /\ video'.run = video.run
          /\ video'.analysisRun = video.analysisRun + 1 /\ id = AnalysisJob(video'.analysisRun)
          /\ video'.transcript = video.transcript
      BY <2>6, <3>1 DEF RowBecomes, Enqueuing, AnalysisJob
    <3>3. Known' = Known \cup {id} /\ id \notin Known
      BY <1>1, <1>2, <2>6, <3>2, KnownAsked
    <3>4. OwnerInv'
      BY <2>3, <3>2 DEF Current
    <3>5. KnownInv'
      BY <1>0, <1>1, <1>2, <2>1, <2>6, <3>2, <3>3 DEF KnownInv, NoTranscriptionOf, Else
    <3>6. MomentsInv'
      BY <1>0, <1>1, <2>1, <3>2, <3>3 DEF MomentsInv, Else
    <3>. QED BY <1>1, <2>2, <3>4, <3>5, <3>6 DEF CalmInv
  <2>. QED BY <1>0, <1>3, <2>4, <2>5, <2>6, RestartStep
<1>. QED BY <1>0, <1>3, <1>4, RestartStep DEF CanMove

LEMMA CalmVersion ==
    ASSUME CalmInv, NEW q \in Requests, RequestVersion(q)
    PROVE  CalmInv'
<1>0. Shaped /\ OwnerInv /\ KnownInv /\ WorkInv /\ MomentsInv /\ DOMAIN jobs \subseteq Known
  BY KnownIds DEF CalmInv
<1>1. /\ Shaped' /\ Else(q) /\ UNCHANGED <<rows, jobs, task, used>>
      /\ request[q].pc = "version" /\ request'[q].pc = "enqueue"
      /\ request'[q].next = Enqueuing(TranscriptionJob(NextVersion, request[q].run), None)
  BY <1>0, RequestVersionStep
<1>2. /\ video.status = "TRANSCRIBING" /\ request[q].run = video.run
      /\ \A id \in Known : id.run # video.run
      /\ \A p \in Requests : request[p].pc = "version" => p = q
  BY <1>0, <1>1 DEF KnownInv
<1>3. PICK id : id = TranscriptionJob(NextVersion, video.run)
  OBVIOUS
<1>4. /\ request'[q].next.id = id /\ id.queue = "transcription" /\ id.run = video.run
      /\ video.run \in Nat
  BY <1>0, <1>1, <1>2, <1>3 DEF Enqueuing, TranscriptionJob, Shaped, Video
<1>5. Known' = Known \cup {id}
  BY <1>1, <1>4, KnownAsked
<1>6. /\ \A v \in Slots : ~ InCharge(v) /\ ~ InCharge(v)'
      /\ \A i \in DOMAIN jobs : jobs[i].state # "waiting"
      /\ \A p \in Requests : request[p].pc = "enqueue" => request[p].next.id \in DOMAIN jobs
  <2>1. \A i \in Known : ~ Current(i)
    BY <1>0, <1>2, CurrentIs, KnownIds
  <2>. QED BY <1>1, <2>1, NoneInCharge DEF InCharge
<1>7. OwnerInv'
  <2>1. Owners'
    BY <1>0, <1>1, OwnersStay
  <2>2. Current(id)'
    BY <1>1, <1>2, <1>4 DEF Current, rows
  <2>. QED BY <1>1, <1>4, <1>6, <2>1, <2>2 DEF OwnerInv, Owners, Else
<1>8. KnownInv'
  BY <1>0, <1>1, <1>2, <1>4, <1>5 DEF KnownInv, Else, rows
<1>9. WorkInv'
  BY <1>6 DEF WorkInv, StillStands, InCharge, At, Transcribing, TranscribingSteps
<1>10. MomentsInv'
  BY <1>1, <1>2 DEF MomentsInv, rows
<1>. QED BY <1>1, <1>7, <1>8, <1>9, <1>10 DEF CalmInv

LEMMA CalmRequestEnqueues ==
    ASSUME CalmInv, NEW q \in Requests, RequestEnqueues(q)
    PROVE  CalmInv'
<1>0. Shaped /\ OwnerInv /\ KnownInv /\ WorkInv /\ MomentsInv /\ DOMAIN jobs \subseteq Known
  BY KnownIds DEF CalmInv
<1>. PICK id : id = request[q].next.id
  OBVIOUS
<1>1. /\ Shaped' /\ Else(q) /\ UNCHANGED <<rows, task, used>>
      /\ request[q].pc = "enqueue" /\ request'[q].pc = "idle"
      /\ DOMAIN jobs' = DOMAIN jobs \cup {id} /\ \A i \in DOMAIN jobs : jobs'[i] = jobs[i]
      /\ id \notin DOMAIN jobs =>
            jobs'[id].state = "waiting" /\ jobs'[id].data = request[q].next.data
  BY <1>0, RequestEnqueuesStep
<1>2. Known' = Known
  BY <1>1, KnownMoves
<1>3. \A i : Current(i)' <=> Current(i)
  BY <1>1, <1>2 DEF Current, NoTranscriptionOf, rows
<1>4. OwnerInv'
  <2>1. Owners'
    BY <1>0, <1>1, OwnersStay
  <2>2. \A i \in DOMAIN jobs' : jobs'[i].state = "waiting" => Current(i)'
    BY <1>0, <1>1, <1>3 DEF OwnerInv
  <2>3. ASSUME NEW p \in Requests, request'[p].pc = "enqueue"
        PROVE  request'[p].next.id \in DOMAIN jobs' \/ Current(request[p].next.id)'
    <3>1. request'[p] = request[p] /\ (request[p].next.id \in DOMAIN jobs \/ Current(request[p].next.id))
      BY <1>0, <1>1, <2>3 DEF Else, OwnerInv
    <3>. QED BY <1>1, <1>3, <3>1
  <2>4. ASSUME NEW v \in Slots, InCharge(v)' PROVE Current(task[v].job)'
    <3>1. task'[v] = task[v] /\ InCharge(v)
      BY <1>1, <2>4 DEF InCharge
    <3>. QED BY <1>0, <1>3, <3>1 DEF OwnerInv
  <2>. QED BY <2>1, <2>2, <2>3, <2>4 DEF OwnerInv, Owners
<1>5. KnownInv'
  BY <1>0, <1>1, <1>2 DEF KnownInv, NoTranscriptionOf, rows, Else
<1>6. WorkInv'
  BY <1>0, <1>1 DEF WorkInv, StillStands, At, Transcribing, rows
<1>7. MomentsInv'
  BY <1>0, <1>1 DEF MomentsInv, rows, Else
<1>. QED BY <1>1, <1>4, <1>5, <1>6, <1>7 DEF CalmInv

LEMMA CalmOutside ==
    ASSUME CalmInv, RemoveVideo \/ UNCHANGED vars
    PROVE  CalmInv'
<1>0. Shaped /\ OwnerInv /\ KnownInv /\ WorkInv /\ MomentsInv
  BY DEF CalmInv
<1>1. /\ Shaped' /\ UNCHANGED <<transcripts, jobs, task, request>>
      /\ video'.status = video.status /\ video'.run = video.run /\ video'.ready = video.ready
      /\ video'.analysisRun = video.analysisRun /\ video'.transcript = video.transcript
  <2>1. CASE RemoveVideo
    BY <1>0, <2>1, RemoveVideoStep DEF RowBecomes
  <2>2. CASE UNCHANGED vars
    <3>1. Shaped'
      BY <1>0, <2>2, ShapedStep
    <3>. QED BY <2>2, <3>1 DEF vars, rows
  <2>. QED BY <2>1, <2>2
<1>2. Known' = Known
  BY <1>1, KnownStays
<1>3. \A i : Current(i)' <=> Current(i)
  BY <1>1, <1>2 DEF Current, NoTranscriptionOf
<1>4. OwnerInv'
  <2>1. ASSUME NEW p \in Requests, request'[p].pc = "enqueue"
        PROVE  request'[p].next.id \in DOMAIN jobs' \/ Current(request[p].next.id)'
    BY <1>0, <1>1, <1>3, <2>1 DEF OwnerInv
  <2>2. ASSUME NEW v \in Slots, InCharge(v)' PROVE Current(task[v].job)'
    BY <1>0, <1>1, <1>3, <2>2 DEF OwnerInv, InCharge
  <2>. QED BY <1>0, <1>1, <1>3, <2>1, <2>2 DEF OwnerInv, Holds
<1>5. KnownInv'
  BY <1>0, <1>1, <1>2 DEF KnownInv, NoTranscriptionOf
<1>6. WorkInv'
  BY <1>0, <1>1 DEF WorkInv, StillStands, At, Transcribing
<1>7. MomentsInv'
  BY <1>0, <1>1 DEF MomentsInv
<1>. QED BY <1>1, <1>4, <1>5, <1>6, <1>7 DEF CalmInv

LEMMA CalmRequeue ==
    ASSUME CalmInv, Requeue
    PROVE  CalmInv'
<1>0. Shaped /\ OwnerInv /\ KnownInv /\ WorkInv /\ MomentsInv /\ DOMAIN jobs \subseteq Known
  BY KnownIds DEF CalmInv
<1>. PICK id : id = IngestJob(video.run)
  OBVIOUS
<1>1. /\ Shaped' /\ UNCHANGED <<rows, task, request, used>> /\ video.status = "QUEUED"
      /\ DOMAIN jobs' = DOMAIN jobs \cup {id} /\ \A i \in DOMAIN jobs : jobs'[i] = jobs[i]
      /\ id \notin DOMAIN jobs => jobs'[id].state = "waiting"
      /\ id.queue = "ingest" /\ id.run = video.run /\ video.run \in Nat
  BY <1>0, RequeueStep DEF CanMove, IngestJob, Shaped, Video
<1>2. Known' = Known \cup {id}
  BY <1>1, KnownGrows
<1>3. \A i : Current(i)' <=> Current(i)
  BY <1>1 DEF Current, rows
<1>4. OwnerInv'
  <2>1. Owners'
    BY <1>0, <1>1, OwnersStay
  <2>2. \A i \in DOMAIN jobs' : jobs'[i].state = "waiting" => Current(i)'
    <3>1. Current(id)'
      BY <1>1 DEF Current, rows
    <3>. QED BY <1>0, <1>1, <1>3, <3>1 DEF OwnerInv
  <2>3. ASSUME NEW p \in Requests, request'[p].pc = "enqueue"
        PROVE  request'[p].next.id \in DOMAIN jobs' \/ Current(request[p].next.id)'
    BY <1>0, <1>1, <1>3, <2>3 DEF OwnerInv
  <2>4. ASSUME NEW v \in Slots, InCharge(v)' PROVE Current(task[v].job)'
    BY <1>0, <1>1, <1>3, <2>4 DEF OwnerInv, InCharge
  <2>. QED BY <2>1, <2>2, <2>3, <2>4 DEF OwnerInv, Owners
<1>5. KnownInv'
  BY <1>0, <1>1, <1>2 DEF KnownInv, NoTranscriptionOf, rows
<1>6. WorkInv'
  BY <1>0, <1>1 DEF WorkInv, StillStands, At, Transcribing, rows
<1>7. MomentsInv'
  BY <1>1 DEF MomentsInv, rows
<1>. QED BY <1>1, <1>4, <1>5, <1>6, <1>7 DEF CalmInv

LEMMA NoFaults ==
    ASSUME Calm, CalmInv
    PROVE  /\ \A w \in Slots : ~ Crash(w)
           /\ \A id \in DOMAIN jobs : ~ Stall(id)
<1>1. Shaped /\ OwnerInv /\ Bound.crashes = 0 /\ Bound.lostLocks = 0
  BY DEF Calm, CalmInv
<1>2. ASSUME NEW x \in Counters PROVE used[x] \in Nat
  BY <1>1, Bounds DEF Shaped
<1>3. used.crashes \in Nat /\ used.lostLocks \in Nat
  BY <1>2 DEF Counters
<1>4. ASSUME NEW w \in Slots, Crash(w) PROVE FALSE
  <2>1. used.crashes < Bound.crashes
    BY <1>1, <1>4, CrashStep
  <2>. QED BY <1>1, <1>3, <2>1
<1>5. ASSUME NEW id \in DOMAIN jobs, Stall(id) PROVE FALSE
  <2>1. jobs[id].state = "active" /\ (task[jobs[id].slot].job # id \/ used.lostLocks < Bound.lostLocks)
    BY <1>1, <1>5, StallStep
  <2>2. task[jobs[id].slot].job = id
    BY <1>1, <2>1 DEF OwnerInv
  <2>. QED BY <1>1, <1>3, <2>1, <2>2
<1>. QED BY <1>4, <1>5

LEMMA CalmStep ==
    ASSUME Calm, CalmInv, [Next]_vars
    PROVE  CalmInv'
<1>1. ASSUME NEW w \in Slots, Execute(w) \/ RecordFails(w) PROVE CalmInv'
  BY <1>1, ExecutionSteps, CalmIngest, CalmTranscription, CalmAnalysis, CalmFailure, CalmEnqueue, CalmEnd
<1>2. ASSUME NEW w \in Slots, Start(w) \/ CallFails(w) \/ BookkeepingFails(w) PROVE CalmInv'
  BY <1>2, CalmStart, CalmFailure DEF Calm
<1>3. ASSUME NEW q \in Requests,
             \/ Process(q) \/ Analyze(q) \/ Restart(q)
             \/ RequestVersion(q) \/ RequestEnqueues(q) \/ EnqueueLost(q)
      PROVE  CalmInv'
  BY <1>3, CalmAsk, CalmRestart, CalmVersion, CalmRequestEnqueues
<1>4. CASE RemoveVideo \/ Requeue \/ UNCHANGED vars
  BY <1>4, CalmOutside, CalmRequeue
<1>. QED BY <1>1, <1>2, <1>3, <1>4, NoFaults DEF Next

LEMMA CalmInit == Init => CalmInv
<1> SUFFICES ASSUME Init PROVE CalmInv
  OBVIOUS
<1>1. /\ Shaped /\ \A w \in Slots : task[w].pc = "idle"
      /\ \A q \in Requests : \/ request[q].pc = "idle"
                             \/ request[q].pc = "enqueue" /\ request[q].next.id = IngestJob(1)
  BY InitShaped
<1>2. DOMAIN jobs = {} /\ video.status = "QUEUED" /\ video.run = 1
  BY DEF Init
<1>3. Known \subseteq {IngestJob(1)} /\ IngestJob(1).queue = "ingest" /\ IngestJob(1).run = 1
  BY <1>1, <1>2, Ids DEF Known
<1>4. Current(IngestJob(1))
  BY <1>2 DEF Current
<1>5. OwnerInv
  BY <1>1, <1>2, <1>4 DEF OwnerInv, InCharge
<1>6. KnownInv
  BY <1>1, <1>2, <1>3 DEF KnownInv, NoTranscriptionOf
<1>7. WorkInv
  BY <1>1 DEF WorkInv, StillStands, At, Transcribing, TranscribingSteps
<1>8. MomentsInv
  BY <1>2 DEF MomentsInv
<1>. QED BY <1>1, <1>5, <1>6, <1>7, <1>8 DEF CalmInv

(* While no slot dies or loses its lock, one execution at a time is in charge
   of the video, the job that waits or runs is always the one whose turn it
   is, and what that execution has read still stands.                      *)
THEOREM CalmInvHolds ==
    ASSUME Calm
    PROVE  Spec => []CalmInv
<1>1. CalmInv /\ [Next]_vars => CalmInv'
  BY CalmStep
<1>. QED BY <1>1, CalmInit, PTL DEF Spec

(* MomentsMatchTranscript (analysis.py publishes what it found in the job's
   transcript; transcription.py:88-106 hands the active one to the job): a
   READY video shows moments of its active transcript, whatever requests,
   retries and failing calls there are.                                    *)
THEOREM MomentsMatchTranscriptHolds ==
    ASSUME Calm
    PROVE  Spec => []MomentsMatchTranscript
<1>1. CalmInv => MomentsMatchTranscript
  BY DEF CalmInv, MomentsInv, MomentsMatchTranscript
<1>. QED BY <1>1, CalmInvHolds, PTL

-----------------------------------------------------------------------------
(* A completed transcript is never written again.                          *)

Kept == \A n \in Versions : transcripts[n] = "COMPLETED" => transcripts'[n] = "COMPLETED"

LEMMA StillCompleted ==
    ASSUME CalmInv, NEW w \in Slots, NEW status \in {"PENDING", "PROCESSING", "COMPLETED", "FAILED"},
           WriteTranscript(w, status),
           \/ status = "COMPLETED"
           \/ Transcribing(w) /\ task[w].pc \in {"mark", "provider", "save"}
    PROVE  Kept
<1>1. Shaped /\ StillStands(w)
  BY DEF CalmInv, WorkInv
<1>2. \A n \in Versions : transcripts'[n] = IF n = task[w].job.n THEN status ELSE transcripts[n]
  BY <1>1, TranscriptWritten
<1>. QED BY <1>1, <1>2 DEF StillStands, Kept

LEMMA KeptStep ==
    ASSUME CalmInv, [Next]_vars
    PROVE  Kept
<1>0. Shaped
  BY DEF CalmInv
<1>1. CASE UNCHANGED transcripts
  BY <1>1 DEF Kept
<1>2. ASSUME NEW w \in Slots, EnsureTranscript(w) PROVE Kept
  BY <1>0, <1>2, EnsureTranscriptStep DEF Kept
<1>3. ASSUME NEW w \in Slots, MarkProcessing(w) \/ SaveTranscript(w) PROVE Kept
  BY <1>0, <1>3, MarkProcessingStep, SaveTranscriptStep, StillCompleted
<1>4. ASSUME NEW w \in Slots, Transcribe(w) PROVE Kept
  BY <1>0, <1>1, <1>4, TranscribeStep, StillCompleted
<1>5. ASSUME NEW w \in Slots, Execute(w) PROVE Kept
  <2>1. \/ EnsureTranscript(w) \/ MarkProcessing(w) \/ SaveTranscript(w) \/ Transcribe(w)
        \/ UNCHANGED transcripts
    BY <1>5, ExecutionSteps
    DEF IngestRead, EnsureTranscriptionJob, ClaimIngest, Probe, Prepare, ChooseVersion, FinishIngest,
        TranscriptionRead, ActivateTranscript, DiscardAudio, FinishTranscription, AnalysisRead,
        LoadTranscript, FindMoments, PublishCandidates, FinishAnalysis, Charge, Enqueue, FailRead,
        FailVideo, Refund, Complete, RetryLater, GiveUp, RecordFails, rows
  <2>. QED BY <1>1, <1>2, <1>3, <1>4, <2>1
<1>6. ASSUME NEW w \in Slots,
             Start(w) \/ CallFails(w) \/ BookkeepingFails(w) \/ RecordFails(w) \/ Crash(w)
      PROVE  UNCHANGED transcripts
  BY <1>6 DEF Start, CallFails, BookkeepingFails, RecordFails, Crash, rows
<1>7. ASSUME NEW id \in DOMAIN jobs, Stall(id) PROVE UNCHANGED transcripts
  BY <1>7 DEF Stall, rows
<1>8. ASSUME NEW q \in Requests,
             \/ Process(q) \/ Analyze(q) \/ Restart(q)
             \/ RequestVersion(q) \/ RequestEnqueues(q) \/ EnqueueLost(q)
      PROVE  UNCHANGED transcripts
  BY <1>8 DEF Process, Analyze, Ask, Restart, RequestVersion, RequestEnqueues, EnqueueLost, rows
<1>9. CASE RemoveVideo \/ Requeue \/ UNCHANGED vars
  <2>1. UNCHANGED transcripts
    BY <1>9 DEF RemoveVideo, Requeue, vars, rows
  <2>. QED BY <1>1, <2>1
<1>. QED BY <1>1, <1>5, <1>6, <1>7, <1>8, <1>9 DEF Next

(* CompletedStays (docs/pipeline.md:32, transcription.py:56-74 and
   next_transcript_version): between two executions, retries and requests, a
   version that has a completed transcript is never transcribed again, since
   a job for it finds the row completed and new runs choose another version. *)
THEOREM CompletedStaysHolds ==
    ASSUME Calm
    PROVE  Spec => CompletedStays
<1>1. CalmInv /\ [Next]_vars =>
        [\A n \in Versions : transcripts[n] = "COMPLETED" => transcripts'[n] = "COMPLETED"]_vars
  BY KeptStep DEF Kept
<1>. QED BY <1>1, CalmInvHolds, PTL DEF Spec, CompletedStays

-----------------------------------------------------------------------------
(* A video that failed before it was delivered gets its credits back.      *)

LEMMA StageRows ==
    ASSUME Shaped, NEW w \in Slots, Ingest(w) \/ Transcription(w) \/ Analysis(w)
    PROVE  /\ Works(w) /\ task[w].pc # "refund" /\ held' = held
           /\ video'.status = "FAILED" => video.status = "FAILED" /\ video'.ready = video.ready
<1>1. task[w].pc # "refund"
  BY DEF Ingest, Transcription, Analysis, At, IngestRead, EnsureTranscriptionJob, ClaimIngest, Probe,
         Prepare, ChooseVersion, FinishIngest, TranscriptionRead, EnsureTranscript, MarkProcessing,
         Transcribe, SaveTranscript, ActivateTranscript, DiscardAudio, FinishTranscription,
         AnalysisRead, LoadTranscript, FindMoments, PublishCandidates, FinishAnalysis
<1>2. CASE Ingest(w)
  BY <1>1, <1>2, IngestReadStep, EnsureTranscriptionJobStep, ClaimIngestStep, IngestWorkStep,
     ChooseVersionStep, FinishIngestStep DEF Ingest, rows, Moved, RowBecomes
<1>3. CASE TranscriptionRead(w) \/ EnsureTranscript(w) \/ MarkProcessing(w) \/ Transcribe(w)
  BY <1>1, <1>3, TranscriptionReadStep, EnsureTranscriptStep, MarkProcessingStep, TranscribeStep DEF rows
<1>4. CASE SaveTranscript(w) \/ ActivateTranscript(w) \/ DiscardAudio(w) \/ FinishTranscription(w)
  BY <1>1, <1>4, SaveTranscriptStep, ActivateTranscriptStep, DiscardAudioStep, FinishTranscriptionStep
  DEF rows, Moved, RowBecomes
<1>5. CASE Analysis(w)
  BY <1>1, <1>5, AnalysisWorkStep, PublishCandidatesStep, FinishAnalysisStep
  DEF Analysis, rows, RowBecomes
<1>. QED BY <1>2, <1>3, <1>4, <1>5 DEF Transcription

LEMMA RefundedFrame ==
    ASSUME FailedIsRefunded,
           video'.status = "FAILED" /\ ~ video'.ready /\ held' =>
              video.status = "FAILED" /\ ~ video.ready /\ held,
           \A v \in Slots : task[v].pc = "refund" => task'[v].pc = "refund"
    PROVE  FailedIsRefunded'
BY DEF FailedIsRefunded

LEMMA RefundedStep ==
    ASSUME Calm, "refund" \notin FaultyCalls, CalmInv, FailedIsRefunded, [Next]_vars
    PROVE  FailedIsRefunded'
<1>0. Shaped /\ video \in Video
  BY DEF CalmInv, Shaped
<1>1. ASSUME NEW w \in Slots, Ingest(w) \/ Transcription(w) \/ Analysis(w) PROVE FailedIsRefunded'
  BY <1>0, <1>1, StageRows, RefundedFrame DEF Works, Alone
<1>2. ASSUME NEW w \in Slots, Charge(w) PROVE FailedIsRefunded'
  <2>1. Works(w) /\ video' = video /\ task[w].pc = "charge"
    BY <1>0, <1>2, ChargeStep
  <2>2. video.status # "FAILED"
    BY <1>0, <2>1, SoleCharge, CurrentIs DEF InCharge
  <2>. QED BY <2>1, <2>2, RefundedFrame DEF Works, Alone
<1>3. ASSUME NEW w \in Slots, Enqueue(w) \/ FailRead(w) PROVE FailedIsRefunded'
  BY <1>0, <1>3, EnqueueStep, FailReadStep, RefundedFrame DEF Works, Alone, rows
<1>4. ASSUME NEW w \in Slots, FailVideo(w) PROVE FailedIsRefunded'
  <2>1. /\ Works(w) /\ task[w].pc = "fail" /\ held' = held
        /\ \/ Moved("FAILED") /\ task[w].seen.ready
           \/ task'[w].pc = "refund"
           \/ UNCHANGED video
    BY <1>0, <1>4, FailVideoStep
  <2>2. task[w].seen.ready = video.ready
    BY <2>1 DEF CalmInv, WorkInv, StillStands
  <2>3. CASE Moved("FAILED") /\ task[w].seen.ready
    BY <2>2, <2>3 DEF Moved, RowBecomes, FailedIsRefunded
  <2>4. CASE task'[w].pc = "refund"
    BY <2>4 DEF FailedIsRefunded
  <2>5. CASE UNCHANGED video
    BY <2>1, <2>5, RefundedFrame DEF Works, Alone
  <2>. QED BY <2>1, <2>3, <2>4, <2>5
<1>5. ASSUME NEW w \in Slots, Refund(w) PROVE FailedIsRefunded'
  BY <1>5 DEF Refund, FailedIsRefunded
<1>6. ASSUME NEW w \in Slots, Complete(w) \/ RetryLater(w) \/ GiveUp(w) \/ RecordFails(w)
      PROVE  FailedIsRefunded'
  BY <1>0, <1>6, EndStep, RefundedFrame DEF Ends, Alone, rows
<1>7. ASSUME NEW w \in Slots, Execute(w) PROVE FailedIsRefunded'
  BY <1>1, <1>2, <1>3, <1>4, <1>5, <1>6, <1>7 DEF Execute, Failure
<1>8. ASSUME NEW w \in Slots, Start(w) \/ CallFails(w) \/ BookkeepingFails(w) PROVE FailedIsRefunded'
  <2>1. Alone(w) /\ UNCHANGED rows /\ task[w].pc # "refund"
    BY <1>0, <1>8, StartStep, CallFailsStep, BookkeepingFailsStep DEF Works, HandlerCalls
  <2>. QED BY <2>1, RefundedFrame DEF Alone, rows
<1>9. ASSUME NEW q \in Requests, Process(q) \/ Analyze(q) \/ RequestVersion(q) \/ RequestEnqueues(q)
                                  \/ EnqueueLost(q)
      PROVE  FailedIsRefunded'
  BY <1>0, <1>9, AskStep, RequestVersionStep, RequestEnqueuesStep, EnqueueLostStep, RefundedFrame DEF rows
<1>10. ASSUME NEW q \in Requests, Restart(q) PROVE FailedIsRefunded'
  BY <1>0, <1>10, RestartStep, RefundedFrame DEF RowBecomes
<1>11. CASE RemoveVideo \/ Requeue \/ UNCHANGED vars
  <2>1. /\ video'.status = video.status /\ video'.ready = video.ready /\ UNCHANGED <<held, task>>
    BY <1>0, <1>11, RemoveVideoStep, RequeueStep DEF RowBecomes, rows, vars
  <2>. QED BY <2>1, RefundedFrame
<1>. QED BY <1>6, <1>7, <1>8, <1>9, <1>10, <1>11, NoFaults DEF Next

(* FailedIsRefunded (docs/billing.md:51, base.py:226-249): whatever calls of
   the stages fail and whatever the user asks meanwhile, a video that failed
   before it was ever delivered does not keep its credits taken once the
   execution that failed it is done, as long as that execution does finish
   its refund.                                                             *)
THEOREM FailedIsRefundedHolds ==
    ASSUME Calm, "refund" \notin FaultyCalls
    PROVE  Spec => []FailedIsRefunded
<1>1. Init => FailedIsRefunded
  BY DEF Init, FailedIsRefunded
<1>2. CalmInv /\ FailedIsRefunded /\ [Next]_vars => FailedIsRefunded'
  BY RefundedStep
<1>. QED BY <1>1, <1>2, CalmInvHolds, PTL DEF Spec

-----------------------------------------------------------------------------
(* What is delivered after retries is paid for, unless a refund came late.  *)

(* Only a refund counts as one.                                            *)
LEMMA LateRefundsStay ==
    ASSUME Shaped, [Next]_vars, \A w \in Slots : ~ Refund(w)
    PROVE  used'["lateRefunds"] = used["lateRefunds"]
<1>1. ASSUME NEW x \in Counters, Use(x) \/ Suffer(x) PROVE used'["lateRefunds"] = used["lateRefunds"]
  <2>1. x # "lateRefunds" /\ used \in [Counted -> Nat] /\ "lateRefunds" \in Counted
    BY Bounds DEF Shaped
  <2>2. \/ used' = [used EXCEPT ![x] = used[x] + 1]
        \/ used' = [used EXCEPT ![x] = used[x] + 1, !["faults"] = used["faults"] + 1]
    BY <1>1 DEF Use, Suffer
  <2>. QED BY <2>1, <2>2
<1>2. ASSUME NEW w \in Slots, Execute(w) PROVE used' = used \/ Suffer("errors")
  <2>1. CASE Ingest(w)
    BY <2>1 DEF Ingest, IngestRead, EnsureTranscriptionJob, ClaimIngest, Probe, Prepare, ChooseVersion,
                FinishIngest
  <2>2. CASE Transcription(w)
    BY <2>2 DEF Transcription, TranscriptionRead, EnsureTranscript, MarkProcessing, Transcribe,
                SaveTranscript, ActivateTranscript, DiscardAudio, FinishTranscription
  <2>3. CASE Analysis(w)
    BY <2>3 DEF Analysis, AnalysisRead, LoadTranscript, FindMoments, PublishCandidates, FinishAnalysis
  <2>4. CASE Charge(w) \/ Enqueue(w) \/ Complete(w) \/ RetryLater(w) \/ FailRead(w) \/ FailVideo(w)
             \/ GiveUp(w)
    BY <2>4 DEF Charge, Enqueue, Complete, RetryLater, FailRead, FailVideo, GiveUp
  <2>. QED BY <1>2, <2>1, <2>2, <2>3, <2>4 DEF Execute, Failure
<1>3. ASSUME NEW w \in Slots,
             Start(w) \/ CallFails(w) \/ BookkeepingFails(w) \/ RecordFails(w) \/ Crash(w)
      PROVE  used' = used \/ Suffer("errors") \/ Suffer("crashes")
  BY <1>3 DEF Start, CallFails, BookkeepingFails, RecordFails, Crash
<1>4. ASSUME NEW id \in DOMAIN jobs, Stall(id) PROVE used' = used \/ Suffer("lostLocks")
  BY <1>4 DEF Stall
<1>5. ASSUME NEW q \in Requests,
             \/ Process(q) \/ Analyze(q) \/ Restart(q)
             \/ RequestVersion(q) \/ RequestEnqueues(q) \/ EnqueueLost(q)
      PROVE  used' = used \/ Use("requests")
  BY <1>5 DEF Process, Analyze, Ask, Restart, RequestVersion, RequestEnqueues, EnqueueLost
<1>6. CASE RemoveVideo \/ Requeue \/ UNCHANGED vars
  <2>1. used' = used \/ Use("removals")
    BY <1>6 DEF RemoveVideo, Requeue, vars
  <2>. QED BY <1>1, <2>1 DEF Counters
<1>7. {"errors", "crashes", "lostLocks", "requests"} \subseteq Counters
  BY DEF Counters
<1>. QED BY <1>1, <1>2, <1>3, <1>4, <1>5, <1>6, <1>7 DEF Next

LEMMA CreditsFrame ==
    ASSUME CreditsInv, used'["lateRefunds"] = used["lateRefunds"], held' = held \/ held' = TRUE,
           used["lateRefunds"] = 0 /\ (video'.ready \/ video'.status = "READY") =>
              video.ready \/ video.status = "READY" \/ held',
           used["lateRefunds"] = 0 => \A v \in Slots : MidAnalysis(v)' => MidAnalysis(v) \/ held'
    PROVE  CreditsInv'
BY DEF CreditsInv

LEMMA CreditsStages ==
    ASSUME Shaped, CreditsInv, NEW w \in Slots, Ingest(w) \/ Transcription(w) \/ Analysis(w),
           used'["lateRefunds"] = used["lateRefunds"]
    PROVE  CreditsInv'
<1>1. Works(w) /\ held' = held
  BY StageRows
<1>2. ASSUME NEW v \in Slots, v # w PROVE MidAnalysis(v)' => MidAnalysis(v)
  BY <1>1, <1>2 DEF Works, Alone, MidAnalysis
<1>3. CASE Ingest(w) \/ Transcription(w)
  <2>1. task[w].job.queue # "analysis"
    BY <1>3 DEF Ingest, Transcription, At, IngestRead, EnsureTranscriptionJob, ClaimIngest, Probe,
                Prepare, ChooseVersion, FinishIngest, TranscriptionRead, EnsureTranscript,
                MarkProcessing, Transcribe, SaveTranscript, ActivateTranscript, DiscardAudio,
                FinishTranscription
  <2>2. video'.ready = video.ready /\ (video'.status = "READY" => video.status = "READY")
    <3>1. CASE Ingest(w)
      BY <3>1, IngestReadStep, EnsureTranscriptionJobStep, ClaimIngestStep, IngestWorkStep,
         ChooseVersionStep, FinishIngestStep DEF Ingest, rows, Moved, RowBecomes
    <3>2. CASE TranscriptionRead(w) \/ EnsureTranscript(w) \/ MarkProcessing(w) \/ Transcribe(w)
      BY <3>2, TranscriptionReadStep, EnsureTranscriptStep, MarkProcessingStep, TranscribeStep DEF rows
    <3>3. CASE SaveTranscript(w) \/ ActivateTranscript(w) \/ DiscardAudio(w) \/ FinishTranscription(w)
      BY <3>3, SaveTranscriptStep, ActivateTranscriptStep, DiscardAudioStep, FinishTranscriptionStep
      DEF rows, Moved, RowBecomes
    <3>. QED BY <1>3, <3>1, <3>2, <3>3 DEF Transcription
  <2>3. ~ MidAnalysis(w)'
    BY <1>1, <2>1 DEF Works, MidAnalysis
  <2>. QED BY <1>1, <1>2, <2>2, <2>3, CreditsFrame
<1>4. CASE AnalysisRead(w) \/ LoadTranscript(w) \/ FindMoments(w)
  <2>1. /\ UNCHANGED rows /\ task[w].job.queue = "analysis"
        /\ task'[w].pc \in {"load", "llm", "publish", "advance"} =>
              task[w].pc \in {"load", "llm"} \/ video.ready
    BY <1>4, AnalysisWorkStep
  <2>2. used["lateRefunds"] = 0 /\ MidAnalysis(w)' => MidAnalysis(w) \/ held'
    BY <1>1, <2>1 DEF MidAnalysis, CreditsInv
  <2>. QED BY <1>1, <1>2, <2>1, <2>2, CreditsFrame DEF rows
<1>5. CASE PublishCandidates(w)
  <2>1. /\ video' = video /\ task[w].pc = "publish" /\ task[w].job.queue = "analysis"
    BY <1>5 DEF PublishCandidates, At
  <2>. QED BY <1>1, <1>2, <2>1, CreditsFrame DEF MidAnalysis
<1>6. CASE FinishAnalysis(w)
  <2>1. task[w].pc = "advance" /\ task[w].job.queue = "analysis" /\ task'[w].pc = "done"
    BY <1>6, FinishAnalysisStep
  <2>2. used["lateRefunds"] = 0 => held
    BY <2>1 DEF CreditsInv, MidAnalysis
  <2>3. ~ MidAnalysis(w)'
    BY <2>1 DEF MidAnalysis
  <2>. QED BY <1>1, <1>2, <2>2, <2>3, CreditsFrame
<1>. QED BY <1>3, <1>4, <1>5, <1>6 DEF Analysis

LEMMA CreditsStep ==
    ASSUME Calm, CalmInv, CreditsInv, [Next]_vars
    PROVE  CreditsInv'
<1>0. Shaped /\ video \in Video /\ used["lateRefunds"] \in Nat
  <2>1. used \in [Counted -> Nat] /\ "lateRefunds" \in Counted
    BY Bounds DEF CalmInv, Shaped
  <2>. QED BY <2>1 DEF CalmInv, Shaped
<1>1. ASSUME NEW w \in Slots, Refund(w) PROVE CreditsInv'
  <2>1. /\ Works(w) /\ video' = video /\ task'[w].pc = "give-up" /\ held' = FALSE
        /\ used'["lateRefunds"] = IF held /\ Overtaken THEN used["lateRefunds"] + 1
                                  ELSE used["lateRefunds"]
    BY <1>0, <1>1, RefundStep
  <2>2. \A v \in Slots : MidAnalysis(v)' => MidAnalysis(v)
    BY <2>1 DEF Works, Alone, MidAnalysis
  <2>3. CASE held /\ Overtaken
    <3>1. used'["lateRefunds"] # 0
      BY <1>0, <2>1, <2>3
    <3>. QED BY <3>1 DEF CreditsInv
  <2>4. CASE ~ held
    <3>1. held' = held \/ held' = TRUE
      BY <2>1, <2>4 DEF CalmInv, Shaped
    <3>2. used'["lateRefunds"] = used["lateRefunds"]
      BY <2>1, <2>4
    <3>. QED BY <2>1, <2>2, <3>1, <3>2, CreditsFrame
  <2>5. CASE ~ Overtaken
    <3>1. video.status = "FAILED" /\ ~ video.ready
      BY <2>5 DEF Overtaken
    <3>2. ASSUME NEW v \in Slots, MidAnalysis(v) PROVE FALSE
      <4>1. InCharge(v) /\ task[v].pc # "idle"
        BY <3>2 DEF MidAnalysis, InCharge
      <4>2. Current(task[v].job) /\ task[v].job \in JobId
        BY <1>0, <4>1 DEF CalmInv, OwnerInv, Shaped, Remembers
      <4>. QED BY <1>0, <3>1, <4>2, CurrentIs
    <3>. QED BY <2>1, <2>2, <3>1, <3>2 DEF CreditsInv
  <2>. QED BY <2>3, <2>4, <2>5
<1>2. CASE \A w \in Slots : ~ Refund(w)
  <2>0. used'["lateRefunds"] = used["lateRefunds"]
    BY <1>0, <1>2, LateRefundsStay
  <2>1. ASSUME NEW w \in Slots, Ingest(w) \/ Transcription(w) \/ Analysis(w) PROVE CreditsInv'
    BY <1>0, <2>0, <2>1, CreditsStages
  <2>2. ASSUME NEW w \in Slots, Charge(w) PROVE CreditsInv'
    <3>1. /\ Works(w) /\ video' = video
          /\ \/ held' = TRUE
             \/ held' = held /\ task'[w].pc = "failing"
      BY <1>0, <2>2, ChargeStep
    <3>2. \A v \in Slots : MidAnalysis(v)' => MidAnalysis(v) \/ held'
      BY <3>1 DEF Works, Alone, MidAnalysis
    <3>. QED BY <2>0, <3>1, <3>2, CreditsFrame
  <2>3. ASSUME NEW w \in Slots, Enqueue(w) \/ FailRead(w) \/ FailVideo(w) PROVE CreditsInv'
    <3>1. /\ Works(w) /\ held' = held /\ video'.ready = video.ready
          /\ video'.status = "READY" => video.status = "READY"
          /\ task'[w].pc \in {"done", "fail", "give-up", "refund"}
      BY <1>0, <2>3, EnqueueStep, FailReadStep, FailVideoStep DEF rows, Moved, RowBecomes
    <3>2. \A v \in Slots : MidAnalysis(v)' => MidAnalysis(v)
      BY <3>1 DEF Works, Alone, MidAnalysis
    <3>. QED BY <2>0, <3>1, <3>2, CreditsFrame
  <2>4. ASSUME NEW w \in Slots,
               \/ Complete(w) \/ RetryLater(w) \/ GiveUp(w) \/ RecordFails(w)
               \/ Start(w) \/ CallFails(w) \/ BookkeepingFails(w)
        PROVE  CreditsInv'
    <3>1. /\ Alone(w) /\ UNCHANGED rows /\ task'[w].pc \in {"idle", "read", "failing", "give-up"}
      BY <1>0, <2>4, EndStep, StartStep, CallFailsStep, BookkeepingFailsStep DEF Works, Ends
    <3>2. \A v \in Slots : MidAnalysis(v)' => MidAnalysis(v)
      BY <3>1 DEF Alone, MidAnalysis
    <3>. QED BY <2>0, <3>1, <3>2, CreditsFrame DEF rows
  <2>5. ASSUME NEW w \in Slots, Execute(w) PROVE CreditsInv'
    BY <1>2, <2>1, <2>2, <2>3, <2>4, <2>5 DEF Execute, Failure
  <2>6. ASSUME NEW q \in Requests,
               \/ Process(q) \/ Analyze(q) \/ Restart(q)
               \/ RequestVersion(q) \/ RequestEnqueues(q) \/ EnqueueLost(q)
        PROVE  CreditsInv'
    <3>1. /\ held' = held /\ task' = task /\ video'.ready = video.ready
          /\ video'.status = "READY" => video.status = "READY"
      BY <1>0, <2>6, AskStep, RestartStep, RequestVersionStep, RequestEnqueuesStep, EnqueueLostStep
      DEF RowBecomes, rows
    <3>2. \A v \in Slots : MidAnalysis(v)' => MidAnalysis(v)
      BY <3>1 DEF MidAnalysis
    <3>. QED BY <2>0, <3>1, <3>2, CreditsFrame
  <2>7. CASE RemoveVideo \/ Requeue \/ UNCHANGED vars
    <3>1. video'.status = video.status /\ video'.ready = video.ready /\ UNCHANGED <<held, task>>
      BY <1>0, <2>7, RemoveVideoStep, RequeueStep DEF RowBecomes, rows, vars
    <3>2. \A v \in Slots : MidAnalysis(v)' => MidAnalysis(v)
      BY <3>1 DEF MidAnalysis
    <3>. QED BY <2>0, <3>1, <3>2, CreditsFrame
  <2>. QED BY <2>4, <2>5, <2>6, <2>7, NoFaults DEF Next
<1>. QED BY <1>1, <1>2

(* ReadyIsPaid (docs/billing.md:51, base.py:226-249, charge_video and
   analysis.py:36): through failures, refunds and retries, a video is READY
   only while its credits are taken, or after a refund that a retry overtook.
   Either nobody retries, and then every fault is allowed, or the executions
   are neither interrupted nor repeated.                                   *)
THEOREM ReadyIsPaidHolds ==
    ASSUME Bound.requests = 0 \/ Calm
    PROVE  Spec => []ReadyIsPaid
<1>1. CASE Bound.requests = 0
  BY <1>1, UnattendedIsPaid
<1>2. CASE Calm
  <2>1. Init => CreditsInv
    <3> SUFFICES ASSUME Init PROVE CreditsInv
      OBVIOUS
    <3>1. video.status = "QUEUED" /\ ~ video.ready
      BY DEF Init
    <3>. QED BY <3>1, InitShaped DEF CreditsInv, MidAnalysis
  <2>2. CalmInv /\ CreditsInv /\ [Next]_vars => CreditsInv'
    BY <1>2, CreditsStep
  <2>3. CalmInv /\ CreditsInv => ReadyIsPaid
    <3> SUFFICES ASSUME CalmInv, CreditsInv PROVE ReadyIsPaid
      OBVIOUS
    <3>1. used \in [Counted -> Nat] /\ "lateRefunds" \in Counted
      BY Bounds DEF CalmInv, Shaped
    <3>. QED BY <3>1 DEF CreditsInv, ReadyIsPaid
  <2>4. Spec => []CalmInv
    BY <1>2, CalmInvHolds
  <2>. QED BY <2>1, <2>2, <2>3, <2>4, PTL DEF Spec
<1>. QED BY <1>1, <1>2

-----------------------------------------------------------------------------
(* The numbers of the runs and of the transcripts' versions.               *)

LEMMA Finitely ==
    /\ \A S \in SUBSET Requests : IsFiniteSet(S) /\ Cardinality(S) \in Nat
    /\ \A S \in SUBSET Requests, q \in Requests :
          /\ q \in S => Cardinality(S \ {q}) = Cardinality(S) - 1
          /\ q \notin S => Cardinality(S \cup {q}) = Cardinality(S) + 1
BY FS_Subset, FS_CardinalityType, FS_AddElement, FS_RemoveElement, VideoAssumption

LEMMA CountedNumbers ==
    ASSUME Shaped
    PROVE  /\ video.run \in Nat /\ video.analysisRun \in Nat /\ used.requests \in Nat
           /\ Bound.requests \in Nat /\ Cardinality(Undecided) \in Nat
<1>1. used["requests"] \in Nat /\ Bound["requests"] \in Nat
  BY Bounds DEF Shaped, Counters
<1>2. Cardinality(Undecided) \in Nat
  BY Finitely DEF Undecided
<1>. QED BY <1>1, <1>2 DEF Shaped, Video

Early == {"QUEUED", "INGESTING", "TRANSCRIBING"}

LEMMA CountsFrame ==
    ASSUME CountsInv, used'["requests"] = used["requests"], Undecided' = Undecided,
           video'.run = video.run,
           \/ /\ video'.analysisRun = video.analysisRun
              /\ video'.status \in Early => video.status \in Early
              /\ video'.status \in {"ANALYZING", "READY"} => video.status \in {"ANALYZING", "READY"}
           \/ /\ video'.analysisRun = video.analysisRun + 1
              /\ video.status = "TRANSCRIBING" /\ video'.status = "ANALYZING",
           Shaped
    PROVE  CountsInv'
<1>1. /\ video.run \in Nat /\ video.analysisRun \in Nat /\ used.requests \in Nat
      /\ Bound.requests \in Nat /\ Cardinality(Undecided) \in Nat
  BY CountedNumbers
<1>2. PICK c : c = Cardinality(Undecided)
  OBVIOUS
<1>3. Cardinality(Undecided') = c /\ used'.requests = used.requests
  BY <1>2
<1>4. CASE /\ video'.analysisRun = video.analysisRun
           /\ video'.status \in Early => video.status \in Early
           /\ video'.status \in {"ANALYZING", "READY"} => video.status \in {"ANALYZING", "READY"}
  <2>1. /\ video'.status \in Early => video.analysisRun + c + 1 <= 1 + used.requests
        /\ video.analysisRun + c <= 1 + used.requests
    BY <1>1, <1>2, <1>4 DEF CountsInv, Early
  <2>. QED BY <1>1, <1>2, <1>3, <1>4, <2>1 DEF CountsInv, Early
<1>5. CASE /\ video'.analysisRun = video.analysisRun + 1
           /\ video.status = "TRANSCRIBING" /\ video'.status = "ANALYZING"
  BY <1>1, <1>2, <1>3, <1>5 DEF CountsInv
<1>. QED BY <1>4, <1>5

(* How an execution's step moves the row.                                  *)
LEMMA ExecutionRow ==
    ASSUME CalmInv, NEW w \in Slots, Execute(w)
    PROVE  /\ Alone(w) /\ request' = request /\ used'["requests"] = used["requests"]
           /\ video'.run = video.run /\ video'.deleted = video.deleted
           /\ \/ video'.status = video.status /\ video'.analysisRun = video.analysisRun
              \/ /\ video'.analysisRun = video.analysisRun /\ ~ video.deleted
                 /\ \/ video.status = "QUEUED" /\ video'.status = "INGESTING"
                    \/ video.status = "INGESTING" /\ video'.status = "TRANSCRIBING"
                    \/ video.status = "ANALYZING" /\ video'.status = "READY" /\ FinishAnalysis(w)
                    \/ video.status \in Processing /\ video'.status = "FAILED"
              \/ /\ video'.analysisRun = video.analysisRun + 1 /\ ~ video.deleted
                 /\ video.status = "TRANSCRIBING" /\ video'.status = "ANALYZING"
<1>0. Shaped
  BY DEF CalmInv
<1>1. CASE Ingest(w)
  BY <1>0, <1>1, IngestReadStep, EnsureTranscriptionJobStep, ClaimIngestStep, IngestWorkStep,
     ChooseVersionStep, FinishIngestStep DEF Ingest, Works, Quiet, rows, Moved, RowBecomes, CanMove
<1>2. CASE TranscriptionRead(w) \/ EnsureTranscript(w) \/ MarkProcessing(w) \/ Transcribe(w)
           \/ SaveTranscript(w) \/ ActivateTranscript(w) \/ DiscardAudio(w)
  BY <1>0, <1>2, TranscriptionReadStep, EnsureTranscriptStep, MarkProcessingStep, TranscribeStep,
     SaveTranscriptStep, ActivateTranscriptStep, DiscardAudioStep
  DEF Works, Quiet, rows, Moved, RowBecomes
<1>3. CASE FinishTranscription(w)
  <2>1. Transcribing(w) /\ Alone(w) /\ Quiet
    BY <1>0, <1>3, FinishTranscriptionStep DEF Works
  <2>2. task[w].seen.analysisRun = video.analysisRun
    BY <2>1 DEF CalmInv, WorkInv, StillStands
  <2>3. \/ UNCHANGED video
        \/ /\ CanMove({"TRANSCRIBING"})
           /\ RowBecomes("ANALYZING", video.run, video.analysisRun + 1, video.transcript,
                         video.ready, video.deleted)
    BY <1>0, <1>3, <2>2, FinishTranscriptionStep
  <2>. QED BY <2>1, <2>3 DEF Quiet, RowBecomes, CanMove
<1>4. CASE Analysis(w)
  BY <1>0, <1>4, AnalysisWorkStep, PublishCandidatesStep, FinishAnalysisStep
  DEF Analysis, Works, Quiet, rows, RowBecomes, CanMove
<1>5. CASE Charge(w) \/ Enqueue(w) \/ FailRead(w) \/ FailVideo(w) \/ Refund(w)
  BY <1>0, <1>5, ChargeStep, EnqueueStep, FailReadStep, FailVideoStep, RefundStep
  DEF Works, Quiet, rows, Moved, RowBecomes, CanMove
<1>6. CASE Complete(w) \/ RetryLater(w) \/ GiveUp(w)
  BY <1>0, <1>6, EndStep DEF Ends, rows
<1>. QED BY <1>1, <1>2, <1>3, <1>4, <1>5, <1>6 DEF Execute, Transcription, Failure

(* The steps around the executions.                                        *)
LEMMA AroundExecution ==
    ASSUME CalmInv, NEW w \in Slots, Start(w) \/ CallFails(w) \/ BookkeepingFails(w) \/ RecordFails(w)
    PROVE  UNCHANGED <<rows, request>> /\ used'["requests"] = used["requests"] /\ Alone(w)
BY StartStep, CallFailsStep, BookkeepingFailsStep, EndStep DEF CalmInv, Works, Ends

LEMMA AroundVideo ==
    ASSUME CalmInv, RemoveVideo \/ Requeue \/ UNCHANGED vars
    PROVE  /\ video'.status = video.status /\ video'.run = video.run
           /\ video'.analysisRun = video.analysisRun /\ video'.transcript = video.transcript
           /\ UNCHANGED <<transcripts, task, request>> /\ used'["requests"] = used["requests"]
BY RemoveVideoStep, RequeueStep DEF CalmInv, RowBecomes, rows, vars

LEMMA CountsStep ==
    ASSUME Calm, CalmInv, CountsInv, [Next]_vars
    PROVE  CountsInv'
<1>0. /\ Shaped /\ video.run \in Nat /\ video.analysisRun \in Nat /\ used.requests \in Nat
      /\ Bound.requests \in Nat /\ Cardinality(Undecided) \in Nat
  BY CountedNumbers DEF CalmInv
<1>1. ASSUME NEW w \in Slots, Execute(w) PROVE CountsInv'
  BY <1>0, <1>1, ExecutionRow, CountsFrame DEF Early, Undecided, Processing
<1>2. ASSUME NEW w \in Slots, Start(w) \/ CallFails(w) \/ BookkeepingFails(w) \/ RecordFails(w)
      PROVE  CountsInv'
  BY <1>0, <1>2, AroundExecution, CountsFrame DEF Undecided, rows
<1>3. CASE RemoveVideo \/ Requeue \/ UNCHANGED vars
  BY <1>0, <1>3, AroundVideo, CountsFrame DEF Undecided
<1>4. ASSUME NEW q \in Requests, Process(q) \/ Analyze(q) PROVE CountsInv'
  <2>1. /\ Else(q) /\ UNCHANGED rows /\ request[q].pc = "idle" /\ request'[q].pc = "transition"
        /\ used.requests < Bound.requests /\ used'["requests"] = used["requests"] + 1
    BY <1>0, <1>4, AskStep
  <2>2. Undecided' = Undecided \cup {q} /\ q \notin Undecided
    BY <2>1 DEF Undecided, Else
  <2>3. Cardinality(Undecided') = Cardinality(Undecided) + 1
    BY <2>2, Finitely DEF Undecided
  <2>4. used'.requests = used.requests + 1 /\ video' = video
    BY <2>1 DEF rows
  <2>. QED BY <1>0, <2>1, <2>3, <2>4 DEF CountsInv
<1>5. ASSUME NEW q \in Requests, Restart(q) PROVE CountsInv'
  <2>1. /\ Else(q) /\ used' = used /\ request[q].pc = "transition" /\ request'[q].pc # "transition"
        /\ \/ UNCHANGED video
           \/ /\ video.status = "FAILED" /\ video'.status \in Early
              /\ video'.run = video.run + 1 /\ video'.analysisRun = video.analysisRun
           \/ /\ video.status \in {"READY", "FAILED"} /\ video'.status = "ANALYZING"
              /\ video'.run = video.run /\ video'.analysisRun = video.analysisRun + 1
    BY <1>0, <1>5, RestartStep DEF RowBecomes, CanMove, Early
  <2>2. Undecided' = Undecided \ {q} /\ q \in Undecided
    BY <2>1 DEF Undecided, Else
  <2>3. Cardinality(Undecided') = Cardinality(Undecided) - 1
    BY <2>2, Finitely DEF Undecided
  <2>4. PICK c \in Nat : c = Cardinality(Undecided)
    BY <1>0
  <2>5. CASE UNCHANGED video
    BY <1>0, <2>1, <2>3, <2>4, <2>5 DEF CountsInv
  <2>6. CASE /\ video.status = "FAILED" /\ video'.status \in Early
             /\ video'.run = video.run + 1 /\ video'.analysisRun = video.analysisRun
    BY <1>0, <2>1, <2>3, <2>4, <2>6 DEF CountsInv, Early
  <2>7. CASE /\ video.status \in {"READY", "FAILED"} /\ video'.status = "ANALYZING"
             /\ video'.run = video.run /\ video'.analysisRun = video.analysisRun + 1
    BY <1>0, <2>1, <2>3, <2>4, <2>7 DEF CountsInv
  <2>. QED BY <2>1, <2>5, <2>6, <2>7
<1>6. ASSUME NEW q \in Requests, RequestVersion(q) \/ RequestEnqueues(q) \/ EnqueueLost(q)
      PROVE  CountsInv'
  <2>1. /\ Else(q) /\ UNCHANGED <<rows, used>> /\ request[q].pc # "transition"
        /\ request'[q].pc # "transition"
    BY <1>0, <1>6, RequestVersionStep, RequestEnqueuesStep, EnqueueLostStep DEF EnqueueLost
  <2>2. Undecided' = Undecided
    BY <2>1 DEF Undecided, Else
  <2>. QED BY <1>0, <2>1, <2>2, CountsFrame DEF rows
<1>. QED BY <1>1, <1>2, <1>3, <1>4, <1>5, <1>6, NoFaults DEF Next

LEMMA CountsInit == Init => CountsInv
<1> SUFFICES ASSUME Init PROVE CountsInv
  OBVIOUS
<1>1. Undecided = {}
  BY InitShaped DEF Undecided
<1>2. used["requests"] = 0 /\ Bound["requests"] \in Nat
  BY InitShaped, Bounds DEF Counters
<1>3. video.run = 1 /\ video.analysisRun = 0 /\ video.status = "QUEUED"
  BY DEF Init
<1>4. Cardinality(Undecided) = 0
  BY <1>1, FS_EmptySet
<1>. QED BY <1>2, <1>3, <1>4 DEF CountsInv

-----------------------------------------------------------------------------
(* The versions stay below the runs.                                       *)

(* next_transcript_version, of a run that has no transcription job yet.    *)
LEMMA NextFits ==
    ASSUME CalmInv, CountsInv, VersionsInv, NoTranscriptionOf(video.run)
    PROVE  NextVersion \in 1 .. video.run
<1>1. Shaped /\ KnownInv /\ video.run \in Nat /\ 1 <= video.run
  BY CountedNumbers DEF CalmInv, CountsInv
<1>2. PICK next : next = NextVersion
  OBVIOUS
<1>3. CASE next = 1
  BY <1>1, <1>2, <1>3
<1>4. ASSUME NEW n \in Versions, transcripts[n] # "none", next \in {n, n + 1} PROVE next \in 1 .. video.run
  <2>1. PICK id \in DOMAIN jobs : id.queue = "transcription" /\ id.n = n
    BY <1>4 DEF VersionsInv
  <2>2. id \in Known /\ id \in JobId
    BY <1>1, KnownIds
  <2>3. id.n \in 1 .. id.run /\ id.run <= video.run /\ id.run # video.run
    BY <1>1, <2>1, <2>2 DEF VersionsInv, KnownInv, NoTranscriptionOf
  <2>4. id.run \in Nat /\ n \in Nat
    BY <2>2 DEF JobId, Versions
  <2>. QED BY <1>1, <1>4, <2>1, <2>3, <2>4
<1>. QED BY <1>1, <1>2, <1>3, <1>4, NextVersionIs

FewVersions(id) == id.queue = "transcription" => id.n \in 1 .. id.run

Transcribed(n) == \E id \in DOMAIN jobs : id.queue = "transcription" /\ id.n = n

LEMMA VersionsFrame ==
    ASSUME VersionsInv, NEW w \in Slots, Alone(w), video'.run = video.run,
           video'.transcript = video.transcript \/ video'.transcript <= video.run,
           Numbered(w)', DOMAIN jobs \subseteq DOMAIN jobs',
           \A id \in Known' : id \in Known \/ FewVersions(id),
           \A n \in Versions : transcripts'[n] # "none" => transcripts[n] # "none" \/ Transcribed(n)
    PROVE  VersionsInv'
<1>1. video'.transcript <= video'.run
  BY DEF VersionsInv
<1>2. \A id \in Known' : id.queue = "transcription" => id.n \in 1 .. id.run
  BY DEF VersionsInv, FewVersions
<1>3. \A n \in Versions : transcripts'[n] # "none" =>
         \E id \in DOMAIN jobs' : id.queue = "transcription" /\ id.n = n
  BY DEF VersionsInv, Transcribed
<1>4. ASSUME NEW v \in Slots PROVE Numbered(v)'
  BY DEF VersionsInv, Numbered, At, Alone
<1>. QED BY <1>1, <1>2, <1>3, <1>4 DEF VersionsInv

LEMMA VersionsQuiet ==
    ASSUME VersionsInv, NEW w \in Slots, Alone(w), video'.run = video.run,
           video'.transcript = video.transcript, Numbered(w)',
           UNCHANGED <<jobs, request, transcripts>>
    PROVE  VersionsInv'
BY VersionsFrame, KnownStays

LEMMA VersionsIngest ==
    ASSUME CalmInv, CountsInv, VersionsInv, NEW w \in Slots, Ingest(w)
    PROVE  VersionsInv'
<1>0. /\ Shaped /\ KnownInv /\ WorkInv /\ StillStands(w) /\ video \in Video /\ Numbered(w)
      /\ task[w].job.queue = "ingest" /\ InCharge(w) /\ video.run \in Nat
  BY CountedNumbers DEF CalmInv, WorkInv, VersionsInv, Shaped, Ingest, IngestRead, EnsureTranscriptionJob,
     ClaimIngest, Probe, Prepare, ChooseVersion, FinishIngest, At, InCharge
<1>1. \/ video.status \in {"QUEUED", "INGESTING"}
      \/ video.status = "TRANSCRIBING" /\ NoTranscriptionOf(video.run)
  BY <1>0, SoleCharge, CurrentIs
<1>2. NoTranscriptionOf(video.run)
  BY <1>0, <1>1 DEF KnownInv
<1>3. PICK next : next = NextVersion
  OBVIOUS
<1>4. next \in 1 .. video.run /\ next \in Nat
  BY <1>2, <1>3, NextFits
<1>5. CASE IngestRead(w) \/ (Probe(w) \/ Prepare(w))
  <2>1. /\ Works(w) /\ Quiet /\ UNCHANGED rows
        /\ task'[w].pc \in {"done", "claim", "probe", "ensure-next", "charge", "version"}
    BY <1>0, <1>5, IngestReadStep, IngestWorkStep
  <2>2. Numbered(w)'
    BY <2>1 DEF Numbered, At
  <2>. QED BY <2>1, <2>2, VersionsQuiet DEF Works, Quiet, rows
<1>6. CASE ClaimIngest(w)
  <2>1. /\ Works(w) /\ Quiet /\ UNCHANGED transcripts /\ task'[w].pc \in {"probe", "done"}
        /\ video'.run = video.run /\ video'.transcript = video.transcript
    BY <1>0, <1>6, ClaimIngestStep DEF Moved, RowBecomes
  <2>2. Numbered(w)'
    BY <2>1 DEF Numbered, At
  <2>. QED BY <2>1, <2>2, VersionsQuiet DEF Works, Quiet
<1>7. CASE EnsureTranscriptionJob(w)
  <2>1. /\ Works(w) /\ Quiet /\ UNCHANGED rows /\ task'[w].pc = "enqueue"
        /\ At(w, "ingest", "ensure-next")
        /\ task'[w].next = Enqueuing(TranscriptionJob(next, task[w].seen.run), None)
    BY <1>0, <1>3, <1>7, EnsureTranscriptionJobStep DEF At
  <2>2. task'[w].next.id.n = next
    BY <2>1 DEF Enqueuing, TranscriptionJob
  <2>3. Numbered(w)'
    BY <1>4, <2>1, <2>2 DEF Numbered, At, rows
  <2>. QED BY <2>1, <2>3, VersionsQuiet DEF Works, Quiet, rows
<1>8. CASE ChooseVersion(w)
  <2>1. /\ Works(w) /\ Quiet /\ UNCHANGED rows /\ task'[w].pc = "advance" /\ task'[w].version = next
    BY <1>0, <1>3, <1>8, ChooseVersionStep
  <2>2. Numbered(w)'
    BY <1>4, <2>1 DEF Numbered, At, rows
  <2>. QED BY <2>1, <2>2, VersionsQuiet DEF Works, Quiet, rows
<1>9. CASE FinishIngest(w)
  <2>1. /\ Works(w) /\ Quiet /\ UNCHANGED transcripts /\ At(w, "ingest", "advance")
        /\ video'.run = video.run /\ video'.transcript = video.transcript
        /\ \/ /\ task'[w].pc = "enqueue"
              /\ task'[w].next = Enqueuing(TranscriptionJob(task[w].version, video.run), None)
           \/ task'[w].pc = "done"
    BY <1>0, <1>9, FinishIngestStep DEF Moved, RowBecomes, At
  <2>2. task[w].version \in 1 .. video.run
    BY <1>0, <2>1 DEF Numbered
  <2>3. task'[w].pc = "enqueue" => task'[w].next.id.n = task[w].version
    BY <2>1 DEF Enqueuing, TranscriptionJob
  <2>4. Numbered(w)'
    BY <2>1, <2>2, <2>3 DEF Numbered, At
  <2>. QED BY <2>1, <2>4, VersionsQuiet DEF Works, Quiet
<1>. QED BY <1>5, <1>6, <1>7, <1>8, <1>9 DEF Ingest

LEMMA VersionsTranscription ==
    ASSUME CalmInv, CountsInv, VersionsInv, NEW w \in Slots, Transcription(w)
    PROVE  VersionsInv'
<1>0. /\ Shaped /\ task[w].job.queue = "transcription" /\ InCharge(w) /\ video.run \in Nat
  BY CountedNumbers DEF CalmInv, Transcription, TranscriptionRead, EnsureTranscript,
     MarkProcessing, Transcribe, SaveTranscript, ActivateTranscript, DiscardAudio, FinishTranscription,
     At, InCharge
<1>1. task[w].job \in DOMAIN jobs /\ task[w].job \in Known /\ task[w].job.run = video.run
  BY <1>0, SoleCharge, CurrentIs, KnownIds
<1>2. task[w].job.n \in 1 .. video.run
  BY <1>0, <1>1 DEF VersionsInv
<1>3. Transcribed(task[w].job.n)
  BY <1>0, <1>1 DEF Transcribed
<1>4. /\ Works(w) /\ UNCHANGED <<jobs, request>>
      /\ \A n \in Versions : transcripts'[n] # "none" => transcripts[n] # "none" \/ n = task[w].job.n
      /\ video'.run = video.run
      /\ video'.transcript = video.transcript \/ video'.transcript = task[w].job.n
  <2>1. CASE TranscriptionRead(w) \/ EnsureTranscript(w)
    BY <1>0, <2>1, TranscriptionReadStep, EnsureTranscriptStep DEF Quiet, rows
  <2>2. CASE MarkProcessing(w) \/ Transcribe(w) \/ SaveTranscript(w)
    BY <1>0, <2>2, MarkProcessingStep, TranscribeStep, SaveTranscriptStep, TranscriptWritten DEF Quiet
  <2>3. CASE ActivateTranscript(w) \/ DiscardAudio(w) \/ FinishTranscription(w)
    BY <1>0, <2>3, ActivateTranscriptStep, DiscardAudioStep, FinishTranscriptionStep
    DEF Quiet, Moved, RowBecomes
  <2>. QED BY <2>1, <2>2, <2>3 DEF Transcription
<1>5. Numbered(w)'
  BY <1>0, <1>4 DEF Numbered, At, Works
<1>6. video'.transcript = video.transcript \/ video'.transcript <= video.run
  BY <1>0, <1>2, <1>4
<1>7. Known' = Known
  BY <1>4, KnownStays
<1>. QED BY <1>3, <1>4, <1>5, <1>6, <1>7, VersionsFrame DEF Works

LEMMA VersionsAround ==
    ASSUME CalmInv, VersionsInv, NEW w \in Slots,
           \/ Analysis(w) \/ Charge(w) \/ Failure(w) \/ Complete(w)
           \/ Start(w) \/ CallFails(w) \/ BookkeepingFails(w) \/ RecordFails(w)
    PROVE  VersionsInv'
<1>0. Shaped
  BY DEF CalmInv
<1>1. CASE Analysis(w)
  <2>1. /\ Works(w) /\ Quiet /\ UNCHANGED transcripts /\ task[w].job.queue = "analysis"
        /\ video'.run = video.run /\ video'.transcript = video.transcript
    BY <1>0, <1>1, AnalysisWorkStep, PublishCandidatesStep, FinishAnalysisStep
    DEF Analysis, rows, RowBecomes
  <2>2. Numbered(w)'
    BY <2>1 DEF Numbered, At, Works
  <2>. QED BY <2>1, <2>2, VersionsQuiet DEF Works, Quiet
<1>2. CASE Charge(w) \/ FailRead(w) \/ FailVideo(w) \/ Refund(w) \/ CallFails(w) \/ BookkeepingFails(w)
  <2>1. /\ Works(w) /\ UNCHANGED <<jobs, request, transcripts>>
        /\ task'[w].pc \notin {"advance", "enqueue"}
        /\ video'.run = video.run /\ video'.transcript = video.transcript
    BY <1>0, <1>2, ChargeStep, FailReadStep, FailVideoStep, RefundStep, CallFailsStep, BookkeepingFailsStep
    DEF Quiet, rows, Moved, RowBecomes
  <2>2. Numbered(w)'
    BY <2>1 DEF Numbered, At
  <2>. QED BY <2>1, <2>2, VersionsQuiet DEF Works
<1>3. CASE Complete(w) \/ RetryLater(w) \/ GiveUp(w) \/ RecordFails(w) \/ Start(w)
  <2>1. /\ Alone(w) /\ UNCHANGED <<rows, request>> /\ DOMAIN jobs' = DOMAIN jobs
        /\ task'[w].pc \in {"idle", "read"}
    BY <1>0, <1>3, EndStep, StartStep DEF Ends, OnlyJob
  <2>2. Numbered(w)'
    BY <2>1 DEF Numbered, At
  <2>3. Known' = Known
    BY <2>1 DEF Known
  <2>. QED BY <2>1, <2>2, <2>3, VersionsFrame DEF rows
<1>. QED BY <1>1, <1>2, <1>3 DEF Failure

LEMMA VersionsEnqueue ==
    ASSUME CalmInv, VersionsInv, NEW w \in Slots, Enqueue(w)
    PROVE  VersionsInv'
<1>0. Shaped /\ StillStands(w) /\ Numbered(w)
  BY DEF CalmInv, WorkInv, VersionsInv
<1>. PICK id : id = task[w].next.id
  OBVIOUS
<1>1. /\ Works(w) /\ UNCHANGED <<rows, request, used>> /\ task[w].pc = "enqueue" /\ task'[w].pc = "done"
      /\ DOMAIN jobs' = DOMAIN jobs \cup {id}
  BY <1>0, EnqueueStep
<1>2. FewVersions(id)
  <2>1. CASE task[w].job.queue = "ingest"
    BY <1>0, <1>1, <2>1 DEF StillStands, Numbered, FewVersions
  <2>2. CASE task[w].job.queue = "transcription"
    BY <1>0, <1>1, <2>2 DEF StillStands, FewVersions, Enqueuing, AnalysisJob
  <2>. QED BY <1>0, <1>1, <2>1, <2>2 DEF StillStands
<1>3. Known' = Known \cup {id}
  BY <1>1, KnownGrows
<1>4. Numbered(w)'
  BY <1>1 DEF Numbered, At
<1>. QED BY <1>1, <1>2, <1>3, <1>4, VersionsFrame DEF Works, rows

(* The steps of the requests and of the janitor touch no execution.        *)
LEMMA VersionsAsked ==
    ASSUME VersionsInv, video.run \in Nat, video'.run \in {video.run, video.run + 1},
           video.transcript \in Nat, video'.transcript = video.transcript, UNCHANGED <<task, transcripts>>,
           DOMAIN jobs \subseteq DOMAIN jobs', \A id \in Known' : id \in Known \/ FewVersions(id)
    PROVE  VersionsInv'
<1>1. video'.transcript <= video'.run
  BY DEF VersionsInv
<1>2. \A id \in Known' : id.queue = "transcription" => id.n \in 1 .. id.run
  BY DEF VersionsInv, FewVersions
<1>3. \A n \in Versions : transcripts'[n] # "none" =>
         \E id \in DOMAIN jobs' : id.queue = "transcription" /\ id.n = n
  BY DEF VersionsInv
<1>4. 1 .. video.run \subseteq 1 .. video'.run
  OBVIOUS
<1>5. ASSUME NEW w \in Slots PROVE Numbered(w)'
  BY <1>4 DEF VersionsInv, Numbered, At
<1>. QED BY <1>1, <1>2, <1>3, <1>5 DEF VersionsInv

LEMMA VersionsRequests ==
    ASSUME CalmInv, CountsInv, VersionsInv,
           \/ \E q \in Requests : \/ Process(q) \/ Analyze(q) \/ Restart(q) \/ RequestVersion(q)
                                  \/ RequestEnqueues(q) \/ EnqueueLost(q)
           \/ RemoveVideo \/ Requeue \/ UNCHANGED vars
    PROVE  VersionsInv'
<1>0. Shaped /\ KnownInv /\ video \in Video /\ video.run \in Nat /\ video.transcript \in Nat
      /\ video.analysisRun \in Nat
  BY DEF CalmInv, Shaped, Video
<1>1. ASSUME NEW q \in Requests, Process(q) \/ Analyze(q) \/ EnqueueLost(q) PROVE VersionsInv'
  <2>1. Else(q) /\ UNCHANGED <<rows, jobs, task>> /\ request'[q].pc # "enqueue"
    BY <1>0, <1>1, AskStep, EnqueueLostStep
  <2>2. Known' \subseteq Known
    BY <2>1, KnownAsked
  <2>. QED BY <1>0, <2>1, <2>2, VersionsAsked DEF rows
<1>2. ASSUME NEW q \in Requests, Restart(q) PROVE VersionsInv'
  <2>1. /\ Else(q) /\ UNCHANGED <<transcripts, jobs, task>> /\ request[q].pc = "transition"
        /\ video'.run \in {video.run, video.run + 1} /\ video'.transcript = video.transcript
        /\ \/ request'[q].pc # "enqueue"
           \/ request'[q].next = Enqueuing(IngestJob(video.run + 1), None)
           \/ request'[q].next = Enqueuing(AnalysisJob(video.analysisRun + 1), video.transcript)
    BY <1>0, <1>2, RestartStep DEF RowBecomes
  <2>2. request'[q].pc = "enqueue" => FewVersions(request'[q].next.id)
    BY <2>1 DEF FewVersions, Enqueuing, IngestJob, AnalysisJob
  <2>3. \A id \in Known' : id \in Known \/ FewVersions(id)
    BY <2>1, <2>2, KnownAsked
  <2>. QED BY <1>0, <2>1, <2>3, VersionsAsked
<1>3. ASSUME NEW q \in Requests, RequestVersion(q) PROVE VersionsInv'
  <2>1. PICK next : next = NextVersion
    OBVIOUS
  <2>2. /\ Else(q) /\ UNCHANGED <<rows, jobs, task>> /\ request[q].pc = "version"
        /\ request'[q].pc = "enqueue"
        /\ request'[q].next = Enqueuing(TranscriptionJob(next, request[q].run), None)
    BY <1>0, <1>3, <2>1, RequestVersionStep
  <2>3. request[q].run = video.run /\ NoTranscriptionOf(video.run)
    BY <1>0, <2>2 DEF KnownInv, NoTranscriptionOf
  <2>4. next \in 1 .. video.run
    BY <2>1, <2>3, NextFits
  <2>5. FewVersions(request'[q].next.id)
    BY <2>2, <2>3, <2>4 DEF FewVersions, Enqueuing, TranscriptionJob
  <2>6. \A id \in Known' : id \in Known \/ FewVersions(id)
    BY <2>2, <2>5, KnownAsked
  <2>. QED BY <1>0, <2>2, <2>6, VersionsAsked DEF rows
<1>4. ASSUME NEW q \in Requests, RequestEnqueues(q) PROVE VersionsInv'
  <2>1. /\ Else(q) /\ UNCHANGED <<rows, task>> /\ request[q].pc = "enqueue" /\ request'[q].pc = "idle"
        /\ DOMAIN jobs' = DOMAIN jobs \cup {request[q].next.id}
    BY <1>0, <1>4, RequestEnqueuesStep
  <2>2. Known' = Known
    BY <2>1, KnownMoves
  <2>. QED BY <1>0, <2>1, <2>2, VersionsAsked DEF rows
<1>5. CASE RemoveVideo \/ UNCHANGED vars
  <2>1. /\ video'.run = video.run /\ video'.transcript = video.transcript
        /\ UNCHANGED <<transcripts, task, request, jobs>>
    BY <1>0, <1>5, RemoveVideoStep DEF RowBecomes, vars, rows
  <2>2. Known' = Known
    BY <2>1, KnownStays
  <2>. QED BY <1>0, <2>1, <2>2, VersionsAsked
<1>6. CASE Requeue
  <2>1. /\ UNCHANGED <<rows, task, request>>
        /\ DOMAIN jobs' = DOMAIN jobs \cup {IngestJob(video.run)}
    BY <1>0, <1>6, RequeueStep
  <2>2. Known' = Known \cup {IngestJob(video.run)}
    BY <2>1, KnownGrows
  <2>3. FewVersions(IngestJob(video.run))
    BY DEF FewVersions, IngestJob
  <2>. QED BY <1>0, <2>1, <2>2, <2>3, VersionsAsked DEF rows
<1>. QED BY <1>1, <1>2, <1>3, <1>4, <1>5, <1>6

LEMMA VersionsStep ==
    ASSUME Calm, CalmInv, CountsInv, VersionsInv, [Next]_vars
    PROVE  VersionsInv'
<1>1. ASSUME NEW w \in Slots, Execute(w) PROVE VersionsInv'
  BY <1>1, VersionsIngest, VersionsTranscription, VersionsEnqueue, VersionsAround DEF Execute
<1>2. ASSUME NEW w \in Slots, Start(w) \/ CallFails(w) \/ BookkeepingFails(w) \/ RecordFails(w)
      PROVE  VersionsInv'
  BY <1>2, VersionsAround
<1>. QED BY <1>1, <1>2, VersionsRequests, NoFaults DEF Next

LEMMA VersionsInit == Init => VersionsInv
<1> SUFFICES ASSUME Init PROVE VersionsInv
  OBVIOUS
<1>1. video.transcript = 0 /\ video.run = 1 /\ \A n \in Versions : transcripts[n] = "none"
  BY DEF Init
<1>2. /\ \A w \in Slots : task[w].pc = "idle"
      /\ \A q \in Requests : request[q].pc = "enqueue" => request[q].next.id = IngestJob(1)
  BY InitShaped
<1>3. DOMAIN jobs = {}
  BY DEF Init
<1>4. \A id \in Known : id = IngestJob(1)
  BY <1>2, <1>3 DEF Known
<1>. QED BY <1>1, <1>2, <1>4 DEF VersionsInv, Numbered, At, IngestJob

CountedInv == CalmInv /\ CountsInv /\ VersionsInv

(* What the numbers of a calm video are worth.                             *)
LEMMA CountedInvHolds ==
    ASSUME Calm
    PROVE  Spec => []CountedInv
<1>1. Init => CountedInv
  BY CalmInit, CountsInit, VersionsInit DEF CountedInv
<1>2. CountedInv /\ [Next]_vars => CountedInv'
  BY CalmStep, CountsStep, VersionsStep DEF CountedInv
<1>. QED BY <1>1, <1>2, PTL DEF Spec

(* The numbers are bounded by what was asked for.                          *)
LEMMA NumbersFit ==
    ASSUME RoomForRuns, CountedInv
    PROVE  /\ video.run \in 1 .. MaxRuns /\ video.analysisRun \in 0 .. MaxRuns
           /\ video.transcript \in 0 .. MaxRuns
           /\ video.status \in {"ANALYZING", "READY"} => video.analysisRun \in Versions
<1>1. /\ Shaped /\ video.run \in Nat /\ video.analysisRun \in Nat /\ used.requests \in Nat
      /\ Bound.requests \in Nat /\ Cardinality(Undecided) \in Nat
  BY CountedNumbers DEF CountedInv, CalmInv
<1>2. video.transcript \in Nat /\ MaxRuns \in Nat /\ 1 + Bound.requests <= MaxRuns
  BY <1>1, VideoAssumption DEF Shaped, Video, RoomForRuns
<1>3. PICK c \in Nat : c = Cardinality(Undecided)
  BY <1>1
<1>4. /\ used.requests <= Bound.requests /\ 1 <= video.run
      /\ video.run + c <= 1 + used.requests /\ video.analysisRun + c <= 1 + used.requests
      /\ video.status \in {"ANALYZING", "READY"} => 1 <= video.analysisRun
      /\ video.transcript <= video.run
  <2>1. \E n \in {0, 1} : video.analysisRun + c + n <= 1 + used.requests
    BY <1>3 DEF CountedInv, CountsInv
  <2>2. video.analysisRun + c <= 1 + used.requests
    BY <1>1, <1>3, <2>1
  <2>. QED BY <1>3, <2>2 DEF CountedInv, CountsInv, VersionsInv
<1>5. /\ video.run <= MaxRuns /\ video.analysisRun <= MaxRuns
  BY <1>1, <1>2, <1>3, <1>4
<1>6. video.transcript <= MaxRuns
  BY <1>1, <1>2, <1>4, <1>5
<1>. QED BY <1>1, <1>2, <1>4, <1>5, <1>6 DEF Versions

(* TypeOK: every counter of the row stays within the runs that were asked
   for, no transcript, candidate or job is left in a state of its own, an
   execution's job exists and an active job is some slot's.                *)
THEOREM TypeOKHolds ==
    ASSUME Calm, RoomForRuns
    PROVE  Spec => []TypeOK
<1>1. CountedInv => TypeOK
  <2> SUFFICES ASSUME CountedInv PROVE TypeOK
    OBVIOUS
  <2>1. Shaped /\ OwnerInv
    BY DEF CountedInv, CalmInv
  <2>2. {video.run, video.analysisRun, video.transcript} \subseteq 0 .. MaxRuns
    BY NumbersFit
  <2>3. /\ video.status \in Processing \cup {"READY", "FAILED"}
        /\ video.failedStage \in Processing \cup {None}
        /\ {video.deleted, video.audio, video.ready, video.retryable, held} \subseteq BOOLEAN
    BY <2>1 DEF Shaped, Video, Statuses
  <2>4. \A n \in Versions :
           /\ transcripts[n] \in {"none", "PENDING", "PROCESSING", "COMPLETED", "FAILED"}
           /\ candidates[n] \in {"none", "live", "superseded"}
    BY <2>1 DEF Shaped
  <2>5. \A w \in Slots : task[w].pc # "idle" => task[w].job \in DOMAIN jobs
    BY <2>1 DEF Shaped, Remembers
  <2>6. \A id \in DOMAIN jobs : jobs[id].state = "active" => jobs[id].slot \in Slots
    BY <2>1 DEF OwnerInv
  <2>. QED BY <2>2, <2>3, <2>4, <2>5, <2>6 DEF TypeOK
<1>. QED BY <1>1, CountedInvHolds, PTL

-----------------------------------------------------------------------------
(* The owner sees VideoLifecycle.                                          *)

LEMMA Unpublished ==
    ASSUME CalmInv, NEW w \in Slots, Execute(w), ~ PublishCandidates(w)
    PROVE  /\ candidates' = candidates
           /\ At(w, "analysis", "advance")' => At(w, "analysis", "advance")
<1>0. Shaped
  BY DEF CalmInv
<1>1. CASE Ingest(w)
  <2>1. Works(w) /\ candidates' = candidates /\ task[w].job.queue = "ingest"
    BY <1>0, <1>1, IngestReadStep, EnsureTranscriptionJobStep, ClaimIngestStep, IngestWorkStep,
       ChooseVersionStep, FinishIngestStep DEF Ingest, rows, IngestRead, At
  <2>. QED BY <2>1 DEF Works, At
<1>2. CASE Transcription(w)
  <2>1. Works(w) /\ candidates' = candidates /\ task[w].job.queue = "transcription"
    BY <1>0, <1>2, TranscriptionReadStep, EnsureTranscriptStep, MarkProcessingStep, TranscribeStep,
       SaveTranscriptStep, ActivateTranscriptStep, DiscardAudioStep, FinishTranscriptionStep
    DEF Transcription, rows, Transcribing
  <2>. QED BY <2>1 DEF Works, At
<1>3. CASE Analysis(w)
  <2>1. Works(w) /\ candidates' = candidates /\ task'[w].pc # "advance"
    BY <1>0, <1>3, AnalysisWorkStep, FinishAnalysisStep DEF Analysis, rows
  <2>. QED BY <2>1 DEF At
<1>4. CASE Charge(w) \/ Enqueue(w) \/ FailRead(w) \/ FailVideo(w) \/ Refund(w)
  <2>1. candidates' = candidates /\ task'[w].pc # "advance"
    BY <1>0, <1>4, ChargeStep, EnqueueStep, FailReadStep, FailVideoStep, RefundStep DEF rows
  <2>. QED BY <2>1 DEF At
<1>5. CASE Complete(w) \/ RetryLater(w) \/ GiveUp(w)
  <2>1. candidates' = candidates /\ task'[w].pc # "advance"
    BY <1>0, <1>5, EndStep DEF Ends, rows
  <2>. QED BY <2>1 DEF At
<1>. QED BY <1>1, <1>2, <1>3, <1>4, <1>5 DEF Execute, Failure

LEMMA PublishedFrame ==
    ASSUME PublishedInv, candidates' = candidates, video'.deleted = video.deleted,
           \A v \in Slots : At(v, "analysis", "advance")' =>
              At(v, "analysis", "advance") /\ video'.analysisRun = video.analysisRun
    PROVE  PublishedInv'
BY DEF PublishedInv, Published

Shown == {r \in Versions : candidates[r] = "live" /\ ~ video.deleted}

(* What the owner sees, by name.                                           *)
LEMMA Seen ==
    ASSUME video'.status = video.status, video'.run = video.run,
           video'.analysisRun = video.analysisRun, video'.deleted = video.deleted, Shown' = Shown
    PROVE  UNCHANGED Lifecycle!vars
BY DEF Lifecycle!vars, Shown

LEMMA LifecyclePublish ==
    ASSUME RoomForRuns, CountedInv, PublishedInv, NEW w \in Slots, PublishCandidates(w)
    PROVE  [Lifecycle!Next]_(Lifecycle!vars) /\ PublishedInv'
<1>0. CalmInv /\ Shaped
  BY DEF CountedInv, CalmInv
<1>1. /\ Works(w) /\ UNCHANGED video /\ task[w].pc = "publish" /\ task[w].job.queue = "analysis"
      /\ \A r \in Versions : candidates'[r] = "live" <=> r = task[w].job.n
  BY <1>0, PublishCandidatesStep
<1>2. InCharge(w)
  BY <1>1 DEF InCharge
<1>3. video.status = "ANALYZING" /\ task[w].job = AnalysisJob(video.analysisRun)
  BY <1>0, <1>1, <1>2, SoleCharge, CurrentIs
<1>4. task[w].job.n = video.analysisRun /\ video.analysisRun \in Versions
  BY <1>3, NumbersFit DEF AnalysisJob
<1>5. {r \in Versions : candidates'[r] = "live"} = {video.analysisRun}
  BY <1>1, <1>4
<1>6. PublishedInv'
  BY <1>1, <1>5 DEF PublishedInv, Published
<1>7. CASE video.deleted
  <2>1. Shown' = Shown
    BY <1>1, <1>7 DEF Shown
  <2>. QED BY <1>1, <1>6, <2>1, Seen
<1>8. CASE ~ video.deleted
  <2>1. Shown' = {video.analysisRun}
    BY <1>1, <1>5, <1>8 DEF Shown
  <2>2. Lifecycle!Publish
    BY <1>1, <1>3, <1>8, <2>1 DEF Lifecycle!Publish, Shown
  <2>. QED BY <1>6, <2>2 DEF Lifecycle!Next
<1>. QED BY <1>7, <1>8

LEMMA LifecycleExecution ==
    ASSUME RoomForRuns, CountedInv, PublishedInv, NEW w \in Slots, Execute(w)
    PROVE  [Lifecycle!Next]_(Lifecycle!vars) /\ PublishedInv'
<1>0. CalmInv /\ Shaped
  BY DEF CountedInv, CalmInv
<1>1. CASE PublishCandidates(w)
  BY <1>1, LifecyclePublish
<1>2. CASE ~ PublishCandidates(w)
  <2>1. /\ Alone(w) /\ candidates' = candidates /\ video'.run = video.run
        /\ video'.deleted = video.deleted
        /\ At(w, "analysis", "advance")' => At(w, "analysis", "advance")
    BY <1>0, <1>2, Unpublished, ExecutionRow
  <2>2. Shown' = Shown
    BY <2>1 DEF Shown
  <2>3. CASE video'.status = video.status /\ video'.analysisRun = video.analysisRun
    <3>1. PublishedInv'
      BY <2>1, <2>3, PublishedFrame DEF Alone, At
    <3>. QED BY <2>1, <2>2, <2>3, <3>1, Seen
  <2>4. CASE /\ video'.analysisRun = video.analysisRun /\ ~ video.deleted
             /\ \/ video.status = "QUEUED" /\ video'.status = "INGESTING"
                \/ video.status = "INGESTING" /\ video'.status = "TRANSCRIBING"
                \/ video.status = "ANALYZING" /\ video'.status = "READY" /\ FinishAnalysis(w)
                \/ video.status \in Processing /\ video'.status = "FAILED"
    <3>1. PublishedInv'
      BY <2>1, <2>4, PublishedFrame DEF Alone, At
    <3>2. CASE \/ video.status = "QUEUED" /\ video'.status = "INGESTING"
               \/ video.status = "INGESTING" /\ video'.status = "TRANSCRIBING"
      <4>1. Lifecycle!Advance
        BY <2>1, <2>2, <2>4, <3>2 DEF Lifecycle!Advance, Lifecycle!Moves, Shown
      <4>. QED BY <3>1, <4>1 DEF Lifecycle!Next
    <3>3. CASE video.status = "ANALYZING" /\ video'.status = "READY" /\ FinishAnalysis(w)
      <4>1. Shown = {video.analysisRun}
        BY <2>4, <3>3 DEF FinishAnalysis, PublishedInv, Published, Shown
      <4>2. Lifecycle!Deliver
        BY <2>1, <2>2, <2>4, <3>3, <4>1 DEF Lifecycle!Deliver, Lifecycle!Moves, Shown
      <4>. QED BY <3>1, <4>2 DEF Lifecycle!Next
    <3>4. CASE video.status \in Processing /\ video'.status = "FAILED"
      <4>1. Lifecycle!Fail
        BY <2>1, <2>2, <2>4, <3>4 DEF Lifecycle!Fail, Lifecycle!Moves, Shown, Processing
      <4>. QED BY <3>1, <4>1 DEF Lifecycle!Next
    <3>. QED BY <2>4, <3>2, <3>3, <3>4
  <2>5. CASE /\ video'.analysisRun = video.analysisRun + 1 /\ ~ video.deleted
             /\ video.status = "TRANSCRIBING" /\ video'.status = "ANALYZING"
    <3>1. ASSUME NEW v \in Slots, At(v, "analysis", "advance") PROVE FALSE
      <4>1. InCharge(v) /\ task[v].job.queue = "analysis"
        BY <3>1 DEF At, InCharge
      <4>. QED BY <1>0, <2>5, <4>1, SoleCharge, CurrentIs
    <3>2. PublishedInv'
      BY <2>1, <3>1, PublishedFrame DEF Alone, At
    <3>3. Lifecycle!StartAnalysis
      BY <2>1, <2>2, <2>5 DEF Lifecycle!StartAnalysis, Lifecycle!Moves, Shown
    <3>. QED BY <3>2, <3>3 DEF Lifecycle!Next
  <2>. QED BY <1>0, <2>3, <2>4, <2>5, ExecutionRow
<1>. QED BY <1>1, <1>2

LEMMA LifecycleRestart ==
    ASSUME CountedInv, PublishedInv, NEW q \in Requests, Restart(q)
    PROVE  [Lifecycle!Next]_(Lifecycle!vars) /\ PublishedInv'
<1>0. CalmInv /\ Shaped
  BY DEF CountedInv, CalmInv
<1>1. /\ UNCHANGED <<candidates, task>>
      /\ \/ UNCHANGED video
         \/ /\ CanMove({"FAILED"}) /\ video'.status \in {"QUEUED", "TRANSCRIBING"}
            /\ video'.run = video.run + 1 /\ video'.analysisRun = video.analysisRun
            /\ video'.deleted = video.deleted
         \/ /\ CanMove({"READY", "FAILED"}) /\ video'.status = "ANALYZING"
            /\ video'.run = video.run /\ video'.analysisRun = video.analysisRun + 1
            /\ video'.deleted = video.deleted
  BY <1>0, RestartStep DEF RowBecomes
<1>2. Shown' = Shown
  BY <1>1 DEF Shown
<1>3. CASE UNCHANGED video
  <2>1. PublishedInv'
    BY <1>1, <1>3, PublishedFrame DEF At
  <2>. QED BY <1>2, <1>3, <2>1, Seen
<1>4. CASE /\ CanMove({"FAILED"}) /\ video'.status \in {"QUEUED", "TRANSCRIBING"}
           /\ video'.run = video.run + 1 /\ video'.analysisRun = video.analysisRun
           /\ video'.deleted = video.deleted
  <2>1. PublishedInv'
    BY <1>1, <1>4, PublishedFrame DEF At
  <2>2. Lifecycle!StartProcessing
    BY <1>2, <1>4 DEF CanMove, Lifecycle!StartProcessing, Lifecycle!Moves, Shown
  <2>. QED BY <2>1, <2>2 DEF Lifecycle!Next
<1>5. CASE /\ CanMove({"READY", "FAILED"}) /\ video'.status = "ANALYZING"
           /\ video'.run = video.run /\ video'.analysisRun = video.analysisRun + 1
           /\ video'.deleted = video.deleted
  <2>1. ASSUME NEW v \in Slots PROVE ~ At(v, "analysis", "advance")
    BY <1>0, <1>5, NobodyWhenDone DEF CanMove, InCharge, At
  <2>2. PublishedInv'
    BY <1>1, <1>5, <2>1, PublishedFrame DEF At
  <2>3. Lifecycle!StartAnalysis
    BY <1>2, <1>5 DEF CanMove, Lifecycle!StartAnalysis, Lifecycle!Moves, Shown
  <2>. QED BY <2>2, <2>3 DEF Lifecycle!Next
<1>. QED BY <1>1, <1>3, <1>4, <1>5

LEMMA LifecycleStutters ==
    ASSUME CountedInv, PublishedInv, UNCHANGED rows,
           \A v \in Slots : At(v, "analysis", "advance")' => At(v, "analysis", "advance")
    PROVE  [Lifecycle!Next]_(Lifecycle!vars) /\ PublishedInv'
<1>1. UNCHANGED <<video, candidates>>
  BY DEF rows
<1>2. Shown' = Shown
  BY <1>1 DEF Shown
<1>. QED BY <1>1, <1>2, Seen, PublishedFrame

LEMMA LifecycleStep ==
    ASSUME Calm, RoomForRuns, CountedInv, PublishedInv, [Next]_vars
    PROVE  [Lifecycle!Next]_(Lifecycle!vars) /\ PublishedInv'
<1>0. CalmInv /\ Shaped
  BY DEF CountedInv, CalmInv
<1>1. ASSUME NEW w \in Slots, Execute(w) PROVE [Lifecycle!Next]_(Lifecycle!vars) /\ PublishedInv'
  BY <1>1, LifecycleExecution
<1>2. ASSUME NEW w \in Slots, Start(w) \/ CallFails(w) \/ BookkeepingFails(w) \/ RecordFails(w)
      PROVE  [Lifecycle!Next]_(Lifecycle!vars) /\ PublishedInv'
  <2>1. Alone(w) /\ UNCHANGED rows /\ task'[w].pc # "advance"
    BY <1>0, <1>2, StartStep, CallFailsStep, BookkeepingFailsStep, EndStep DEF Works, Ends
  <2>. QED BY <2>1, LifecycleStutters DEF At, Alone
<1>3. ASSUME NEW q \in Requests, Process(q) \/ Analyze(q) \/ RequestVersion(q) \/ RequestEnqueues(q)
                                  \/ EnqueueLost(q)
      PROVE  [Lifecycle!Next]_(Lifecycle!vars) /\ PublishedInv'
  <2>1. UNCHANGED <<rows, task>>
    BY <1>0, <1>3, AskStep, RequestVersionStep, RequestEnqueuesStep, EnqueueLostStep
  <2>. QED BY <2>1, LifecycleStutters DEF At
<1>4. ASSUME NEW q \in Requests, Restart(q) PROVE [Lifecycle!Next]_(Lifecycle!vars) /\ PublishedInv'
  BY <1>4, LifecycleRestart
<1>5. CASE RemoveVideo
  <2>1. /\ ~ video.deleted /\ video'.deleted /\ video'.status = video.status
        /\ video'.run = video.run /\ video'.analysisRun = video.analysisRun
    BY <1>0, <1>5, RemoveVideoStep DEF RowBecomes
  <2>2. Shown' = {} /\ PublishedInv'
    BY <2>1 DEF Shown, PublishedInv, Published
  <2>3. Lifecycle!Remove
    BY <1>5, <2>1, <2>2 DEF RemoveVideo, Lifecycle!Remove, Shown
  <2>. QED BY <2>2, <2>3 DEF Lifecycle!Next
<1>6. CASE Requeue \/ UNCHANGED vars
  <2>1. UNCHANGED <<rows, task>>
    BY <1>0, <1>6, RequeueStep DEF vars
  <2>. QED BY <2>1, LifecycleStutters DEF At
<1>. QED BY <1>0, <1>1, <1>2, <1>3, <1>4, <1>5, <1>6, NoFaults DEF Next

(* ImplementsLifecycle (state-machine.ts, states.py, docs/pipeline.md):
   whatever order the executions, failures, retries, requests and janitor
   passes run in, the owner sees the status move along the table, a run or
   an analysis counted only where one starts, the moments of the latest
   analysis replace all others at once, and READY only with them in place. *)
THEOREM ImplementsLifecycleHolds ==
    ASSUME Calm, RoomForRuns
    PROVE  Spec => ImplementsLifecycle
<1>1. Init => Lifecycle!Init /\ PublishedInv
  <2> SUFFICES ASSUME Init PROVE Lifecycle!Init /\ PublishedInv
    OBVIOUS
  <2>1. Shown = {}
    BY DEF Init, Shown
  <2>2. Lifecycle!Init
    BY <2>1 DEF Init, Lifecycle!Init, Shown
  <2>. QED BY <2>2, InitShaped DEF PublishedInv, Published, At
<1>2. CountedInv /\ PublishedInv /\ [Next]_vars => [Lifecycle!Next]_(Lifecycle!vars) /\ PublishedInv'
  BY LifecycleStep
<1>. QED BY <1>1, <1>2, CountedInvHolds, PTL DEF Spec, ImplementsLifecycle, Lifecycle!Spec
-----------------------------------------------------------------------------
(* The moments.  What Moments computes is proved about by induction over the
   places of a sequence: of normalize_words that no word runs over another;
   of the grouping what the first k words have become; of the segments that
   they start and end with words; of each step of refine that it stays among
   them; and of dedupe that what is kept of the first k is distinct and still
   natural; and from these, of run_analysis.                                *)

(* Induction: a set of numbers that has 0, and with each number the next, has
   all.  The least number outside the set would follow one inside it.       *)
LEMMA Counting ==
    ASSUME NEW T, 0 \in T, \A k \in Nat : k \in T => k + 1 \in T
    PROVE  Nat \subseteq T
<1> DEFINE lower == {pair \in Nat \X Nat : pair[1] < pair[2]}
           rest == Nat \ T
<1>1. SUFFICES ASSUME rest # {} PROVE FALSE
  OBVIOUS
<1>2. IsWellFoundedOn(lower, Nat)
  BY NatLessThanWellFounded DEF OpToRel
<1>3. \E least \in rest : \A k \in rest : <<k, least>> \notin lower
  <2> HIDE DEF lower
  <2>1. rest \subseteq Nat
    OBVIOUS
  <2> HIDE DEF rest
  <2>. QED BY <1>1, <1>2, <2>1, WFMin
<1>4. PICK least \in rest : \A k \in rest : <<k, least>> \notin lower
  BY <1>3
<1>5. least \in Nat /\ least # 0 /\ least - 1 \in Nat
  OBVIOUS
<1>6. <<least - 1, least>> \in lower
  BY <1>5
<1>7. least - 1 \notin rest
  BY <1>4, <1>6
<1>8. least - 1 \in T /\ (least - 1) + 1 = least
  BY <1>5, <1>7
<1>. QED BY <1>5, <1>8

-----------------------------------------------------------------------------
(* Greatest and least elements.                                            *)

(* A set of integers with an upper bound has a greatest element.           *)
LEMMA MaxIn ==
    ASSUME NEW S \in SUBSET Int, S # {}, NEW top \in Int, \A x \in S : x <= top
    PROVE  Max(S) \in S /\ \A x \in S : x <= Max(S)
<1> DEFINE T == {k \in Nat : (\E x \in S : top - x <= k) => \E m \in S : \A x \in S : x <= m}
<1>1. 0 \in T
  <2>1. ASSUME NEW x \in S, top - x <= 0 PROVE \A y \in S : y <= x
    BY <2>1
  <2>. QED BY <2>1
<1>2. ASSUME NEW k \in Nat, k \in T PROVE k + 1 \in T
  <2>1. SUFFICES ASSUME NEW x \in S, top - x <= k + 1 PROVE \E m \in S : \A y \in S : y <= m
    OBVIOUS
  <2>2. CASE \E y \in S : top - y <= k
    BY <1>2, <2>2
  <2>3. CASE \A y \in S : ~ top - y <= k
    <3>1. \A y \in S : y <= x
      BY <2>1, <2>3
    <3>. QED BY <3>1
  <2>. QED BY <2>2, <2>3
<1>3. Nat \subseteq T
  <2> HIDE DEF T
  <2>. QED BY <1>1, <1>2, Counting
<1>4. PICK x \in S : TRUE
  OBVIOUS
<1>5. top - x \in Nat /\ top - x \in T
  BY <1>3
<1>6. PICK m \in S : \A y \in S : y <= m
  BY <1>5
<1>7. m >= m /\ \A y \in S : m >= y
  BY <1>6
<1>. QED BY <1>7 DEF Max

(* A set of integers with a lower bound has a least element.               *)
LEMMA MinIn ==
    ASSUME NEW S \in SUBSET Int, S # {}, NEW bottom \in Int, \A x \in S : bottom <= x
    PROVE  Min(S) \in S /\ \A x \in S : Min(S) <= x
<1> DEFINE N == {- x : x \in S}
<1>0. PICK x \in S : TRUE
  OBVIOUS
<1>1. - x \in N /\ - bottom \in Int /\ \A y \in N : y \in Int /\ y <= - bottom
  OBVIOUS
<1>2. Max(N) \in N /\ \A y \in N : y <= Max(N)
  <2> HIDE DEF N
  <2>. QED BY <1>1, MaxIn
<1>3. PICK m \in S : Max(N) = - m
  BY <1>2
<1>4. ASSUME NEW y \in S PROVE m <= y
  <2>1. - y \in N
    OBVIOUS
  <2>2. - y <= - m
    BY <1>2, <1>3, <2>1
  <2>. QED BY <2>2
<1>. QED BY <1>4 DEF Min

(* The greater and the lesser of two numbers.                              *)
LEMMA OfTwo ==
    ASSUME NEW a \in Int, NEW b \in Int
    PROVE  /\ Max({a, b}) \in {a, b} /\ a <= Max({a, b}) /\ b <= Max({a, b})
           /\ Min({a, b}) \in {a, b} /\ Min({a, b}) <= a /\ Min({a, b}) <= b
BY DEF Max, Min

(* The same of three.                                                      *)
LEMMA OfThree ==
    ASSUME NEW a \in Int, NEW b \in Int, NEW c \in Int
    PROVE  /\ Max({a, b, c}) \in {a, b, c} /\ a <= Max({a, b, c}) /\ b <= Max({a, b, c}) /\ c <= Max({a, b, c})
           /\ Min({a, b, c}) \in {a, b, c} /\ Min({a, b, c}) <= a /\ Min({a, b, c}) <= b /\ Min({a, b, c}) <= c
BY DEF Max, Min

-----------------------------------------------------------------------------
(* Sorting.                                                                *)

(* A strict order of the places of a sequence, and the place each is sorted to. *)
Ordering(R, n) ==
    /\ R \subseteq (1 .. n) \X (1 .. n)
    /\ \A i \in 1 .. n : <<i, i>> \notin R
    /\ \A i, j \in 1 .. n : i # j => <<i, j>> \in R \/ <<j, i>> \in R
    /\ \A i, j, k \in 1 .. n : <<i, j>> \in R /\ <<j, k>> \in R => <<i, k>> \in R

Place(i, R, n) == Cardinality({j \in 1 .. n : <<j, i>> \in R}) + 1

(* Counting who comes before gives everyone a place of their own.          *)
LEMMA Places ==
    ASSUME NEW n \in Nat, NEW R, Ordering(R, n)
    PROVE  /\ \A k \in 1 .. n : \E i \in 1 .. n : Place(i, R, n) = k
           /\ \A i \in 1 .. n : Place(i, R, n) \in 1 .. n
           /\ \A i, j \in 1 .. n : <<i, j>> \in R => Place(i, R, n) < Place(j, R, n)
<1> DEFINE place == [i \in 1 .. n |-> Place(i, R, n)]
           below == [i \in 1 .. n |-> {j \in 1 .. n : <<j, i>> \in R}]
<1>1. IsFiniteSet(1 .. n) /\ Cardinality(1 .. n) = n
  BY FS_Interval
<1>2. ASSUME NEW i \in 1 .. n
      PROVE  /\ below[i] \in SUBSET ((1 .. n) \ {i})
             /\ \A j \in 1 .. n : j \in below[i] <=> <<j, i>> \in R
             /\ place[i] = Cardinality(below[i]) + 1
  BY DEF Ordering, Place
<1> HIDE DEF below, place
<1>3. ASSUME NEW i \in 1 .. n
      PROVE  IsFiniteSet(below[i]) /\ Cardinality(below[i]) \in 0 .. n - 1
  <2>1. IsFiniteSet((1 .. n) \ {i}) /\ Cardinality((1 .. n) \ {i}) = n - 1
    BY <1>1, FS_RemoveElement
  <2>2. IsFiniteSet(below[i]) /\ Cardinality(below[i]) <= n - 1
    BY <1>2, <2>1, FS_Subset
  <2>3. Cardinality(below[i]) \in Nat
    BY <2>2, FS_CardinalityType
  <2>. QED BY <2>2, <2>3
<1>4. ASSUME NEW i \in 1 .. n, NEW j \in 1 .. n, <<i, j>> \in R PROVE place[i] < place[j]
  <2>1. \A k \in 1 .. n : <<k, i>> \in R => <<k, j>> \in R
    BY <1>4 DEF Ordering
  <2>2. below[i] \in SUBSET below[j]
    BY <1>2, <2>1
  <2>3. i \in below[j] /\ i \notin below[i]
    BY <1>2, <1>4
  <2>4. Cardinality(below[i]) <= Cardinality(below[j]) /\ Cardinality(below[i]) # Cardinality(below[j])
    BY <1>3, <2>2, <2>3, FS_Subset
  <2>5. Cardinality(below[i]) \in Int /\ Cardinality(below[j]) \in Int
    BY <1>3
  <2>6. Cardinality(below[i]) < Cardinality(below[j])
    BY <2>4, <2>5
  <2>7. place[i] = Cardinality(below[i]) + 1 /\ place[j] = Cardinality(below[j]) + 1
    BY <1>2
  <2>. QED BY <2>5, <2>6, <2>7
<1>5. place \in [1 .. n -> 1 .. n]
  <2>1. \A i \in 1 .. n : Cardinality(below[i]) + 1 \in 1 .. n
    BY <1>3
  <2>2. \A i \in 1 .. n : place[i] \in 1 .. n
    BY <1>2, <2>1
  <2>. QED BY <2>2 DEF place
<1>6. \A i, j \in 1 .. n : place[i] = place[j] => i = j
  <2> SUFFICES ASSUME NEW i \in 1 .. n, NEW j \in 1 .. n, i # j PROVE place[i] # place[j]
    OBVIOUS
  <2>1. place[i] < place[j] \/ place[j] < place[i]
    BY <1>4 DEF Ordering
  <2>2. place[i] \in Int /\ place[j] \in Int
    BY <1>5
  <2>. QED BY <2>1, <2>2
<1>7. place \in Injection(1 .. n, 1 .. n)
  BY <1>5, <1>6 DEF Injection, IsInjective
<1>8. place \in Surjection(1 .. n, 1 .. n)
  BY <1>1, <1>7, FS_Injection
<1>9. \A k \in 1 .. n : \E i \in 1 .. n : place[i] = k
  BY <1>8 DEF Surjection
<1>. QED BY <1>4, <1>5, <1>9 DEF place

(* The k-th in order is before the ones after.                             *)
LEMMA InOrder ==
    ASSUME NEW n \in Nat, NEW R, Ordering(R, n), NEW at,
           at = [k \in 1 .. n |-> CHOOSE i \in 1 .. n : Place(i, R, n) = k]
    PROVE  /\ at \in [1 .. n -> 1 .. n]
           /\ \A i, j \in 1 .. n : i < j => <<at[i], at[j]>> \in R
<1>1. /\ \A k \in 1 .. n : \E i \in 1 .. n : Place(i, R, n) = k
      /\ \A i \in 1 .. n : Place(i, R, n) \in 1 .. n
      /\ \A i, j \in 1 .. n : <<i, j>> \in R => Place(i, R, n) < Place(j, R, n)
  BY Places
<1>2. \A k \in 1 .. n : at[k] \in 1 .. n /\ Place(at[k], R, n) = k
  BY <1>1
<1>3. ASSUME NEW i \in 1 .. n, NEW j \in 1 .. n, i < j PROVE <<at[i], at[j]>> \in R
  <2>1. /\ at[i] \in 1 .. n /\ at[j] \in 1 .. n /\ at[i] # at[j]
        /\ ~ Place(at[j], R, n) < Place(at[i], R, n)
    BY <1>2, <1>3
  <2>. QED BY <1>1, <2>1 DEF Ordering
<1>4. at \in [1 .. n -> 1 .. n]
  BY <1>2
<1>. QED BY <1>3, <1>4

(* Sorted words are the same words, and start one after another.           *)
LEMMA SortedWords ==
    ASSUME NEW raw \in Seq(Word)
    PROVE  LET sorted == Sorted(raw, Earlier)
           IN  /\ sorted \in [1 .. Len(raw) -> Word]
               /\ \A i, j \in 1 .. Len(raw) : i < j => sorted[i].start <= sorted[j].start
<1> DEFINE n == Len(raw)
           precedes(i, j) == Earlier(raw[i], raw[j]) \/ (~ Earlier(raw[j], raw[i]) /\ i < j)
           R == {pair \in (1 .. n) \X (1 .. n) : precedes(pair[1], pair[2])}
           at == [k \in 1 .. n |-> CHOOSE i \in 1 .. n : Place(i, R, n) = k]
<1>1. n \in Nat /\ DOMAIN raw = 1 .. n /\ \A i \in 1 .. n : raw[i] \in Word
  OBVIOUS
<1>2. \A i \in 1 .. n : raw[i].start \in Int /\ raw[i].end \in Int
  BY <1>1 DEF Word
<1>3. \A i, j \in 1 .. n : <<i, j>> \in R <=> precedes(i, j)
  OBVIOUS
<1>4. Ordering(R, n)
  <2>1. R \subseteq (1 .. n) \X (1 .. n)
    OBVIOUS
  <2> HIDE DEF R, n
  <2>2. \A i \in 1 .. n : <<i, i>> \notin R
    BY <1>1, <1>2, <1>3 DEF Earlier
  <2>3. \A i, j \in 1 .. n : i # j => <<i, j>> \in R \/ <<j, i>> \in R
    BY <1>1, <1>2, <1>3 DEF Earlier
  <2>4. ASSUME NEW i \in 1 .. n, NEW j \in 1 .. n, NEW k \in 1 .. n, <<i, j>> \in R, <<j, k>> \in R
        PROVE  <<i, k>> \in R
    <3>1. precedes(i, j) /\ precedes(j, k)
      BY <1>3, <2>4
    <3>2. precedes(i, k)
      BY <1>1, <1>2, <3>1 DEF Earlier
    <3>. QED BY <1>3, <3>2
  <2>. QED BY <2>1, <2>2, <2>3, <2>4 DEF Ordering
<1>5. Sorted(raw, Earlier) = [k \in 1 .. n |-> raw[at[k]]]
  <2>1. \A i \in 1 .. n : {j \in 1 .. n : <<j, i>> \in R} = {j \in 1 .. n : precedes(j, i)}
    BY <1>3
  <2>2. Sorted(raw, Earlier) = [k \in 1 .. n |-> raw[CHOOSE i \in 1 .. n : Cardinality({j \in 1 .. n : precedes(j, i)}) + 1 = k]]
    BY <1>1 DEF Sorted
  <2>3. \A k \in 1 .. n : at[k] = CHOOSE i \in 1 .. n : Cardinality({j \in 1 .. n : precedes(j, i)}) + 1 = k
    BY <2>1 DEF Place
  <2>. QED BY <2>2, <2>3
<1>6. /\ at \in [1 .. n -> 1 .. n]
      /\ \A i, j \in 1 .. n : i < j => <<at[i], at[j]>> \in R
  <2> HIDE DEF R
  <2>. QED BY <1>1, <1>4, InOrder
<1> HIDE DEF at, R, n
<1>7. \A i, j \in 1 .. n : i < j => raw[at[i]].start <= raw[at[j]].start
  <2> TAKE i, j \in 1 .. n
  <2> HAVE i < j
  <2>1. at[i] \in 1 .. n /\ at[j] \in 1 .. n /\ <<at[i], at[j]>> \in R
    BY <1>6
  <2>2. precedes(at[i], at[j])
    BY <1>3, <2>1
  <2>. QED BY <1>2, <2>1, <2>2 DEF Earlier
<1>8. \A k \in 1 .. n : raw[at[k]] \in Word
  BY <1>1, <1>6
<1>. QED BY <1>5, <1>7, <1>8 DEF n

(* The words of a transcript: in the source, in order, none over another.  *)
Timed(words) ==
    /\ words \in Seq(Word)
    /\ \A i \in DOMAIN words : /\ 0 <= words[i].start /\ words[i].start <= words[i].end
                              /\ words[i].end <= Duration
    /\ \A i, j \in DOMAIN words : i < j => words[i].end <= words[j].start

(* A clamped word lies in the source, its start moved as little as that takes. *)
LEMMA ClampedIn ==
    ASSUME NEW w \in Word
    PROVE  /\ Clamped(w) \in Word
           /\ Clamped(w).start = IF w.start <= 0 THEN 0 ELSE IF w.start <= Duration THEN w.start ELSE Duration
           /\ Clamped(w).start <= Clamped(w).end /\ Clamped(w).end <= Duration
<1> DEFINE s0 == Max({w.start, 0})
           s == Min({s0, Duration})
           e0 == Min({w.end, Duration})
           e == Max({s, e0})
<1>1. Duration \in Int /\ 0 <= Duration /\ w.start \in Int /\ w.end \in Int /\ 0 \in Int
  BY MomentsAssumption DEF Word
<1>2. s0 \in {w.start, 0} /\ w.start <= s0 /\ 0 <= s0
  BY <1>1, OfTwo
<1>3. e0 \in {w.end, Duration} /\ e0 <= Duration
  BY <1>1, OfTwo
<1>4. Clamped(w) = [w EXCEPT !.start = s, !.end = e]
  BY DEF Clamped, Word
<1> HIDE DEF s0, e0
<1>5. s0 \in Int /\ e0 \in Int
  BY <1>1, <1>2, <1>3
<1>6. s \in {s0, Duration} /\ s <= s0 /\ s <= Duration
  BY <1>1, <1>5, OfTwo
<1> HIDE DEF s
<1>7. s \in Int
  BY <1>1, <1>5, <1>6
<1>8. e \in {s, e0} /\ s <= e
  BY <1>5, <1>7, OfTwo
<1> HIDE DEF e
<1>9. e \in Int /\ e <= Duration
  BY <1>1, <1>3, <1>5, <1>6, <1>7, <1>8
<1>10. s = IF w.start <= 0 THEN 0 ELSE IF w.start <= Duration THEN w.start ELSE Duration
  BY <1>1, <1>2, <1>5, <1>6, <1>7
<1>11. Clamped(w) \in Word /\ Clamped(w).start = s /\ Clamped(w).end = e
  BY <1>4, <1>7, <1>9 DEF Word
<1>. QED BY <1>8, <1>9, <1>10, <1>11

(* normalize_words (normalize.py): whatever the provider returned, the words
   lie in the source in order, and one ends before the next begins.         *)
THEOREM NormalizedAreTimed ==
    ASSUME NEW raw \in Seq(Word)
    PROVE  Timed(NormalizeWords(raw))
<1> DEFINE n == Len(raw)
           sorted == Sorted(raw, Earlier)
           words == [i \in DOMAIN sorted |-> Clamped(sorted[i])]
           result == [i \in DOMAIN words |->
                        IF i = Len(words) THEN words[i]
                        ELSE [words[i] EXCEPT !.end = Min({@, words[i + 1].start})]]
<1>1. NormalizeWords(raw) = result
  BY DEF NormalizeWords
<1>2. n \in Nat /\ Duration \in Nat
  BY MomentsAssumption
<1>3. /\ sorted \in [1 .. n -> Word]
      /\ \A i, j \in 1 .. n : i < j => sorted[i].start <= sorted[j].start
  BY SortedWords
<1> HIDE DEF sorted
<1>4. DOMAIN words = 1 .. n /\ \A i \in 1 .. n : words[i] = Clamped(sorted[i])
  BY <1>3
<1>5. ASSUME NEW i \in 1 .. n
      PROVE  /\ words[i] \in Word
             /\ words[i].start = (IF sorted[i].start <= 0 THEN 0
                                  ELSE IF sorted[i].start <= Duration THEN sorted[i].start ELSE Duration)
             /\ words[i].start <= words[i].end /\ words[i].end <= Duration
  <2>1. sorted[i] \in Word
    BY <1>3
  <2> HIDE DEF words
  <2>. QED BY <1>4, <2>1, ClampedIn
<1>6. \A i, j \in 1 .. n : i < j => words[i].start <= words[j].start /\ 0 <= words[i].start
  <2> TAKE i, j \in 1 .. n
  <2>1. sorted[i].start \in Int /\ sorted[j].start \in Int
    BY <1>3 DEF Word
  <2> HIDE DEF words
  <2>. QED BY <1>2, <1>3, <1>5, <2>1
<1>7. \A i \in 1 .. n : 0 <= words[i].start
  <2> TAKE i \in 1 .. n
  <2>1. sorted[i].start \in Int
    BY <1>3 DEF Word
  <2> HIDE DEF words
  <2>. QED BY <1>2, <1>5, <2>1
<1>8. Len(words) = n
  BY <1>2, <1>4
<1> HIDE DEF words, n
<1>9. ASSUME NEW i \in 1 .. n
      PROVE  /\ result[i] \in Word /\ result[i].start = words[i].start
             /\ words[i].start <= result[i].end /\ result[i].end <= words[i].end
             /\ i # n => result[i].end <= words[i + 1].start
  <2>1. words[i] \in Word /\ words[i].start \in Int /\ words[i].end \in Int
    BY <1>5 DEF Word
  <2>2. CASE i = n
    BY <1>4, <1>5, <1>8, <2>1, <2>2
  <2>3. CASE i # n
    <3> DEFINE cut == Min({words[i].end, words[i + 1].start})
    <3>1. i + 1 \in 1 .. n /\ i < i + 1
      BY <1>2, <2>3
    <3>2. words[i + 1].start \in Int /\ words[i].start <= words[i + 1].start
      BY <1>5, <1>6, <3>1 DEF Word
    <3>3. cut \in {words[i].end, words[i + 1].start} /\ cut <= words[i].end /\ cut <= words[i + 1].start
      BY <2>1, <3>2, OfTwo
    <3>4. cut \in Int /\ words[i].start <= cut
      <4> HIDE DEF cut
      <4>. QED BY <1>5, <2>1, <3>2, <3>3
    <3>5. result[i] = [words[i] EXCEPT !.end = cut]
      BY <1>4, <1>8, <2>3
    <3> HIDE DEF cut, result
    <3>. QED BY <2>1, <3>3, <3>4, <3>5 DEF Word
  <2>. QED BY <2>2, <2>3
<1>10. result \in Seq(Word) /\ DOMAIN result = 1 .. n
  <2>1. DOMAIN result = 1 .. n /\ result = [i \in 1 .. n |-> result[i]]
    BY <1>4
  <2> HIDE DEF result
  <2>2. \A i \in 1 .. n : result[i] \in Word
    BY <1>9
  <2>3. [i \in 1 .. n |-> result[i]] \in Seq(Word)
    BY <1>2, <2>2
  <2>. QED BY <2>1, <2>3
<1> HIDE DEF result
<1>11. \A i \in 1 .. n : /\ 0 <= result[i].start /\ result[i].start <= result[i].end
                          /\ result[i].end <= Duration
  <2> TAKE i \in 1 .. n
  <2>1. words[i].start \in Int /\ words[i].end \in Int /\ result[i].end \in Int
    BY <1>5, <1>9 DEF Word
  <2>. QED BY <1>2, <1>5, <1>7, <1>9, <2>1
<1>12. ASSUME NEW i \in 1 .. n, NEW j \in 1 .. n, i < j PROVE result[i].end <= result[j].start
  <2>1. i + 1 \in 1 .. n /\ i # n
    BY <1>2, <1>12
  <2>2. words[i + 1].start <= words[j].start
    <3>1. CASE i + 1 = j
      BY <2>1, <3>1, <1>5 DEF Word
    <3>2. CASE i + 1 < j
      BY <1>6, <2>1, <3>2
    <3>. QED BY <1>2, <1>12, <3>1, <3>2
  <2>3. words[i + 1].start \in Int /\ words[j].start \in Int /\ result[i].end \in Int
    BY <1>5, <1>9, <2>1 DEF Word
  <2>. QED BY <1>9, <2>1, <2>2, <2>3
<1>. QED BY <1>1, <1>10, <1>11, <1>12 DEF Timed

-----------------------------------------------------------------------------
(* Folds over a sequence.                                                  *)

(* The function on sets of places that a fold is defined by.               *)
Folds(g, k, base, F) ==
    \A s \in SUBSET (1 .. k) : g[s] = IF s = {} THEN base ELSE F[<<g[s \ {Max(s)}], Max(s)>>]

Foldable(n, A, base, F) == \E g \in [SUBSET (1 .. n) -> A] : Folds(g, n, base, F)

(* From the first k places it extends to the next.                         *)
LEMMA FoldExtends ==
    ASSUME NEW n \in Nat, NEW A, NEW base \in A, NEW F \in [A \X (1 .. n) -> A],
           NEW k \in Nat, k + 1 <= n, NEW h \in [SUBSET (1 .. k) -> A], Folds(h, k, base, F)
    PROVE  Foldable(k + 1, A, base, F)
<1> DEFINE g == [s \in SUBSET (1 .. k + 1) |->
                   IF k + 1 \in s THEN F[<<h[s \ {k + 1}], k + 1>>] ELSE h[s]]
<1>1. /\ \A s \in SUBSET (1 .. k + 1) : s \ {k + 1} \in SUBSET (1 .. k) /\ s \ {k + 1} \in SUBSET (1 .. k + 1)
      /\ k + 1 \in 1 .. n
  OBVIOUS
<1>2. \A s \in SUBSET (1 .. k + 1) : k + 1 \notin s => s \in SUBSET (1 .. k)
  BY <1>1
<1>3. \A s \in SUBSET (1 .. k + 1) : g[s] \in A
  <2> TAKE s \in SUBSET (1 .. k + 1)
  <2>1. CASE k + 1 \in s
    <3>1. h[s \ {k + 1}] \in A
      BY <1>1
    <3>2. F[<<h[s \ {k + 1}], k + 1>>] \in A
      BY <1>1, <3>1
    <3>. QED BY <2>1, <3>2
  <2>2. CASE k + 1 \notin s
    BY <1>2, <2>2
  <2>. QED BY <2>1, <2>2
<1>4. \A s \in SUBSET (1 .. k + 1) :
         /\ k + 1 \in s => g[s] = F[<<h[s \ {k + 1}], k + 1>>]
         /\ k + 1 \notin s => g[s] = h[s]
  OBVIOUS
<1>5. g \in [SUBSET (1 .. k + 1) -> A]
  BY <1>3
<1> HIDE DEF g
<1>6. ASSUME NEW s \in SUBSET (1 .. k + 1)
      PROVE  g[s] = IF s = {} THEN base ELSE F[<<g[s \ {Max(s)}], Max(s)>>]
  <2>1. CASE k + 1 \in s
    <3>1. Max(s) = k + 1
      <4>1. s \in SUBSET Int /\ \A x \in s : x <= k + 1
        OBVIOUS
      <4>2. Max(s) \in s /\ \A x \in s : x <= Max(s)
        BY <2>1, <4>1, MaxIn
      <4>3. Max(s) \in Int /\ Max(s) <= k + 1 /\ k + 1 <= Max(s)
        BY <2>1, <4>1, <4>2
      <4>. QED BY <4>3
    <3>2. g[s \ {k + 1}] = h[s \ {k + 1}]
      <4>1. k + 1 \notin s \ {k + 1}
        OBVIOUS
      <4>. QED BY <1>1, <1>4, <4>1
    <3>3. g[s] = F[<<h[s \ {k + 1}], k + 1>>]
      BY <1>4, <2>1
    <3>. QED BY <2>1, <3>1, <3>2, <3>3
  <2>2. CASE k + 1 \notin s
    <3>1. s \in SUBSET (1 .. k) /\ g[s] = h[s]
      BY <1>2, <1>4, <2>2
    <3>2. h[s] = IF s = {} THEN base ELSE F[<<h[s \ {Max(s)}], Max(s)>>]
      BY <3>1 DEF Folds
    <3>3. g[s \ {Max(s)}] = h[s \ {Max(s)}]
      <4>1. s \ {Max(s)} \in SUBSET (1 .. k + 1) /\ k + 1 \notin s \ {Max(s)}
        BY <2>2
      <4>. QED BY <1>4, <4>1
    <3>. QED BY <3>1, <3>2, <3>3
  <2>. QED BY <2>1, <2>2
<1>7. Folds(g, k + 1, base, F)
  BY <1>6 DEF Folds
<1>. QED BY <1>5, <1>7 DEF Foldable

(* What a fold is defined by exists, for a step from values of A to A.     *)
LEMMA FoldExists ==
    ASSUME NEW n \in Nat, NEW A, NEW base \in A, NEW F \in [A \X (1 .. n) -> A]
    PROVE  Foldable(n, A, base, F)
<1> DEFINE T == {k \in Nat : k <= n => Foldable(k, A, base, F)}
<1>1. Foldable(0, A, base, F)
  <2> DEFINE g == [s \in SUBSET (1 .. 0) |-> base]
  <2>1. 1 .. 0 = {} /\ g \in [SUBSET (1 .. 0) -> A]
    OBVIOUS
  <2>2. Folds(g, 0, base, F)
    BY <2>1 DEF Folds
  <2>. QED BY <2>1, <2>2 DEF Foldable
<1>2. ASSUME NEW k \in Nat, k \in T PROVE k + 1 \in T
  <2>1. ASSUME k + 1 <= n PROVE Foldable(k + 1, A, base, F)
    <3>1. Foldable(k, A, base, F)
      BY <1>2, <2>1
    <3>2. PICK h \in [SUBSET (1 .. k) -> A] : Folds(h, k, base, F)
      BY <3>1 DEF Foldable
    <3>. QED BY <2>1, <3>2, FoldExtends
  <2>. QED BY <2>1
<1>3. 0 \in T
  BY <1>1
<1>4. n \in T
  <2> HIDE DEF T
  <2>. QED BY <1>3, <1>2, Counting
<1>. QED BY <1>4

(* The greatest of some of the first n places.                             *)
LEMMA MaxAmong ==
    ASSUME NEW n \in Nat, NEW s \in SUBSET (1 .. n), s # {}
    PROVE  Max(s) \in s /\ Max(s) \in 1 .. n /\ \A x \in s : x <= Max(s)
<1>1. s \in SUBSET Int /\ n \in Int /\ \A x \in s : x <= n
  OBVIOUS
<1>2. Max(s) \in s /\ \A x \in s : x <= Max(s)
  BY <1>1, MaxIn
<1>. QED BY <1>2

(* Of the first k places the last is k, and the others are the first k - 1. *)
LEMMA FirstOnes ==
    ASSUME NEW n \in Nat, NEW k \in 1 .. n
    PROVE  /\ (1 .. k) \in SUBSET (1 .. n) /\ 1 .. k # {} /\ (1 .. k) \ {k} = 1 .. k - 1
           /\ Max(1 .. k) = k
<1>1. (1 .. k) \in SUBSET (1 .. n) /\ k \in 1 .. k
  OBVIOUS
<1>2. 1 .. k # {}
  BY <1>1
<1>3. Max(1 .. k) \in 1 .. k /\ \A x \in 1 .. k : x <= Max(1 .. k)
  BY <1>1, <1>2, MaxAmong
<1>4. Max(1 .. k) = k
  BY <1>1, <1>3
<1>5. (1 .. k) \ {k} = 1 .. k - 1
  OBVIOUS
<1>. QED BY <1>1, <1>2, <1>4, <1>5

(* Grouping the words is Group applied to each in turn.                    *)
LEMMA GroupFolds ==
    ASSUME NEW words \in Seq(Word), NEW A, NEW base \in A,
           \A acc \in A, x \in Word : Group(acc, x) \in A
    PROVE  \E at \in [0 .. Len(words) -> A] :
              /\ at[0] = base
              /\ \A k \in 1 .. Len(words) : at[k] = Group(at[k - 1], words[k])
              /\ at[Len(words)] = FoldLeft(Group, base, words)
<1> DEFINE n == Len(words)
           F == [p \in A \X (1 .. n) |-> Group(p[1], words[p[2]])]
           Is(g) == g = [s \in SUBSET (1 .. n) |->
                           IF s = {} THEN base ELSE Group(g[s \ {Max(s)}], words[Max(s)])]
           iter == CHOOSE g : Is(g)
           at == [k \in 0 .. n |-> iter[1 .. k]]
<1>1. n \in Nat /\ DOMAIN words = 1 .. n /\ \A i \in 1 .. n : words[i] \in Word
  OBVIOUS
<1>2. FoldLeft(Group, base, words) = iter[1 .. n]
  BY <1>1 DEF FoldLeft, MapThenFoldSet
<1>3. /\ F \in [A \X (1 .. n) -> A]
      /\ \A acc \in A, i \in 1 .. n : F[<<acc, i>>] = Group(acc, words[i])
  BY <1>1
<1> HIDE DEF F, n
<1>4. PICK g \in [SUBSET (1 .. n) -> A] : Folds(g, n, base, F)
  BY <1>1, <1>3, FoldExists DEF Foldable
<1>5. ASSUME NEW s \in SUBSET (1 .. n)
      PROVE  g[s] = IF s = {} THEN base ELSE Group(g[s \ {Max(s)}], words[Max(s)])
  <2>1. CASE s # {}
    <3>1. Max(s) \in 1 .. n
      BY <1>1, <2>1, MaxAmong
    <3>2. g[s \ {Max(s)}] \in A
      BY <1>4
    <3>. QED BY <1>3, <1>4, <2>1, <3>1, <3>2 DEF Folds
  <2>2. CASE s = {}
    BY <1>4, <2>2 DEF Folds
  <2>. QED BY <2>1, <2>2
<1>6. Is(g)
  <2>1. g = [s \in SUBSET (1 .. n) |-> g[s]]
    BY <1>4
  <2>. QED BY <1>5, <2>1
<1>7. Is(iter)
  <2> HIDE DEF Is
  <2>. QED BY <1>6
<1> HIDE DEF iter
<1>8. /\ iter[{}] = base
      /\ \A s \in SUBSET (1 .. n) : s # {} => iter[s] = Group(iter[s \ {Max(s)}], words[Max(s)])
  BY <1>7
<1>9. ASSUME NEW k \in 1 .. n PROVE iter[1 .. k] = Group(iter[1 .. k - 1], words[k])
  <2>1. /\ (1 .. k) \in SUBSET (1 .. n) /\ 1 .. k # {} /\ (1 .. k) \ {k} = 1 .. k - 1
        /\ Max(1 .. k) = k
    BY <1>1, FirstOnes
  <2>. QED BY <1>8, <2>1
<1>10. \A k \in 0 .. n : iter[1 .. k] \in A
  <2> DEFINE T == {k \in Nat : k <= n => iter[1 .. k] \in A}
  <2>1. 0 \in T
    BY <1>8
  <2>2. ASSUME NEW k \in Nat, k \in T PROVE k + 1 \in T
    <3>1. ASSUME k + 1 <= n PROVE iter[1 .. k + 1] \in A
      <4>1. k + 1 \in 1 .. n /\ (k + 1) - 1 = k /\ iter[1 .. k] \in A
        BY <1>1, <2>2, <3>1
      <4>2. iter[1 .. k + 1] = Group(iter[1 .. k], words[k + 1])
        BY <1>9, <4>1
      <4>. QED BY <1>1, <4>1, <4>2
    <3>. QED BY <3>1
  <2>3. Nat \subseteq T
    <3> HIDE DEF T
    <3>. QED BY <2>1, <2>2, Counting
  <2>. QED BY <1>1, <2>3
<1>11. /\ at \in [0 .. n -> A]
       /\ at[0] = base
       /\ \A k \in 1 .. n : at[k] = Group(at[k - 1], words[k])
       /\ at[n] = FoldLeft(Group, base, words)
  <2>1. at \in [0 .. n -> A]
    BY <1>10
  <2>2. at[0] = base /\ at[n] = FoldLeft(Group, base, words)
    <3>1. 0 \in 0 .. n /\ n \in 0 .. n /\ 1 .. 0 = {}
      BY <1>1
    <3>. QED BY <1>2, <1>8, <3>1
  <2>3. ASSUME NEW k \in 1 .. n PROVE at[k] = Group(at[k - 1], words[k])
    <3>1. k \in 0 .. n /\ k - 1 \in 0 .. n
      BY <1>1
    <3>. QED BY <1>9, <3>1
  <2>. QED BY <2>1, <2>2, <2>3
<1> HIDE DEF at
<1>. QED BY <1>11 DEF n

(* Covering the words is Cover applied to each in turn.                    *)
Placing == [word : Word, place : Nat, early : BOOLEAN]

LEMMA CoverFolds ==
    ASSUME NEW seq \in Seq(Placing), NEW A, NEW base \in A,
           \A acc \in A, x \in Placing : Cover(acc, x) \in A
    PROVE  \E at \in [0 .. Len(seq) -> A] :
              /\ at[0] = base
              /\ \A k \in 1 .. Len(seq) : at[k] = Cover(at[k - 1], seq[k])
              /\ at[Len(seq)] = FoldLeft(Cover, base, seq)
<1> DEFINE n == Len(seq)
           F == [p \in A \X (1 .. n) |-> Cover(p[1], seq[p[2]])]
           Is(g) == g = [s \in SUBSET (1 .. n) |->
                           IF s = {} THEN base ELSE Cover(g[s \ {Max(s)}], seq[Max(s)])]
           iter == CHOOSE g : Is(g)
           at == [k \in 0 .. n |-> iter[1 .. k]]
<1>1. n \in Nat /\ DOMAIN seq = 1 .. n /\ \A i \in 1 .. n : seq[i] \in Placing
  OBVIOUS
<1>2. FoldLeft(Cover, base, seq) = iter[1 .. n]
  BY <1>1 DEF FoldLeft, MapThenFoldSet
<1>3. /\ F \in [A \X (1 .. n) -> A]
      /\ \A acc \in A, i \in 1 .. n : F[<<acc, i>>] = Cover(acc, seq[i])
  BY <1>1
<1> HIDE DEF F, n
<1>4. PICK g \in [SUBSET (1 .. n) -> A] : Folds(g, n, base, F)
  BY <1>1, <1>3, FoldExists DEF Foldable
<1>5. ASSUME NEW s \in SUBSET (1 .. n)
      PROVE  g[s] = IF s = {} THEN base ELSE Cover(g[s \ {Max(s)}], seq[Max(s)])
  <2>1. CASE s # {}
    <3>1. Max(s) \in 1 .. n
      BY <1>1, <2>1, MaxAmong
    <3>2. g[s \ {Max(s)}] \in A
      BY <1>4
    <3>. QED BY <1>3, <1>4, <2>1, <3>1, <3>2 DEF Folds
  <2>2. CASE s = {}
    BY <1>4, <2>2 DEF Folds
  <2>. QED BY <2>1, <2>2
<1>6. Is(g)
  <2>1. g = [s \in SUBSET (1 .. n) |-> g[s]]
    BY <1>4
  <2>. QED BY <1>5, <2>1
<1>7. Is(iter)
  <2> HIDE DEF Is
  <2>. QED BY <1>6
<1> HIDE DEF iter
<1>8. /\ iter[{}] = base
      /\ \A s \in SUBSET (1 .. n) : s # {} => iter[s] = Cover(iter[s \ {Max(s)}], seq[Max(s)])
  BY <1>7
<1>9. ASSUME NEW k \in 1 .. n PROVE iter[1 .. k] = Cover(iter[1 .. k - 1], seq[k])
  <2>1. /\ (1 .. k) \in SUBSET (1 .. n) /\ 1 .. k # {} /\ (1 .. k) \ {k} = 1 .. k - 1
        /\ Max(1 .. k) = k
    BY <1>1, FirstOnes
  <2>. QED BY <1>8, <2>1
<1>10. \A k \in 0 .. n : iter[1 .. k] \in A
  <2> DEFINE T == {k \in Nat : k <= n => iter[1 .. k] \in A}
  <2>1. 0 \in T
    BY <1>8
  <2>2. ASSUME NEW k \in Nat, k \in T PROVE k + 1 \in T
    <3>1. ASSUME k + 1 <= n PROVE iter[1 .. k + 1] \in A
      <4>1. k + 1 \in 1 .. n /\ (k + 1) - 1 = k /\ iter[1 .. k] \in A
        BY <1>1, <2>2, <3>1
      <4>2. iter[1 .. k + 1] = Cover(iter[1 .. k], seq[k + 1])
        BY <1>9, <4>1
      <4>. QED BY <1>1, <4>1, <4>2
    <3>. QED BY <3>1
  <2>3. Nat \subseteq T
    <3> HIDE DEF T
    <3>. QED BY <2>1, <2>2, Counting
  <2>. QED BY <1>1, <2>3
<1>11. /\ at \in [0 .. n -> A]
       /\ at[0] = base
       /\ \A k \in 1 .. n : at[k] = Cover(at[k - 1], seq[k])
       /\ at[n] = FoldLeft(Cover, base, seq)
  <2>1. at \in [0 .. n -> A]
    BY <1>10
  <2>2. at[0] = base /\ at[n] = FoldLeft(Cover, base, seq)
    <3>1. 0 \in 0 .. n /\ n \in 0 .. n /\ 1 .. 0 = {}
      BY <1>1
    <3>. QED BY <1>2, <1>8, <3>1
  <2>3. ASSUME NEW k \in 1 .. n PROVE at[k] = Cover(at[k - 1], seq[k])
    <3>1. k \in 0 .. n /\ k - 1 \in 0 .. n
      BY <1>1
    <3>. QED BY <1>9, <3>1
  <2>. QED BY <2>1, <2>2, <2>3
<1> HIDE DEF at
<1>. QED BY <1>11 DEF n

(* Removing duplicates is Keep applied to each candidate in turn.          *)
LEMMA KeepFolds ==
    ASSUME NEW sorted \in Seq(Candidate), NEW A, NEW base \in A,
           \A acc \in A, x \in Candidate : Keep(acc, x) \in A
    PROVE  \E at \in [0 .. Len(sorted) -> A] :
              /\ at[0] = base
              /\ \A k \in 1 .. Len(sorted) : at[k] = Keep(at[k - 1], sorted[k])
              /\ at[Len(sorted)] = FoldLeft(Keep, base, sorted)
<1> DEFINE n == Len(sorted)
           F == [p \in A \X (1 .. n) |-> Keep(p[1], sorted[p[2]])]
           Is(g) == g = [s \in SUBSET (1 .. n) |->
                           IF s = {} THEN base ELSE Keep(g[s \ {Max(s)}], sorted[Max(s)])]
           iter == CHOOSE g : Is(g)
           at == [k \in 0 .. n |-> iter[1 .. k]]
<1>1. n \in Nat /\ DOMAIN sorted = 1 .. n /\ \A i \in 1 .. n : sorted[i] \in Candidate
  OBVIOUS
<1>2. FoldLeft(Keep, base, sorted) = iter[1 .. n]
  BY <1>1 DEF FoldLeft, MapThenFoldSet
<1>3. /\ F \in [A \X (1 .. n) -> A]
      /\ \A acc \in A, i \in 1 .. n : F[<<acc, i>>] = Keep(acc, sorted[i])
  BY <1>1
<1> HIDE DEF F, n
<1>4. PICK g \in [SUBSET (1 .. n) -> A] : Folds(g, n, base, F)
  BY <1>1, <1>3, FoldExists DEF Foldable
<1>5. ASSUME NEW s \in SUBSET (1 .. n)
      PROVE  g[s] = IF s = {} THEN base ELSE Keep(g[s \ {Max(s)}], sorted[Max(s)])
  <2>1. CASE s # {}
    <3>1. Max(s) \in 1 .. n
      BY <1>1, <2>1, MaxAmong
    <3>2. g[s \ {Max(s)}] \in A
      BY <1>4
    <3>. QED BY <1>3, <1>4, <2>1, <3>1, <3>2 DEF Folds
  <2>2. CASE s = {}
    BY <1>4, <2>2 DEF Folds
  <2>. QED BY <2>1, <2>2
<1>6. Is(g)
  <2>1. g = [s \in SUBSET (1 .. n) |-> g[s]]
    BY <1>4
  <2>. QED BY <1>5, <2>1
<1>7. Is(iter)
  <2> HIDE DEF Is
  <2>. QED BY <1>6
<1> HIDE DEF iter
<1>8. /\ iter[{}] = base
      /\ \A s \in SUBSET (1 .. n) : s # {} => iter[s] = Keep(iter[s \ {Max(s)}], sorted[Max(s)])
  BY <1>7
<1>9. ASSUME NEW k \in 1 .. n PROVE iter[1 .. k] = Keep(iter[1 .. k - 1], sorted[k])
  <2>1. /\ (1 .. k) \in SUBSET (1 .. n) /\ 1 .. k # {} /\ (1 .. k) \ {k} = 1 .. k - 1
        /\ Max(1 .. k) = k
    BY <1>1, FirstOnes
  <2>. QED BY <1>8, <2>1
<1>10. \A k \in 0 .. n : iter[1 .. k] \in A
  <2> DEFINE T == {k \in Nat : k <= n => iter[1 .. k] \in A}
  <2>1. 0 \in T
    BY <1>8
  <2>2. ASSUME NEW k \in Nat, k \in T PROVE k + 1 \in T
    <3>1. ASSUME k + 1 <= n PROVE iter[1 .. k + 1] \in A
      <4>1. k + 1 \in 1 .. n /\ (k + 1) - 1 = k /\ iter[1 .. k] \in A
        BY <1>1, <2>2, <3>1
      <4>2. iter[1 .. k + 1] = Keep(iter[1 .. k], sorted[k + 1])
        BY <1>9, <4>1
      <4>. QED BY <1>1, <4>1, <4>2
    <3>. QED BY <3>1
  <2>3. Nat \subseteq T
    <3> HIDE DEF T
    <3>. QED BY <2>1, <2>2, Counting
  <2>. QED BY <1>1, <2>3
<1>11. /\ at \in [0 .. n -> A]
       /\ at[0] = base
       /\ \A k \in 1 .. n : at[k] = Keep(at[k - 1], sorted[k])
       /\ at[n] = FoldLeft(Keep, base, sorted)
  <2>1. at \in [0 .. n -> A]
    BY <1>10
  <2>2. at[0] = base /\ at[n] = FoldLeft(Keep, base, sorted)
    <3>1. 0 \in 0 .. n /\ n \in 0 .. n /\ 1 .. 0 = {}
      BY <1>1
    <3>. QED BY <1>2, <1>8, <3>1
  <2>3. ASSUME NEW k \in 1 .. n PROVE at[k] = Keep(at[k - 1], sorted[k])
    <3>1. k \in 0 .. n /\ k - 1 \in 0 .. n
      BY <1>1
    <3>. QED BY <1>9, <3>1
  <2>. QED BY <2>1, <2>2, <2>3
<1> HIDE DEF at
<1>. QED BY <1>11 DEF n

(* Dropping the empty ones goes through the candidates in turn.            *)
LEMMA RemainFolds ==
    ASSUME NEW seq \in Seq(Candidate), NEW A, NEW base \in A,
           \A acc \in A, x \in Candidate : Remain(acc, x) \in A
    PROVE  \E at \in [0 .. Len(seq) -> A] :
              /\ at[0] = base
              /\ \A k \in 1 .. Len(seq) : at[k] = Remain(at[k - 1], seq[k])
              /\ at[Len(seq)] = FoldLeft(Remain, base, seq)
<1> DEFINE n == Len(seq)
           F == [p \in A \X (1 .. n) |-> Remain(p[1], seq[p[2]])]
           Is(g) == g = [s \in SUBSET (1 .. n) |->
                           IF s = {} THEN base ELSE Remain(g[s \ {Max(s)}], seq[Max(s)])]
           iter == CHOOSE g : Is(g)
           at == [k \in 0 .. n |-> iter[1 .. k]]
<1>1. n \in Nat /\ DOMAIN seq = 1 .. n /\ \A i \in 1 .. n : seq[i] \in Candidate
  OBVIOUS
<1>2. FoldLeft(Remain, base, seq) = iter[1 .. n]
  BY <1>1 DEF FoldLeft, MapThenFoldSet
<1>3. /\ F \in [A \X (1 .. n) -> A]
      /\ \A acc \in A, i \in 1 .. n : F[<<acc, i>>] = Remain(acc, seq[i])
  BY <1>1
<1> HIDE DEF F, n
<1>4. PICK g \in [SUBSET (1 .. n) -> A] : Folds(g, n, base, F)
  BY <1>1, <1>3, FoldExists DEF Foldable
<1>5. ASSUME NEW s \in SUBSET (1 .. n)
      PROVE  g[s] = IF s = {} THEN base ELSE Remain(g[s \ {Max(s)}], seq[Max(s)])
  <2>1. CASE s # {}
    <3>1. Max(s) \in 1 .. n
      BY <1>1, <2>1, MaxAmong
    <3>2. g[s \ {Max(s)}] \in A
      BY <1>4
    <3>. QED BY <1>3, <1>4, <2>1, <3>1, <3>2 DEF Folds
  <2>2. CASE s = {}
    BY <1>4, <2>2 DEF Folds
  <2>. QED BY <2>1, <2>2
<1>6. Is(g)
  <2>1. g = [s \in SUBSET (1 .. n) |-> g[s]]
    BY <1>4
  <2>. QED BY <1>5, <2>1
<1>7. Is(iter)
  <2> HIDE DEF Is
  <2>. QED BY <1>6
<1> HIDE DEF iter
<1>8. /\ iter[{}] = base
      /\ \A s \in SUBSET (1 .. n) : s # {} => iter[s] = Remain(iter[s \ {Max(s)}], seq[Max(s)])
  BY <1>7
<1>9. ASSUME NEW k \in 1 .. n PROVE iter[1 .. k] = Remain(iter[1 .. k - 1], seq[k])
  <2>1. /\ (1 .. k) \in SUBSET (1 .. n) /\ 1 .. k # {} /\ (1 .. k) \ {k} = 1 .. k - 1
        /\ Max(1 .. k) = k
    BY <1>1, FirstOnes
  <2>. QED BY <1>8, <2>1
<1>10. \A k \in 0 .. n : iter[1 .. k] \in A
  <2> DEFINE T == {k \in Nat : k <= n => iter[1 .. k] \in A}
  <2>1. 0 \in T
    BY <1>8
  <2>2. ASSUME NEW k \in Nat, k \in T PROVE k + 1 \in T
    <3>1. ASSUME k + 1 <= n PROVE iter[1 .. k + 1] \in A
      <4>1. k + 1 \in 1 .. n /\ (k + 1) - 1 = k /\ iter[1 .. k] \in A
        BY <1>1, <2>2, <3>1
      <4>2. iter[1 .. k + 1] = Remain(iter[1 .. k], seq[k + 1])
        BY <1>9, <4>1
      <4>. QED BY <1>1, <4>1, <4>2
    <3>. QED BY <3>1
  <2>3. Nat \subseteq T
    <3> HIDE DEF T
    <3>. QED BY <2>1, <2>2, Counting
  <2>. QED BY <1>1, <2>3
<1>11. /\ at \in [0 .. n -> A]
       /\ at[0] = base
       /\ \A k \in 1 .. n : at[k] = Remain(at[k - 1], seq[k])
       /\ at[n] = FoldLeft(Remain, base, seq)
  <2>1. at \in [0 .. n -> A]
    BY <1>10
  <2>2. at[0] = base /\ at[n] = FoldLeft(Remain, base, seq)
    <3>1. 0 \in 0 .. n /\ n \in 0 .. n /\ 1 .. 0 = {}
      BY <1>1
    <3>. QED BY <1>2, <1>8, <3>1
  <2>3. ASSUME NEW k \in 1 .. n PROVE at[k] = Remain(at[k - 1], seq[k])
    <3>1. k \in 0 .. n /\ k - 1 \in 0 .. n
      BY <1>1
    <3>. QED BY <1>9, <3>1
  <2>. QED BY <2>1, <2>2, <2>3
<1> HIDE DEF at
<1>. QED BY <1>11 DEF n

-----------------------------------------------------------------------------
(* Groups of words, and their segments.                                    *)

(* The groups that are closed, and the one that is open.                   *)
Grouping == [done : Seq(Seq(Word)), open : Seq(Word)]

(* The group begins with one of the first k words and ends with one; the first
   group begins with the first of all.                                      *)
Spans(group, words, k) ==
    /\ group # <<>>
    /\ \E lo, hi \in 1 .. k : group[1] = words[lo] /\ group[Len(group)] = words[hi]

AllSpan(groups, words, k) ==
    /\ \A i \in DOMAIN groups : Spans(groups[i], words, k)
    /\ groups # <<>> => groups[1][1] = words[1]

(* What the first k words are grouped into.                                *)
Grouped(acc, words, k) ==
    /\ acc \in Grouping
    /\ AllSpan(acc.done, words, k)
    /\ acc.open # <<>> => Spans(acc.open, words, k) /\ (acc.done = <<>> => acc.open[1] = words[1])
    /\ acc.done = <<>> /\ acc.open = <<>> => k = 0

(* A group more.                                                           *)
LEMMA OneMoreSpans ==
    ASSUME NEW words, NEW k \in Nat, NEW groups \in Seq(Seq(Word)), NEW group \in Seq(Word),
           AllSpan(groups, words, k), Spans(group, words, k), groups = <<>> => group[1] = words[1]
    PROVE  AllSpan(Append(groups, group), words, k) /\ Append(groups, group) \in Seq(Seq(Word))
           /\ Append(groups, group) # <<>>
<1>1. /\ Append(groups, group) \in Seq(Seq(Word)) /\ Append(groups, group) # <<>>
      /\ DOMAIN Append(groups, group) = 1 .. Len(groups) + 1 /\ DOMAIN groups = 1 .. Len(groups)
      /\ Len(groups) \in Nat
  <2> DEFINE S == Seq(Word)
  <2>1. group \in S /\ groups \in Seq(S)
    OBVIOUS
  <2> HIDE DEF S
  <2>2. Append(groups, group) \in Seq(S) /\ Len(Append(groups, group)) = Len(groups) + 1 /\ Len(groups) \in Nat
    BY <2>1
  <2>3. DOMAIN Append(groups, group) = 1 .. Len(groups) + 1
    BY <2>2
  <2>4. DOMAIN groups = 1 .. Len(groups)
    BY <2>1
  <2>5. Append(groups, group) # <<>>
    BY <2>2
  <2>. QED BY <2>2, <2>3, <2>4, <2>5 DEF S
<1>2. ASSUME NEW i \in 1 .. Len(groups) + 1 PROVE Spans(Append(groups, group)[i], words, k)
  <2>1. CASE i = Len(groups) + 1
    <3>1. Append(groups, group)[i] = group
      BY <2>1
    <3>. QED BY <3>1
  <2>2. CASE i # Len(groups) + 1
    <3>1. Append(groups, group)[i] = groups[i] /\ i \in DOMAIN groups
      BY <1>1, <2>2
    <3>. QED BY <3>1 DEF AllSpan
  <2>. QED BY <2>1, <2>2
<1>3. Append(groups, group)[1] = IF groups = <<>> THEN group ELSE groups[1]
  OBVIOUS
<1>4. Append(groups, group)[1][1] = words[1]
  BY <1>3 DEF AllSpan
<1>. QED BY <1>1, <1>2, <1>4 DEF AllSpan

(* The word at k + 1 joins a group, or begins one.                         *)
LEMMA GroupStep ==
    ASSUME NEW words \in Seq(Word), NEW k \in Nat, k + 1 \in DOMAIN words,
           NEW acc, Grouped(acc, words, k)
    PROVE  Grouped(Group(acc, words[k + 1]), words, k + 1)
<1> DEFINE w == words[k + 1]
           split == Splits(acc.open, w)
           done == IF split THEN Append(acc.done, acc.open) ELSE acc.done
           open == IF split THEN <<w>> ELSE Append(acc.open, w)
<1>1. w \in Word /\ acc \in Grouping /\ acc.done \in Seq(Seq(Word)) /\ acc.open \in Seq(Word)
  BY DEF Grouped, Grouping
<1>2. \A g : Spans(g, words, k) => Spans(g, words, k + 1)
  <2>1. 1 .. k \subseteq 1 .. k + 1
    OBVIOUS
  <2>. QED BY <2>1 DEF Spans
<1> HIDE DEF w, split
<1>4. done \in Seq(Seq(Word)) /\ AllSpan(done, words, k + 1) /\ (done = <<>> => ~ split /\ acc.done = <<>>)
  <2>1. AllSpan(acc.done, words, k + 1)
    BY <1>2 DEF Grouped, AllSpan
  <2>2. CASE split
    <3>1. acc.open # <<>>
      BY <2>2 DEF split, Splits
    <3>2. Spans(acc.open, words, k + 1) /\ (acc.done = <<>> => acc.open[1] = words[1]) /\ k + 1 \in Nat
      BY <1>2, <3>1 DEF Grouped
    <3>3. /\ AllSpan(Append(acc.done, acc.open), words, k + 1)
          /\ Append(acc.done, acc.open) \in Seq(Seq(Word)) /\ Append(acc.done, acc.open) # <<>>
      BY <1>1, <2>1, <3>2, OneMoreSpans
    <3>. QED BY <2>2, <3>3
  <2>3. CASE ~ split
    BY <1>1, <2>1, <2>3
  <2>. QED BY <2>2, <2>3
<1>5. open \in Seq(Word) /\ open # <<>> /\ Len(open) \in Nat \ {0}
  <2>1. CASE split
    BY <1>1, <2>1
  <2>2. CASE ~ split
    <3>1. Append(acc.open, w) \in Seq(Word) /\ Len(Append(acc.open, w)) = Len(acc.open) + 1 /\ Len(acc.open) \in Nat
      BY <1>1
    <3>. QED BY <2>2, <3>1
  <2>. QED BY <2>1, <2>2
<1>6. Spans(open, words, k + 1) /\ (done = <<>> => open[1] = words[1])
  <2>1. w = words[k + 1] /\ k + 1 \in 1 .. k + 1
    BY DEF w
  <2>2. CASE split
    <3>1. open = <<w>> /\ open[1] = w /\ open[Len(open)] = w /\ done # <<>>
      BY <1>4, <2>2
    <3> HIDE DEF open, done
    <3>. QED BY <1>5, <2>1, <3>1 DEF Spans
  <2>3. CASE ~ split /\ acc.open = <<>>
    <3>1. open = <<w>> /\ open[1] = w /\ open[Len(open)] = w
      BY <1>1, <2>3
    <3>2. done = <<>> => k = 0
      BY <2>3 DEF Grouped
    <3> HIDE DEF open, done
    <3>. QED BY <1>5, <2>1, <3>1, <3>2 DEF Spans
  <2>4. CASE ~ split /\ acc.open # <<>>
    <3>1. open = Append(acc.open, w) /\ open[Len(open)] = w /\ open[1] = acc.open[1] /\ done = acc.done
      BY <1>1, <2>4
    <3>2. Spans(acc.open, words, k) /\ (done = <<>> => open[1] = words[1])
      BY <2>4, <3>1 DEF Grouped
    <3> HIDE DEF open, done
    <3>3. PICK lo \in 1 .. k : acc.open[1] = words[lo]
      BY <3>2 DEF Spans
    <3>4. lo \in 1 .. k + 1
      BY <3>3
    <3>. QED BY <1>5, <2>1, <3>1, <3>2, <3>3, <3>4 DEF Spans
  <2>. QED BY <2>2, <2>3, <2>4
<1>7. Group(acc, w) = IF w.kind = "terminal" /\ Len(open) >= 3
                      THEN [done |-> Append(done, open), open |-> <<>>]
                      ELSE [done |-> done, open |-> open]
  BY DEF Group, split
<1> HIDE DEF done, open
<1>8. CASE w.kind = "terminal" /\ Len(open) >= 3
  <2>1. /\ AllSpan(Append(done, open), words, k + 1) /\ Append(done, open) \in Seq(Seq(Word))
        /\ Append(done, open) # <<>>
    <3>1. k + 1 \in Nat
      OBVIOUS
    <3>. QED BY <1>4, <1>5, <1>6, <3>1, OneMoreSpans
  <2>2. Group(acc, w) = [done |-> Append(done, open), open |-> <<>>]
    BY <1>7, <1>8
  <2>3. Group(acc, w).done = Append(done, open) /\ Group(acc, w).open = <<>> /\ Group(acc, w) \in Grouping
    BY <2>1, <2>2 DEF Grouping
  <2>. QED BY <2>1, <2>3 DEF Grouped, w
<1>9. CASE ~ (w.kind = "terminal" /\ Len(open) >= 3)
  <2>2. Group(acc, w) = [done |-> done, open |-> open]
    BY <1>7, <1>9
  <2>3. Group(acc, w).done = done /\ Group(acc, w).open = open /\ Group(acc, w) \in Grouping
    BY <1>4, <1>5, <2>2 DEF Grouping
  <2>. QED BY <1>4, <1>5, <1>6, <2>3 DEF Grouped, w
<1>. QED BY <1>8, <1>9

(* The grouping never leaves its type.                                     *)
LEMMA GroupTyped ==
    ASSUME NEW acc \in Grouping, NEW w \in Word
    PROVE  Group(acc, w) \in Grouping
<1> DEFINE split == Splits(acc.open, w)
           done == IF split THEN Append(acc.done, acc.open) ELSE acc.done
           open == IF split THEN <<w>> ELSE Append(acc.open, w)
<1>1. acc.done \in Seq(Seq(Word)) /\ acc.open \in Seq(Word)
  BY DEF Grouping
<1> HIDE DEF split
<1>2. done \in Seq(Seq(Word)) /\ open \in Seq(Word)
  BY <1>1
<1>3. Group(acc, w) = IF w.kind = "terminal" /\ Len(open) >= 3
                      THEN [done |-> Append(done, open), open |-> <<>>]
                      ELSE [done |-> done, open |-> open]
  BY DEF Group, split
<1> HIDE DEF done, open
<1>4. Append(done, open) \in Seq(Seq(Word)) /\ <<>> \in Seq(Word)
  BY <1>2
<1>. QED BY <1>2, <1>3, <1>4 DEF Grouping

(* The groups of all the words.                                            *)
LEMMA GroupsSpan ==
    ASSUME NEW words \in Seq(Word), NEW all, all = FoldLeft(Group, [done |-> <<>>, open |-> <<>>], words)
    PROVE  Grouped(all, words, Len(words))
<1> DEFINE base == [done |-> <<>>, open |-> <<>>]
           n == Len(words)
<1>1. base \in Grouping /\ base.done = <<>> /\ base.open = <<>>
  BY DEF Grouping
<1>2. n \in Nat /\ DOMAIN words = 1 .. n
  OBVIOUS
<1> HIDE DEF base, n
<1>3. PICK at \in [0 .. n -> Grouping] : /\ at[0] = base
                                         /\ \A k \in 1 .. n : at[k] = Group(at[k - 1], words[k])
                                         /\ at[n] = FoldLeft(Group, base, words)
  BY <1>1, GroupTyped, GroupFolds DEF n
<1> DEFINE T == {k \in Nat : k <= n => Grouped(at[k], words, k)}
<1>4. 0 \in T
  BY <1>1, <1>3 DEF Grouped, AllSpan
<1>5. ASSUME NEW k \in Nat, k \in T PROVE k + 1 \in T
  <2>1. ASSUME k + 1 <= n PROVE Grouped(at[k + 1], words, k + 1)
    <3>1. k + 1 \in 1 .. n /\ (k + 1) - 1 = k /\ Grouped(at[k], words, k)
      BY <1>2, <1>5, <2>1
    <3>2. at[k + 1] = Group(at[k], words[k + 1])
      BY <1>3, <3>1
    <3>. QED BY <1>2, <3>1, <3>2, GroupStep
  <2>. QED BY <2>1
<1>6. n \in T
  <2> HIDE DEF T
  <2>. QED BY <1>2, <1>4, <1>5, Counting
<1>7. Grouped(at[n], words, n)
  BY <1>2, <1>6
<1>. QED BY <1>3, <1>7 DEF base, n

(* segments_from_words.                                                    *)
LEMMA GroupsOfWords ==
    ASSUME NEW words \in Seq(Word)
    PROVE  /\ SegmentsFromWords(words) \in Seq(Seq(Word))
           /\ AllSpan(SegmentsFromWords(words), words, Len(words))
           /\ words # <<>> => SegmentsFromWords(words) # <<>>
<1> DEFINE all == FoldLeft(Group, [done |-> <<>>, open |-> <<>>], words)
           n == Len(words)
<1>1. SegmentsFromWords(words) = IF all.open = <<>> THEN all.done ELSE Append(all.done, all.open)
  BY DEF SegmentsFromWords
<1>2. n \in Nat /\ (words # <<>> => n # 0)
  OBVIOUS
<1> HIDE DEF all
<1>3. Grouped(all, words, n)
  BY GroupsSpan DEF all
<1> HIDE DEF n
<1>4. all.done \in Seq(Seq(Word)) /\ all.open \in Seq(Word) /\ AllSpan(all.done, words, n)
  BY <1>3 DEF Grouped, Grouping
<1>5. CASE all.open # <<>>
  <2>1. Spans(all.open, words, n) /\ (all.done = <<>> => all.open[1] = words[1])
    BY <1>3, <1>5 DEF Grouped
  <2>2. SegmentsFromWords(words) = Append(all.done, all.open)
    BY <1>1, <1>5
  <2>. QED BY <1>2, <1>4, <2>1, <2>2, OneMoreSpans DEF n
<1>6. CASE all.open = <<>>
  <2>1. SegmentsFromWords(words) = all.done
    BY <1>1, <1>6
  <2>2. words # <<>> => all.done # <<>>
    BY <1>2, <1>3, <1>6 DEF Grouped
  <2>. QED BY <1>4, <2>1, <2>2 DEF n
<1>. QED BY <1>5, <1>6

(* The words that provider's segments take.                                *)
Covering == [done : Seq(Seq(Word)), open : Seq(Word), at : Nat]

Covered(acc, words, k) ==
    /\ acc \in Covering
    /\ AllSpan(acc.done, words, k)
    /\ acc.at # 0 => acc.open # <<>>
    /\ \A i \in DOMAIN acc.open : \E j \in 1 .. k : acc.open[i] = words[j]
    /\ acc.open # <<>> /\ acc.done = <<>> => acc.open[1] = words[1]
    /\ acc.done = <<>> /\ acc.open = <<>> => k = 0

(* The groups of some of the words are groups of the words.                *)
LEMMA GroupsTogether ==
    ASSUME NEW words, NEW k \in Nat, NEW done \in Seq(Seq(Word)), AllSpan(done, words, k),
           NEW open \in Seq(Word), \A i \in DOMAIN open : \E j \in 1 .. k : open[i] = words[j],
           open # <<>> /\ done = <<>> => open[1] = words[1],
           NEW groups \in Seq(Seq(Word)), AllSpan(groups, open, Len(open))
    PROVE  done \o groups \in Seq(Seq(Word)) /\ AllSpan(done \o groups, words, k)
<1> DEFINE S == Seq(Word)
           d == Len(done)
           g == Len(groups)
           both == done \o groups
<1>1. /\ both \in Seq(S) /\ d \in Nat /\ g \in Nat /\ DOMAIN done = 1 .. d /\ DOMAIN groups = 1 .. g
      /\ DOMAIN both = 1 .. d + g
      /\ \A i \in 1 .. d + g : both[i] = IF i <= d THEN done[i] ELSE groups[i - d]
      /\ done = <<>> <=> d = 0
  <2> HIDE DEF S
  <2>1. done \in Seq(S) /\ groups \in Seq(S)
    BY DEF S
  <2>. QED BY <2>1
<1> HIDE DEF S, both, d, g
<1>2. ASSUME NEW i \in 1 .. g
      PROVE  /\ Spans(groups[i], words, k) /\ open # <<>>
             /\ groups[1][1] = open[1]
  <2>1. Spans(groups[i], open, Len(open)) /\ groups # <<>>
    <3>1. i \in DOMAIN groups
      BY <1>1
    <3>2. Spans(groups[i], open, Len(open))
      BY <3>1 DEF AllSpan
    <3>3. groups # <<>>
      BY <3>1
    <3>. QED BY <3>2, <3>3
  <2>2. PICK lo, hi \in 1 .. Len(open) :
           groups[i][1] = open[lo] /\ groups[i][Len(groups[i])] = open[hi]
    BY <2>1 DEF Spans
  <2>3. lo \in DOMAIN open /\ hi \in DOMAIN open /\ open # <<>>
    BY <2>2
  <2>4. (\E j \in 1 .. k : open[lo] = words[j]) /\ \E j \in 1 .. k : open[hi] = words[j]
    BY <2>3
  <2>. QED BY <2>1, <2>2, <2>3, <2>4 DEF Spans, AllSpan
<1>3. ASSUME NEW i \in 1 .. d + g PROVE Spans(both[i], words, k)
  <2>1. CASE i <= d
    <3>1. i \in DOMAIN done /\ both[i] = done[i]
      BY <1>1, <2>1
    <3>. QED BY <3>1 DEF AllSpan
  <2>2. CASE ~ i <= d
    <3>1. i - d \in 1 .. g /\ both[i] = groups[i - d]
      BY <1>1, <2>2
    <3>. QED BY <1>2, <3>1
  <2>. QED BY <2>1, <2>2
<1>4. ASSUME both # <<>> PROVE both[1][1] = words[1]
  <2>1. CASE d # 0
    <3>1. 1 \in 1 .. d + g /\ 1 <= d
      BY <1>1, <2>1
    <3>2. both[1] = done[1] /\ done # <<>>
      BY <1>1, <2>1, <3>1
    <3>. QED BY <3>2 DEF AllSpan
  <2>2. CASE d = 0
    <3>1. 1 \in 1 .. g
      <4>1. d + g # 0
        BY <1>1, <1>4
      <4>. QED BY <1>1, <2>2, <4>1
    <3>2. both[1] = groups[1]
      BY <1>1, <2>2, <3>1
    <3>. QED BY <1>1, <1>2, <2>2, <3>1, <3>2
  <2>. QED BY <2>1, <2>2
<1>. QED BY <1>1, <1>3, <1>4 DEF AllSpan, S, both

LEMMA ClosedSpans ==
    ASSUME NEW words, NEW k \in Nat, NEW acc, Covered(acc, words, k)
    PROVE  /\ Closed(acc) \in Seq(Seq(Word)) /\ AllSpan(Closed(acc), words, k)
           /\ Closed(acc) = <<>> => k = 0
<1> DEFINE S == Seq(Word)
           done == acc.done
           open == acc.open
           groups == SegmentsFromWords(open)
<1>1. /\ done \in Seq(S) /\ open \in S /\ AllSpan(done, words, k)
      /\ \A i \in DOMAIN open : \E j \in 1 .. k : open[i] = words[j]
      /\ open # <<>> /\ done = <<>> => open[1] = words[1]
      /\ done = <<>> /\ open = <<>> => k = 0
  BY DEF Covered, Covering
<1>2. /\ groups \in Seq(S) /\ AllSpan(groups, open, Len(open))
      /\ open # <<>> => groups # <<>>
  BY <1>1, GroupsOfWords
<1>3. \/ Closed(acc) = done \o groups
      \/ Closed(acc) = Append(done, open) /\ open # <<>>
  BY DEF Closed, Covered
<1>4. /\ done \o groups \in Seq(Seq(Word)) /\ AllSpan(done \o groups, words, k)
  <2> HIDE DEF done, open, groups
  <2>1. done \in Seq(Seq(Word)) /\ open \in Seq(Word) /\ groups \in Seq(Seq(Word))
    BY <1>1, <1>2
  <2> HIDE DEF S
  <2>. QED BY <1>1, <1>2, <2>1, GroupsTogether, Zenon
<1> HIDE DEF done, open, groups
<1>5. CASE Closed(acc) = done \o groups
  <2>1. done \o groups = <<>> => done = <<>> /\ groups = <<>>
    <3> HIDE DEF S
    <3>1. Len(done \o groups) = Len(done) + Len(groups) /\ Len(done) \in Nat /\ Len(groups) \in Nat
      BY <1>1, <1>2
    <3>2. ASSUME done \o groups = <<>> PROVE Len(done) = 0 /\ Len(groups) = 0
      <4>1. Len(done \o groups) = 0
        BY <3>2
      <4>. QED BY <3>1, <4>1
    <3>3. (Len(done) = 0 => done = <<>>) /\ (Len(groups) = 0 => groups = <<>>)
      BY <1>1, <1>2
    <3>. QED BY <3>2, <3>3
  <2>2. Closed(acc) = <<>> => k = 0
    BY <1>1, <1>2, <1>5, <2>1, Zenon
  <2>. QED BY <1>4, <1>5, <2>2, Zenon
<1>6. CASE Closed(acc) = Append(done, open) /\ open # <<>>
  <2>1. 1 \in DOMAIN open /\ Len(open) \in DOMAIN open
    BY <1>1, <1>6
  <2>2. (\E j \in 1 .. k : open[1] = words[j]) /\ \E j \in 1 .. k : open[Len(open)] = words[j]
    BY <1>1, <2>1
  <2>3. Spans(open, words, k)
    BY <1>6, <2>2 DEF Spans
  <2>4. done \in Seq(Seq(Word)) /\ open \in Seq(Word)
    BY <1>1
  <2>5. done = <<>> => open[1] = words[1]
    BY <1>1, <1>6
  <2> HIDE DEF S
  <2>6. /\ AllSpan(Append(done, open), words, k) /\ Append(done, open) \in Seq(Seq(Word))
        /\ Append(done, open) # <<>>
    BY <1>1, <2>3, <2>4, <2>5, OneMoreSpans, Zenon
  <2>. QED BY <1>6, <2>6, Zenon
<1>. QED BY <1>3, <1>5, <1>6

(* The covering never leaves its type.                                     *)
LEMMA CoverTyped ==
    ASSUME NEW acc \in Covering, NEW x \in Placing
    PROVE  Cover(acc, x) \in Covering
<1>1. acc.done \in Seq(Seq(Word)) /\ acc.open \in Seq(Word) /\ acc.at \in Nat
  BY DEF Covering
<1>2. x.word \in Word /\ x.place \in Nat
  BY DEF Placing
<1>3. Closed(acc) \in Seq(Seq(Word))
  <2> DEFINE groups == SegmentsFromWords(acc.open)
             S == Seq(Word)
  <2>1. groups \in Seq(S) /\ acc.done \in Seq(S) /\ acc.open \in S
    BY <1>1, GroupsOfWords
  <2>2. Closed(acc) = acc.done \o groups \/ Closed(acc) = Append(acc.done, acc.open)
    BY DEF Closed
  <2> HIDE DEF groups, S
  <2>3. acc.done \o groups \in Seq(S) /\ Append(acc.done, acc.open) \in Seq(S)
    BY <2>1
  <2>. QED BY <2>2, <2>3 DEF S
<1>4. CASE x.place # acc.at
  <2>1. Cover(acc, x) = [done |-> Closed(acc), open |-> <<x.word>>, at |-> x.place]
    BY <1>4 DEF Cover
  <2>2. <<x.word>> \in Seq(Word)
    BY <1>2
  <2>. QED BY <1>2, <1>3, <2>1, <2>2 DEF Covering
<1>5. CASE x.place = acc.at /\ x.early
  BY <1>5 DEF Cover
<1>6. CASE x.place = acc.at /\ ~ x.early
  <2>1. Append(acc.open, x.word) \in Seq(Word)
    BY <1>1, <1>2
  <2>2. Cover(acc, x) = [acc EXCEPT !.open = Append(acc.open, x.word)]
    BY <1>6 DEF Cover
  <2>. QED BY <2>1, <2>2 DEF Covering
<1>. QED BY <1>4, <1>5, <1>6

(* The word at k + 1 is taken by the same segment as the last, skipped, or
   taken by another.                                                       *)
LEMMA CoverStep ==
    ASSUME NEW words \in Seq(Word), NEW k \in Nat, k + 1 \in DOMAIN words,
           NEW acc, Covered(acc, words, k),
           NEW x \in Placing, x.word = words[k + 1], x.early => x.place # 0
    PROVE  Covered(Cover(acc, x), words, k + 1)
<1>1. /\ acc \in Covering /\ acc.done \in Seq(Seq(Word)) /\ acc.open \in Seq(Word)
      /\ Cover(acc, x) \in Covering
  BY CoverTyped DEF Covered, Covering
<1>2. (1 .. k) \subseteq 1 .. k + 1 /\ k + 1 \in 1 .. k + 1 /\ k + 1 # 0
  OBVIOUS
<1>3. \A groups : AllSpan(groups, words, k) => AllSpan(groups, words, k + 1)
  BY <1>2 DEF AllSpan, Spans
<1>4. CASE x.place # acc.at
  <2>1. /\ Cover(acc, x).done = Closed(acc) /\ Cover(acc, x).open = <<x.word>>
        /\ Cover(acc, x).at = x.place
    BY <1>4 DEF Cover
  <2>2. AllSpan(Closed(acc), words, k) /\ (Closed(acc) = <<>> => k = 0)
    BY ClosedSpans
  <2>3. <<x.word>> # <<>> /\ <<x.word>>[1] = words[k + 1] /\ DOMAIN <<x.word>> = {1}
    <3> DEFINE v == x.word
    <3>1. v = words[k + 1]
      OBVIOUS
    <3> HIDE DEF v
    <3>2. <<v>> # <<>> /\ <<v>>[1] = v /\ Len(<<v>>) = 1
      OBVIOUS
    <3>3. DOMAIN <<v>> = 1 .. 1
      OBVIOUS
    <3>4. 1 .. 1 = {1}
      OBVIOUS
    <3>5. <<v>> # <<>> /\ <<v>>[1] = words[k + 1] /\ DOMAIN <<v>> = {1}
      BY <3>1, <3>2, <3>3, <3>4, Zenon
    <3>. QED BY <3>5 DEF v
  <2>4. Closed(acc) = <<>> => words[k + 1] = words[1]
    BY <2>2
  <2> DEFINE c == Cover(acc, x)
  <2>5. /\ c \in Covering /\ c.open # <<>> /\ c.open[1] = words[k + 1] /\ DOMAIN c.open = {1}
        /\ AllSpan(c.done, words, k + 1) /\ (c.done = <<>> => words[k + 1] = words[1])
    BY <1>1, <1>3, <2>1, <2>2, <2>3, <2>4
  <2> HIDE DEF c
  <2>6. Covered(c, words, k + 1)
    BY <1>2, <2>5 DEF Covered
  <2>. QED BY <2>6 DEF c
<1>5. CASE x.place = acc.at /\ x.early
  <2>1. Cover(acc, x) = acc /\ acc.open # <<>>
    BY <1>5 DEF Cover, Covered
  <2>2. Covered(acc, words, k + 1)
    BY <1>2, <1>3, <2>1 DEF Covered
  <2>. QED BY <2>1, <2>2
<1>6. CASE x.place = acc.at /\ ~ x.early
  <2> DEFINE open == Append(acc.open, x.word)
             c == Cover(acc, x)
             n == Len(acc.open)
  <2>1. c = [acc EXCEPT !.open = open]
    BY <1>6 DEF Cover
  <2>2. c.done = acc.done /\ c.open = open /\ c.at = acc.at
    BY <1>1, <2>1 DEF Covering
  <2>3. /\ x.word \in Word /\ n \in Nat /\ DOMAIN acc.open = 1 .. n /\ (acc.open = <<>> <=> n = 0)
        /\ DOMAIN open = 1 .. n + 1 /\ open # <<>>
        /\ \A i \in 1 .. n + 1 : open[i] = IF i = n + 1 THEN x.word ELSE acc.open[i]
    <3> DEFINE was == acc.open
               v == x.word
    <3>1. was \in Seq(Word) /\ v \in Word
      BY <1>1 DEF Placing
    <3> HIDE DEF was, v
    <3>2. Len(was) \in Nat /\ DOMAIN was = 1 .. Len(was) /\ (was = <<>> <=> Len(was) = 0)
      BY <3>1
    <3>3. /\ Append(was, v) \in Seq(Word) /\ Len(Append(was, v)) = Len(was) + 1
          /\ \A i \in 1 .. Len(was) + 1 : Append(was, v)[i] = IF i = Len(was) + 1 THEN v ELSE was[i]
      BY <3>1, <3>2
    <3>4. DOMAIN Append(was, v) = 1 .. Len(was) + 1 /\ Append(was, v) # <<>>
      BY <3>2, <3>3
    <3>. QED BY <3>1, <3>2, <3>3, <3>4 DEF was, v
  <2> HIDE DEF open, c, n
  <2>4. ASSUME NEW i \in DOMAIN open PROVE \E j \in 1 .. k + 1 : open[i] = words[j]
    <3>1. CASE i = n + 1
      BY <1>2, <2>3, <3>1
    <3>2. CASE i # n + 1
      <4>1. i \in DOMAIN acc.open /\ open[i] = acc.open[i]
        BY <2>3, <3>2
      <4>2. \E j \in 1 .. k : acc.open[i] = words[j]
        BY <4>1 DEF Covered
      <4>. QED BY <1>2, <4>1, <4>2
    <3>. QED BY <3>1, <3>2
  <2>5. ASSUME acc.done = <<>> PROVE open[1] = words[1]
    <3>1. CASE n = 0
      <4>1. k = 0 /\ open[1] = x.word
        BY <2>3, <2>5, <3>1 DEF Covered
      <4>. QED BY <4>1
    <3>2. CASE n # 0
      <4>1. open[1] = acc.open[1] /\ acc.open # <<>>
        BY <2>3, <3>2
      <4>. QED BY <2>5, <4>1 DEF Covered
    <3>. QED BY <3>1, <3>2
  <2>6. c \in Covering /\ AllSpan(acc.done, words, k + 1)
    BY <1>1, <1>3 DEF Covered, c
  <2>7. Covered(c, words, k + 1)
    BY <2>2, <2>3, <2>4, <2>5, <2>6 DEF Covered
  <2>. QED BY <2>7 DEF c
<1>. QED BY <1>4, <1>5, <1>6

(* The groups that a provider's segments make.                             *)
LEMMA ProviderSpans ==
    ASSUME NEW words \in Seq(Word), NEW stretches, NEW m \in Nat, DOMAIN stretches = 1 .. m
    PROVE  /\ SegmentsOfProvider(words, stretches) \in Seq(Seq(Word))
           /\ AllSpan(SegmentsOfProvider(words, stretches), words, Len(words))
<1> DEFINE base == [done |-> <<>>, open |-> <<>>, at |-> 0]
           n == Len(words)
           seq == Placed(words, stretches)
           Taken(i) == {k \in DOMAIN stretches : words[i].start < stretches[k].end}
<1>1. base \in Covering /\ base.done = <<>> /\ base.open = <<>> /\ base.at = 0
  BY DEF Covering
<1>2. n \in Nat /\ DOMAIN words = 1 .. n /\ \A i \in 1 .. n : words[i] \in Word
  OBVIOUS
<1>3. ASSUME NEW i \in 1 .. n
      PROVE  seq[i] \in Placing /\ seq[i].word = words[i] /\ (seq[i].early => seq[i].place # 0)
  <2> DEFINE place == IF Taken(i) = {} THEN 0 ELSE Min(Taken(i))
             early == Taken(i) # {} /\ words[i].start < stretches[Min(Taken(i))].start - Slack
  <2>1. seq[i] = [word |-> words[i], place |-> place, early |-> early]
    BY <1>2 DEF Placed
  <2>2. Taken(i) # {} => Min(Taken(i)) \in Nat /\ Min(Taken(i)) # 0
    <3>1. Taken(i) \in SUBSET Int /\ \A k \in Taken(i) : 1 <= k
      OBVIOUS
    <3> DEFINE S == Taken(i)
    <3>2. S \in SUBSET Int /\ \A k \in S : 1 <= k
      BY <3>1
    <3> HIDE DEF S
    <3>3. S # {} => Min(S) \in S
      BY <3>2, MinIn
    <3>4. ASSUME S # {} PROVE Min(S) \in Nat /\ Min(S) # 0
      <4> DEFINE least == Min(S)
      <4>1. least \in Int /\ 1 <= least
        BY <3>2, <3>3, <3>4
      <4> HIDE DEF least
      <4>2. least \in Nat /\ least # 0
        BY <4>1
      <4>. QED BY <4>2 DEF least
    <3>. QED BY <3>4 DEF S
  <2>3. place \in Nat /\ early \in BOOLEAN /\ (early => place # 0)
    BY <2>2
  <2> HIDE DEF place, early, seq
  <2>4. /\ seq[i].word = words[i] /\ seq[i].place = place /\ seq[i].early = early
        /\ seq[i] \in Placing
    BY <1>2, <2>1, <2>3 DEF Placing
  <2>. QED BY <2>3, <2>4
<1>4. seq \in Seq(Placing) /\ Len(seq) = n
  <2>1. seq = [i \in 1 .. n |-> seq[i]]
    BY <1>2 DEF Placed
  <2> HIDE DEF seq
  <2>2. [i \in 1 .. n |-> seq[i]] \in Seq(Placing) /\ Len([i \in 1 .. n |-> seq[i]]) = n
    BY <1>2, <1>3
  <2>. QED BY <2>1, <2>2
<1> HIDE DEF base, n, seq
<1>5. PICK at \in [0 .. n -> Covering] : /\ at[0] = base
                                         /\ \A k \in 1 .. n : at[k] = Cover(at[k - 1], seq[k])
                                         /\ at[n] = FoldLeft(Cover, base, seq)
  <2>1. \A acc \in Covering, x \in Placing : Cover(acc, x) \in Covering
    BY CoverTyped
  <2>2. base \in Covering
    BY <1>1
  <2> DEFINE C == Covering
  <2> HIDE DEF C
  <2>3. seq \in Seq(Placing) /\ base \in C /\ \A acc \in C, x \in Placing : Cover(acc, x) \in C
    BY <1>4, <2>1, <2>2 DEF C
  <2>4. \E at \in [0 .. Len(seq) -> C] :
           /\ at[0] = base
           /\ \A k \in 1 .. Len(seq) : at[k] = Cover(at[k - 1], seq[k])
           /\ at[Len(seq)] = FoldLeft(Cover, base, seq)
    BY <2>3, CoverFolds
  <2>. QED BY <1>4, <2>4 DEF C
<1> DEFINE T == {k \in Nat : k <= n => Covered(at[k], words, k)}
<1>6. 0 \in T
  BY <1>1, <1>5 DEF Covered, AllSpan
<1>7. ASSUME NEW k \in Nat, k \in T PROVE k + 1 \in T
  <2>1. ASSUME k + 1 <= n PROVE Covered(at[k + 1], words, k + 1)
    <3>1. k + 1 \in 1 .. n /\ (k + 1) - 1 = k /\ Covered(at[k], words, k)
      BY <1>2, <1>7, <2>1
    <3>2. at[k + 1] = Cover(at[k], seq[k + 1])
      BY <1>5, <3>1
    <3>3. seq[k + 1] \in Placing /\ seq[k + 1].word = words[k + 1]
          /\ (seq[k + 1].early => seq[k + 1].place # 0)
      BY <1>3, <3>1
    <3>. QED BY <1>2, <3>1, <3>2, <3>3, CoverStep
  <2>. QED BY <2>1
<1>8. n \in T
  <2> HIDE DEF T
  <2>. QED BY <1>2, <1>6, <1>7, Counting
<1>9. Covered(at[n], words, n)
  BY <1>2, <1>8
<1>10. SegmentsOfProvider(words, stretches) = Closed(at[n])
  BY <1>5 DEF SegmentsOfProvider, base, seq
<1>. QED BY <1>2, <1>9, <1>10, ClosedSpans DEF n

(* What segments_from_words returns, the words themselves left out.        *)
Segment == [start : Nat, end : Nat, first : {"plain", "dangling", "filler", "terminal"},
            last : {"plain", "dangling", "filler", "terminal"}]

(* Each segment starts with one of the words, and ends with a word or an
   instant after it starts; none starts before the first.                   *)
Sound(segments, words) ==
    /\ segments \in Seq(Segment)
    /\ \A i \in DOMAIN segments :
          /\ segments[i].start < segments[i].end /\ segments[i].end <= Duration + 1
          /\ segments[1].start <= segments[i].start
          /\ \E j \in DOMAIN words : segments[i].start = words[j].start
          /\ \/ \E j \in DOMAIN words : segments[i].end = words[j].end
             \/ segments[i].end = segments[i].start + 1

(* The segment of a group of words.                                        *)
SegmentOf(group) ==
    [start |-> Head(group).start, end |-> Max({Last(group).end, Head(group).start + 1}),
     first |-> Head(group).kind, last |-> Last(group).kind]

(* The times of a transcript.                                              *)
LEMMA WordTimes ==
    ASSUME NEW words, Timed(words), NEW i \in DOMAIN words
    PROVE  /\ words[i] \in Word /\ words[i].start \in Nat /\ words[i].end \in Nat /\ Duration \in Nat
           /\ words[i].start <= words[i].end /\ words[i].end <= Duration
<1>1. words[i] \in Word /\ Duration \in Nat
  BY MomentsAssumption DEF Timed
<1>2. words[i].start \in Int /\ words[i].end \in Int
  BY <1>1 DEF Word
<1>. QED BY <1>1, <1>2 DEF Timed

(* A group makes a segment.                                                *)
LEMMA GroupIsSegment ==
    ASSUME NEW words, Timed(words), NEW group \in Seq(Word), Spans(group, words, Len(words)),
           NEW segment, segment = SegmentOf(group)
    PROVE  /\ segment \in Segment
           /\ segment.start = group[1].start
           /\ segment.start < segment.end /\ segment.end <= Duration + 1
           /\ words[1].start <= segment.start
           /\ \E j \in DOMAIN words : segment.start = words[j].start
           /\ \/ \E j \in DOMAIN words : segment.end = words[j].end
              \/ segment.end = segment.start + 1
<1>1. PICK lo, hi \in 1 .. Len(words) : group[1] = words[lo] /\ group[Len(group)] = words[hi]
  BY DEF Spans
<1>2. words \in Seq(Word) /\ DOMAIN words = 1 .. Len(words) /\ Len(words) \in Nat /\ 1 \in 1 .. Len(words)
  BY DEF Timed
<1>3. Head(group) = words[lo] /\ Last(group) = words[hi]
  <2>1. group # <<>>
    BY DEF Spans
  <2>. QED BY <1>1, <2>1 DEF Last
<1> DEFINE a == words[lo]
           b == words[hi]
           start == a.start
           end == Max({b.end, start + 1})
<1>4. a \in Word /\ b \in Word
  BY <1>1, <1>2
<1>5. Duration \in Int /\ 0 <= start /\ start <= Duration /\ b.end <= Duration
  <2>1. 0 <= a.start /\ a.start <= a.end /\ a.end <= Duration /\ b.end <= Duration
    <3>1. lo \in DOMAIN words /\ hi \in DOMAIN words
      BY <1>1, <1>2
    <3>. QED BY <3>1 DEF Timed
  <2>2. Duration \in Nat /\ a.start \in Int /\ a.end \in Int
    BY <1>4, MomentsAssumption DEF Word
  <2> HIDE DEF a, b
  <2>. QED BY <2>1, <2>2
<1>6. words[1].start <= start
  <2>1. CASE lo = 1
    BY <1>4, <2>1 DEF Word
  <2>2. CASE lo # 1
    <3>1. words[1].end <= words[lo].start /\ words[1].start <= words[1].end
      BY <1>1, <1>2, <2>2 DEF Timed
    <3>2. words[1].start \in Int /\ words[1].end \in Int /\ words[lo].start \in Int
      BY <1>1, <1>2, WordTimes
    <3>. QED BY <3>1, <3>2
  <2>. QED BY <2>1, <2>2
<1>7. segment = [start |-> start, end |-> end, first |-> a.kind, last |-> b.kind]
  BY <1>3 DEF SegmentOf
<1>8. start \in Int /\ b.end \in Int /\ a.kind \in {"plain", "dangling", "filler", "terminal"}
      /\ b.kind \in {"plain", "dangling", "filler", "terminal"}
  BY <1>4 DEF Word
<1>9. group[1].start = start
  BY <1>1
<1>10. (\E j \in DOMAIN words : start = words[j].start) /\ \E j \in DOMAIN words : b.end = words[j].end
  BY <1>1, <1>2
<1> HIDE DEF a, b, start
<1>11. end \in {b.end, start + 1} /\ start + 1 <= end
  <2> DEFINE next == start + 1
             over == b.end
  <2>1. next \in Int /\ over \in Int
    BY <1>8
  <2>2. end = Max({over, next})
    OBVIOUS
  <2> HIDE DEF end, next, over
  <2>3. Max({over, next}) \in {over, next} /\ next <= Max({over, next})
    BY <2>1, OfTwo
  <2>4. end \in {over, next} /\ next <= end
    BY <2>2, <2>3
  <2>. QED BY <2>4 DEF next, over
<1> HIDE DEF end
<1>12. end \in Nat /\ start < end /\ end <= Duration + 1 /\ start \in Nat
  BY <1>5, <1>8, <1>11
<1>13. segment.start = start /\ segment.end = end /\ segment \in Segment
  BY <1>7, <1>8, <1>12 DEF Segment
<1>14. end = b.end \/ end = start + 1
  BY <1>11
<1>. QED BY <1>6, <1>9, <1>10, <1>12, <1>13, <1>14

(* Whatever the words and the provider's segments, the segments are sound.  *)
LEMMA SegmentsAreSound ==
    ASSUME NEW words, Timed(words), NEW stretches \in Seq(Stretch)
    PROVE  Sound(Segments(words, stretches), words)
<1> DEFINE ordered == Sorted(stretches, Earlier)
           groups == IF stretches = <<>> THEN SegmentsFromWords(words)
                     ELSE SegmentsOfProvider(words, ordered)
           n == Len(words)
<1>1. Segments(words, stretches) = [i \in DOMAIN groups |-> SegmentOf(groups[i])]
  BY DEF Segments, SegmentOf
<1>2. words \in Seq(Word) /\ n \in Nat
  BY DEF Timed
<1>3. DOMAIN ordered = 1 .. Len(stretches) /\ Len(stretches) \in Nat
  BY DEF Sorted
<1> HIDE DEF ordered
<1>4. AllSpan(groups, words, n) /\ groups \in Seq(Seq(Word))
  <2>1. CASE stretches = <<>>
    BY <1>2, <2>1, GroupsOfWords
  <2>2. CASE stretches # <<>>
    BY <1>2, <1>3, <2>2, ProviderSpans
  <2>. QED BY <2>1, <2>2
<1> HIDE DEF groups
<1> DEFINE segments == [i \in DOMAIN groups |-> SegmentOf(groups[i])]
           m == Len(groups)
<1>5. m \in Nat /\ DOMAIN groups = 1 .. m /\ \A i \in 1 .. m : groups[i] \in Seq(Word)
  <2> DEFINE S == Seq(Word)
  <2> HIDE DEF S
  <2>1. groups \in Seq(S)
    BY <1>4 DEF S
  <2>. QED BY <2>1 DEF S
<1> HIDE DEF m, n
<1>6. ASSUME NEW i \in 1 .. m
      PROVE  /\ SegmentOf(groups[i]) \in Segment
             /\ SegmentOf(groups[i]).start = groups[i][1].start
             /\ SegmentOf(groups[i]).start < SegmentOf(groups[i]).end /\ SegmentOf(groups[i]).end <= Duration + 1
             /\ words[1].start <= SegmentOf(groups[i]).start
             /\ \E j \in DOMAIN words : SegmentOf(groups[i]).start = words[j].start
             /\ \/ \E j \in DOMAIN words : SegmentOf(groups[i]).end = words[j].end
                \/ SegmentOf(groups[i]).end = SegmentOf(groups[i]).start + 1
  <2>1. groups[i] \in Seq(Word) /\ Spans(groups[i], words, Len(words))
    BY <1>4, <1>5 DEF AllSpan, n
  <2>. QED BY <2>1, GroupIsSegment
<1>7. ASSUME NEW i \in 1 .. m PROVE SegmentOf(groups[1]).start <= SegmentOf(groups[i]).start
  <2>1. 1 \in 1 .. m /\ groups # <<>>
    BY <1>5
  <2>2. SegmentOf(groups[1]).start = words[1].start
    BY <1>4, <1>6, <2>1 DEF AllSpan
  <2>. QED BY <1>6, <2>2
<1>8. segments \in Seq(Segment) /\ DOMAIN segments = 1 .. m /\ \A i \in 1 .. m : segments[i] = SegmentOf(groups[i])
  <2>1. segments = [i \in 1 .. m |-> segments[i]] /\ \A i \in 1 .. m : segments[i] = SegmentOf(groups[i])
    BY <1>5
  <2>2. \A i \in 1 .. m : segments[i] \in Segment
    BY <1>6, <2>1
  <2> HIDE DEF segments
  <2>3. [i \in 1 .. m |-> segments[i]] \in Seq(Segment)
    BY <1>5, <2>2
  <2>. QED BY <2>1, <2>3
<1>9. Segments(words, stretches) = segments
  BY <1>1
<1> HIDE DEF segments
<1>10. ASSUME NEW i \in 1 .. m
       PROVE  /\ segments[i].start < segments[i].end /\ segments[i].end <= Duration + 1
              /\ segments[1].start <= segments[i].start
              /\ \E j \in DOMAIN words : segments[i].start = words[j].start
              /\ \/ \E j \in DOMAIN words : segments[i].end = words[j].end
                 \/ segments[i].end = segments[i].start + 1
  <2>1. segments[i] = SegmentOf(groups[i]) /\ segments[1] = SegmentOf(groups[1])
    BY <1>5, <1>8
  <2>. QED BY <1>6, <1>7, <2>1
<1>. QED BY <1>8, <1>9, <1>10 DEF Sound

-----------------------------------------------------------------------------
(* The windows.                                                            *)

(* make_windows (chunking.py): every segment is read in some window, however
   the windows overlap.                                                     *)
THEOREM SegmentsAreRead ==
    ASSUME NEW words, NEW segments, Sound(segments, words)
    PROVE  EverySegmentIsRead(segments)
<1> DEFINE step == Max({1, WindowSize - Overlap})
           ends == {segments[i].end : i \in DOMAIN segments}
           end == Max(ends)
           first == segments[1].start
           Begins(k) == first + k * step
           reach == {k \in 0 .. Duration + 1 : Begins(k) + WindowSize >= end}
           last == Min(reach)
           Of(k) == {i \in DOMAIN segments : segments[i].start \in Begins(k) .. Begins(k) + WindowSize - 1}
           n == Len(segments)
<1>1. segments \in Seq(Segment) /\ n \in Nat /\ DOMAIN segments = 1 .. n
  BY DEF Sound
<1>2. CASE segments = <<>>
  BY <1>1, <1>2 DEF EverySegmentIsRead, MakeWindows
<1>3. CASE segments # <<>>
  <2>1. MakeWindows(segments) = {Of(k) : k \in 0 .. last} \ {{}}
    BY <1>3 DEF MakeWindows
  <2>2. \A i \in 1 .. n : segments[i].start \in Nat /\ segments[i].end \in Nat
    <3>1. \A i \in 1 .. n : segments[i] \in Segment
      BY <1>1
    <3>. QED BY <3>1 DEF Segment
  <2>3. /\ 1 \in 1 .. n
        /\ \A i \in 1 .. n : segments[i].start < segments[i].end /\ segments[i].end <= Duration + 1
                             /\ segments[1].start <= segments[i].start
    BY <1>1, <1>3 DEF Sound
  <2>4. Duration \in Nat /\ WindowSize \in Nat /\ WindowSize # 0 /\ Overlap \in Nat
    BY MomentsAssumption
  <2>5. step \in Nat /\ 1 <= step /\ step <= WindowSize
    <3> DEFINE d == WindowSize - Overlap
    <3>1. d \in Int /\ d <= WindowSize
      BY <2>4
    <3> HIDE DEF d
    <3>2. Max({1, d}) \in {1, d} /\ 1 <= Max({1, d})
      BY <3>1, OfTwo
    <3>. QED BY <2>4, <3>1, <3>2 DEF d
  <2>6. end \in ends /\ \A x \in ends : x <= end
    <3>1. ends \in SUBSET Int /\ ends # {} /\ Duration + 1 \in Int /\ \A x \in ends : x <= Duration + 1
      BY <1>1, <2>2, <2>3, <2>4
    <3> HIDE DEF ends
    <3>. QED BY <3>1, MaxIn
  <2>7. /\ end \in Nat /\ end <= Duration + 1 /\ \A i \in 1 .. n : segments[i].end <= end
        /\ first \in Nat
    BY <1>1, <2>2, <2>3, <2>6
  <2> HIDE DEF step, end, first, n
  <2>8. Duration + 1 \in reach
    <3>1. (Duration + 1) * step >= Duration + 1
      BY <2>4, <2>5
    <3>2. (Duration + 1) * step \in Int /\ Duration + 1 \in 0 .. Duration + 1
      BY <2>4, <2>5
    <3>. QED BY <2>4, <2>7, <3>1, <3>2
  <2>9. last \in 0 .. Duration + 1 /\ Begins(last) + WindowSize >= end
    <3>1. reach \in SUBSET Int /\ reach # {} /\ 0 \in Int /\ \A x \in reach : 0 <= x
      BY <2>8
    <3>2. last \in reach
      <4> HIDE DEF reach
      <4>. QED BY <3>1, MinIn
    <3> HIDE DEF last
    <3>. QED BY <3>2
  <2> HIDE DEF last
  <2>10. ASSUME NEW i \in 1 .. n PROVE \E k \in 0 .. last : i \in Of(k)
    <3> DEFINE d == segments[i].start - first
               some == {k \in 0 .. last : k * step <= d}
               k == Max(some)
    <3>1. d \in Nat /\ last \in Nat /\ segments[i].start \in Int /\ segments[i].start < end
      BY <2>2, <2>3, <2>4, <2>7, <2>9 DEF first
    <3>2. 0 \in some
      BY <2>5, <3>1
    <3>3. k \in some /\ \A x \in some : x <= k
      <4>1. some \in SUBSET Int /\ some # {} /\ last \in Int /\ \A x \in some : x <= last
        BY <3>1, <3>2
      <4> HIDE DEF some
      <4>. QED BY <4>1, MaxIn
    <3> HIDE DEF k
    <3>4. k \in 0 .. last /\ k \in Int /\ k * step <= d /\ k * step \in Int
      BY <2>5, <3>1, <3>3
    <3>5. segments[i].start < Begins(k) + WindowSize
      <4>1. CASE k = last
        BY <2>4, <2>7, <2>9, <3>1, <3>4, <4>1
      <4>2. CASE k # last
        <5>1. k + 1 \in 0 .. last /\ k + 1 \notin some
          BY <3>1, <3>3, <3>4, <4>2
        <5>2. (k + 1) * step > d
          BY <2>5, <3>1, <5>1
        <5>3. (k + 1) * step = k * step + step
          BY <2>5, <3>4
        <5>. QED BY <2>4, <2>5, <2>7, <3>1, <3>4, <5>2, <5>3
      <4>. QED BY <4>1, <4>2
    <3>6. Begins(k) <= segments[i].start /\ Begins(k) \in Int
      BY <2>7, <3>1, <3>4
    <3> HIDE DEF Begins, d
    <3>7. segments[i].start \in Begins(k) .. Begins(k) + WindowSize - 1
      BY <2>4, <3>1, <3>5, <3>6
    <3>. QED BY <1>1, <3>4, <3>7 DEF n
  <2>11. \A k : Of(k) \subseteq DOMAIN segments
    OBVIOUS
  <2> HIDE DEF Of
  <2>12. UNION ({Of(k) : k \in 0 .. last} \ {{}}) = 1 .. n
    <3>1. UNION ({Of(k) : k \in 0 .. last} \ {{}}) \subseteq 1 .. n
      BY <1>1, <2>11 DEF n
    <3>2. ASSUME NEW i \in 1 .. n PROVE i \in UNION ({Of(k) : k \in 0 .. last} \ {{}})
      <4>1. PICK k \in 0 .. last : i \in Of(k)
        BY <2>10
      <4>2. Of(k) \in {Of(x) : x \in 0 .. last} /\ Of(k) # {}
        BY <4>1
      <4>. QED BY <4>1, <4>2
    <3>. QED BY <3>1, <3>2
  <2>. QED BY <1>1, <2>1, <2>12 DEF EverySegmentIsRead, n
<1>. QED BY <1>2, <1>3

-----------------------------------------------------------------------------
(* Refining a range.                                                       *)

(* The least of some of the first n places.                                *)
LEMMA LeastAmong ==
    ASSUME NEW n \in Nat, NEW s \in SUBSET (1 .. n), s # {}
    PROVE  Min(s) \in s /\ Min(s) \in 1 .. n /\ \A x \in s : Min(s) <= x
<1>1. s \in SUBSET Int /\ 1 \in Int /\ \A x \in s : 1 <= x
  OBVIOUS
<1>2. Min(s) \in s /\ \A x \in s : Min(s) <= x
  BY <1>1, MinIn
<1>. QED BY <1>2

(* Wherever a range is proposed, what refine moves it to are two of the
   segments: first the bisection of the starts.                             *)
LEMMA StartedByIn ==
    ASSUME NEW segments, NEW n \in Nat \ {0}, DOMAIN segments = 1 .. n, NEW time
    PROVE  StartedBy(segments, time) \in 1 .. n
<1> DEFINE s == {1} \cup {i \in DOMAIN segments : segments[i].start <= time}
<1>1. s \in SUBSET (1 .. n) /\ s # {}
  OBVIOUS
<1>2. StartedBy(segments, time) = Max(s)
  BY DEF StartedBy
<1> HIDE DEF s
<1>. QED BY <1>1, <1>2, MaxAmong

(* The segments a range is snapped to.                                     *)
LEMMA SnappedIn ==
    ASSUME NEW segments, NEW n \in Nat \ {0}, DOMAIN segments = 1 .. n, Len(segments) = n,
           NEW start, NEW end
    PROVE  Snapped(start, end, segments)[1] \in 1 .. n /\ Snapped(start, end, segments)[2] \in 1 .. n
<1> DEFINE si == StartedBy(segments, start + Snap)
           first == IF segments[si].end <= start /\ si < Len(segments) THEN si + 1 ELSE si
           ei == StartedBy(segments, Max({start, end - Snap}))
<1>1. si \in 1 .. n /\ ei \in 1 .. n
  BY StartedByIn
<1>2. Snapped(start, end, segments) = <<first, Max({first, ei})>>
  BY DEF Snapped
<1> HIDE DEF si, ei
<1>3. first \in 1 .. n
  BY <1>1
<1> HIDE DEF first
<1>4. Max({first, ei}) \in {first, ei}
  <2>1. first \in Int /\ ei \in Int
    BY <1>1, <1>3
  <2>. QED BY <2>1, OfTwo
<1>5. Max({first, ei}) \in 1 .. n
  BY <1>1, <1>3, <1>4
<1>. QED BY <1>2, <1>3, <1>5

(* The segment pulled in before a dangling start.                          *)
LEMMA PullInIn ==
    ASSUME NEW segments, NEW n \in Nat, NEW a \in 1 .. n, NEW b
    PROVE  PullIn(segments, a, b) \in 1 .. n
BY DEF PullIn

(* The segments the end moves on to.                                       *)
LEMMA ForwardIn ==
    ASSUME NEW segments, NEW n \in Nat, Len(segments) = n, NEW a, NEW b \in 1 .. n
    PROVE  ToSentence(segments, a, b) \in 1 .. n /\ Forward(segments, a, b) \in 1 .. n
<1> DEFINE s == {e \in b .. Len(segments) : \/ segments[e].last = "terminal"
                                            \/ e = Len(segments)
                                            \/ Length(segments, a, e + 1) > MaxLength}
           f == {e \in b .. Len(segments) : \/ Length(segments, a, e) >= MinLength
                                            \/ e = Len(segments)
                                            \/ Length(segments, a, e + 1) > MaxLength}
<1>1. n \in s /\ s \in SUBSET (1 .. n) /\ n \in f /\ f \in SUBSET (1 .. n)
  OBVIOUS
<1>2. ToSentence(segments, a, b) = Min(s) /\ Forward(segments, a, b) = Min(f)
  BY DEF ToSentence, Forward
<1> HIDE DEF s, f
<1>3. Min(s) \in 1 .. n
  BY <1>1, LeastAmong
<1>4. Min(f) \in 1 .. n
  BY <1>1, LeastAmong
<1>. QED BY <1>2, <1>3, <1>4

(* The segment the start moves back to.                                    *)
LEMMA BackwardIn ==
    ASSUME NEW segments, NEW n \in Nat, NEW a \in 1 .. n, NEW b
    PROVE  Backward(segments, a, b) \in 1 .. n
<1> DEFINE s == {x \in 1 .. a : \/ Length(segments, x, b) >= MinLength
                                \/ x = 1
                                \/ Length(segments, x - 1, b) > MaxLength}
<1>1. 1 \in s /\ s \in SUBSET (1 .. n)
  OBVIOUS
<1>2. Backward(segments, a, b) = Max(s)
  BY DEF Backward
<1> HIDE DEF s
<1>3. Max(s) \in 1 .. n
  BY <1>1, MaxAmong
<1>. QED BY <1>2, <1>3

(* The segment the end is trimmed to.                                      *)
LEMMA TrimIn ==
    ASSUME NEW segments, NEW n \in Nat, NEW a \in 1 .. n, NEW b \in 1 .. n
    PROVE  Trim(segments, a, b) \in 1 .. n
<1> DEFINE fitting == {e \in a .. b : Length(segments, a, e) <= MaxLength}
           terminal == {e \in fitting : segments[e].last = "terminal"}
<1>1. fitting \in SUBSET (1 .. n) /\ terminal \in SUBSET (1 .. n)
  OBVIOUS
<1>2. Trim(segments, a, b) = IF Length(segments, a, b) <= MaxLength THEN b
                             ELSE IF terminal # {} THEN Max(terminal)
                             ELSE IF fitting # {} THEN Max(fitting) ELSE a
  BY DEF Trim
<1> HIDE DEF fitting, terminal
<1>3. fitting # {} => Max(fitting) \in 1 .. n
  BY <1>1, MaxAmong
<1>4. terminal # {} => Max(terminal) \in 1 .. n
  BY <1>1, MaxAmong
<1>. QED BY <1>2, <1>3, <1>4

(* No word is over an end of another word.                                 *)
LEMMA NoneOverAnEnd ==
    ASSUME NEW words, Timed(words), NEW i \in DOMAIN words, NEW j \in DOMAIN words
    PROVE  ~ (words[i].start < words[j].end /\ words[j].end < words[i].end)
<1>1. /\ words[i].start \in Nat /\ words[i].end \in Nat /\ words[i].start <= words[i].end
      /\ words[j].start \in Nat /\ words[j].end \in Nat /\ words[j].start <= words[j].end
  BY WordTimes
<1>2. i \in Int /\ j \in Int
  BY DEF Timed
<1>3. CASE i < j
  <2>1. words[i].end <= words[j].start
    BY <1>3 DEF Timed
  <2>. QED BY <1>1, <2>1
<1>4. CASE j < i
  <2>1. words[j].end <= words[i].start
    BY <1>4 DEF Timed
  <2>. QED BY <1>1, <2>1
<1>5. CASE i = j
  BY <1>1, <1>5
<1>. QED BY <1>2, <1>3, <1>4, <1>5

(* Where a range is cut: at the end it had, at a word's end, or at the
   greatest length, where no word fits.                                     *)
LEMMA CutAt ==
    ASSUME NEW words, Timed(words), NEW S \in Nat, NEW E \in Nat
    PROVE  LET fit == {words[i].end : i \in {j \in DOMAIN words : /\ S <= words[j].start
                                                                  /\ words[j].end <= S + MaxLength}}
               cut == Cut(words, S, E)
           IN  /\ cut \in Nat
               /\ \/ cut = E
                  \/ \E j \in DOMAIN words : cut = words[j].end
                  \/ cut = S + MaxLength /\ fit = {}
<1> DEFINE fit == {words[i].end : i \in {j \in DOMAIN words : /\ S <= words[j].start
                                                              /\ words[j].end <= S + MaxLength}}
           cut == Cut(words, S, E)
<1>1. MaxLength \in Nat
  BY MomentsAssumption
<1>2. cut = IF E - S <= MaxLength THEN E ELSE IF fit = {} THEN S + MaxLength ELSE Max(fit)
  BY DEF Cut
<1>3. /\ fit \in SUBSET Int /\ S + MaxLength \in Int /\ \A x \in fit : x <= S + MaxLength
      /\ \A x \in fit : \E j \in DOMAIN words : x = words[j].end
  BY <1>1, WordTimes
<1> HIDE DEF fit, cut
<1>4. fit # {} => Max(fit) \in fit
  BY <1>3, MaxIn
<1>5. CASE cut = E
  BY <1>5 DEF fit, cut
<1>6. CASE fit = {} /\ cut = S + MaxLength
  BY <1>1, <1>6 DEF fit, cut
<1>7. CASE fit # {} /\ cut = Max(fit)
  <2>1. PICK j \in DOMAIN words : cut = words[j].end
    BY <1>3, <1>4, <1>7
  <2>2. cut \in Nat
    BY <2>1, WordTimes
  <2>. QED BY <2>1, <2>2 DEF cut
<1>. QED BY <1>2, <1>5, <1>6, <1>7

(* The fillers dropped, a range starts with a word as before, not earlier.  *)
LEMMA WithoutFillersAt ==
    ASSUME NEW words, Timed(words), NEW S \in Nat, \E j \in DOMAIN words : S = words[j].start,
           NEW end \in Nat
    PROVE  LET t == WithoutFillers(words, S, end) IN
           /\ t \in Nat /\ S <= t /\ (t = S \/ t < end)
           /\ \E j \in DOMAIN words : t = words[j].start
<1> DEFINE spoken == {words[i].start : i \in {j \in DOMAIN words : /\ words[j].start \in S .. end - 1
                                                                   /\ words[j].kind # "filler"}}
           t == WithoutFillers(words, S, end)
<1>1. t = IF spoken = {} THEN S ELSE Min(spoken)
  BY DEF WithoutFillers
<1>2. /\ spoken \in SUBSET Int /\ \A x \in spoken : x \in Nat /\ S <= x /\ x < end
      /\ \A x \in spoken : \E j \in DOMAIN words : x = words[j].start
  OBVIOUS
<1> HIDE DEF spoken, t
<1>3. spoken # {} => Min(spoken) \in spoken
  BY <1>2, MinIn
<1>4. CASE spoken = {}
  BY <1>1, <1>4 DEF t
<1>5. CASE spoken # {}
  BY <1>1, <1>2, <1>3, <1>5 DEF t
<1>. QED BY <1>4, <1>5

(* The start rolls back, to no place inside a word.                        *)
LEMMA RollsIn ==
    ASSUME NEW words, Timed(words), NEW t \in Nat, \E j \in DOMAIN words : t = words[j].start
    PROVE  LET s == RollIn(words, t) IN
           /\ s \in Nat /\ s <= t
           /\ \A i \in DOMAIN words : ~ (words[i].start < s /\ s < words[i].end)
<1> DEFINE before == {i \in DOMAIN words : words[i].start < t}
           previous == IF before = {} THEN 0 ELSE words[Max(before)].end
           stop == Min({previous, t})
           s == RollIn(words, t)
           n == Len(words)
<1>1. s = Max({0, t - PreRoll, stop})
  BY DEF RollIn
<1>2. PreRoll \in Nat /\ n \in Nat /\ DOMAIN words = 1 .. n
  BY MomentsAssumption DEF Timed
<1>3. before \in SUBSET (1 .. n) /\ \A i \in DOMAIN words : i \in before <=> words[i].start < t
  BY <1>2
<1> HIDE DEF before
<1>4. before # {} => Max(before) \in before /\ \A i \in before : i <= Max(before)
  BY <1>2, <1>3, MaxAmong
<1>5. previous \in Nat
  BY <1>3, <1>4, <1>2, WordTimes
<1> HIDE DEF previous, n
<1>6. stop \in {previous, t} /\ stop <= t /\ stop <= previous
  <2>1. previous \in Int /\ t \in Int
    BY <1>5
  <2>. QED BY <2>1, OfTwo
<1> HIDE DEF stop
<1>7. s \in {0, t - PreRoll, stop} /\ 0 <= s /\ stop <= s
  <2> DEFINE rolled == t - PreRoll
  <2>1. 0 \in Int /\ rolled \in Int /\ stop \in Int
    BY <1>2, <1>5, <1>6
  <2>2. s = Max({0, rolled, stop})
    BY <1>1
  <2> HIDE DEF s, rolled
  <2>3. /\ Max({0, rolled, stop}) \in {0, rolled, stop} /\ 0 <= Max({0, rolled, stop})
        /\ stop <= Max({0, rolled, stop})
    BY <2>1, OfThree
  <2>4. s \in {0, rolled, stop} /\ 0 <= s /\ stop <= s
    BY <2>2, <2>3
  <2>. QED BY <2>4 DEF rolled
<1> HIDE DEF s
<1>8. s \in Nat /\ s <= t /\ stop \in Nat
  BY <1>2, <1>5, <1>6, <1>7
<1>9. ASSUME NEW i \in DOMAIN words, words[i].start < s PROVE ~ s < words[i].end
  <2>1. /\ words[i].start \in Nat /\ words[i].end \in Nat /\ words[i].start < t
        /\ words[i].start <= words[i].end
    BY <1>8, <1>9, WordTimes
  <2>2. i \in before
    BY <1>3, <2>1
  <2> DEFINE m == Max(before)
  <2>3. m \in before /\ i <= m /\ m \in DOMAIN words /\ previous = words[m].end /\ words[m].start < t
    BY <1>2, <1>3, <1>4, <2>2 DEF previous
  <2> HIDE DEF m
  <2>4. words[m].start \in Nat /\ words[m].end \in Nat /\ words[m].start <= words[m].end
    BY <2>3, WordTimes
  <2>5. words[i].end <= words[m].end
    <3>1. CASE i = m
      BY <2>4, <3>1
    <3>2. CASE i # m
      <4>1. i < m
        BY <1>2, <2>3, <3>2
      <4>2. words[i].end <= words[m].start
        BY <2>3, <4>1 DEF Timed
      <4>. QED BY <2>1, <2>4, <4>2
    <3>. QED BY <3>1, <3>2
  <2>6. words[m].end <= t
    <3>1. PICK j \in DOMAIN words : t = words[j].start
      OBVIOUS
    <3>2. j \in Int /\ m \in Int /\ j # m
      BY <1>2, <2>3, <3>1
    <3>3. CASE m < j
      BY <2>3, <3>1, <3>3 DEF Timed
    <3>4. CASE j < m
      <4>1. words[j].end <= words[m].start /\ words[j].start <= words[j].end
        BY <2>3, <3>4 DEF Timed
      <4>2. words[j].end \in Nat /\ words[j].start \in Nat
        BY WordTimes
      <4>. QED BY <2>3, <2>4, <3>1, <4>1, <4>2
    <3>. QED BY <3>2, <3>3, <3>4
  <2>7. stop = previous
    BY <1>5, <1>6, <2>3, <2>4, <2>6
  <2>. QED BY <1>7, <1>8, <2>1, <2>3, <2>4, <2>5, <2>7
<1>10. \A i \in DOMAIN words : ~ (words[i].start < s /\ s < words[i].end)
  BY <1>9
<1>. QED BY <1>8, <1>10 DEF s

(* The end rolls on, into no word that it was not in.                      *)
LEMMA RollsOut ==
    ASSUME NEW words, Timed(words), NEW cut \in Nat
    PROVE  LET r == RollOut(words, cut) IN
           /\ r \in Nat /\ r <= Duration
           /\ \A i \in DOMAIN words : words[i].start < r /\ r < words[i].end =>
                 /\ words[i].start < cut /\ cut < words[i].end
                 /\ cut <= r
<1> DEFINE later == {words[i].start : i \in {j \in DOMAIN words : words[j].start >= cut}}
           next == Min({Duration} \cup later)
           stop == Max({next, cut})
           rolled == cut + PostRoll
           r == RollOut(words, cut)
<1>1. Duration \in Nat /\ PostRoll \in Nat /\ rolled \in Nat /\ cut <= rolled
  BY MomentsAssumption
<1>2. r = Min({Duration, rolled, stop})
  BY DEF RollOut
<1>3. /\ later \in SUBSET Nat
      /\ \A i \in DOMAIN words : words[i].start >= cut => words[i].start \in later
  BY WordTimes
<1> HIDE DEF later, rolled
<1>4. next \in Nat /\ \A x \in later : next <= x
  <2>1. /\ {Duration} \cup later \in SUBSET Int /\ {Duration} \cup later # {} /\ 0 \in Int
        /\ \A x \in {Duration} \cup later : 0 <= x
    BY <1>1, <1>3
  <2>2. Min({Duration} \cup later) \in {Duration} \cup later
    BY <2>1, MinIn
  <2>3. \A x \in {Duration} \cup later : Min({Duration} \cup later) <= x
    BY <2>1, MinIn
  <2>. QED BY <1>1, <1>3, <2>2, <2>3
<1> HIDE DEF next
<1>5. stop \in {next, cut} /\ cut <= stop
  BY <1>4, OfTwo
<1> HIDE DEF stop
<1>6. r \in {Duration, rolled, stop} /\ r <= Duration /\ r <= stop
  <2>1. Duration \in Int /\ rolled \in Int /\ stop \in Int
    BY <1>1, <1>4, <1>5
  <2> HIDE DEF r
  <2>2. /\ Min({Duration, rolled, stop}) \in {Duration, rolled, stop}
        /\ Min({Duration, rolled, stop}) <= Duration /\ Min({Duration, rolled, stop}) <= stop
    BY <2>1, OfThree
  <2>. QED BY <1>2, <2>2
<1> HIDE DEF r
<1>7. r \in Nat /\ stop \in Nat
  BY <1>1, <1>4, <1>5, <1>6
<1>8. ASSUME NEW i \in DOMAIN words, words[i].start < r, r < words[i].end
      PROVE  words[i].start < cut /\ cut < words[i].end /\ cut <= r
  <2>1. words[i].start \in Nat /\ words[i].end \in Nat /\ words[i].end <= Duration
    BY WordTimes
  <2>2. r # Duration /\ cut <= r
    BY <1>1, <1>5, <1>6, <1>7, <1>8, <2>1
  <2>3. words[i].start < cut
    <3>1. CASE words[i].start >= cut
      <4>1. next <= words[i].start
        BY <1>3, <1>4, <3>1
      <4>2. stop <= words[i].start
        BY <1>5, <3>1, <4>1
      <4>. QED BY <1>6, <1>7, <1>8, <2>1, <4>2
    <3>. QED BY <2>1, <3>1
  <2>. QED BY <1>7, <1>8, <2>1, <2>2, <2>3
<1>9. \A i \in DOMAIN words : words[i].start < r /\ r < words[i].end =>
         words[i].start < cut /\ cut < words[i].end /\ cut <= r
  BY <1>8
<1>. QED BY <1>6, <1>7, <1>9 DEF r

(* refine (refine.py): whatever range the model proposed, the moment made of
   it lies in the source, is no longer than allowed, and begins and ends in
   no word, but for the two ends that Natural names.                        *)
THEOREM RefineIsNatural ==
    ASSUME NEW words, Timed(words), NEW segments, Sound(segments, words), NEW start, NEW end,
           NEW range, range = Refine(start, end, segments, words), NEW moment,
           moment.start = range[1], moment.end = range[2]
    PROVE  /\ range[1] \in Nat /\ range[2] \in Nat
           /\ moment.start < moment.end => Natural(moment, words, segments)
<1>0. CASE segments = <<>>
  <2>1. range = <<0, 0>>
    BY <1>0 DEF Refine
  <2>. QED BY <2>1
<1> SUFFICES ASSUME segments # <<>>
             PROVE  /\ range[1] \in Nat /\ range[2] \in Nat
                    /\ moment.start < moment.end => Natural(moment, words, segments)
  BY <1>0
<1> DEFINE n == Len(segments)
           snapped == Snapped(start, end, segments)
           a0 == PullIn(segments, snapped[1], snapped[2])
           b1 == ToSentence(segments, a0, snapped[2])
           b0 == Forward(segments, a0, b1)
           a == Backward(segments, a0, b0)
           b == Trim(segments, a, b0)
           S == segments[a].start
           E == segments[b].end
           cut == Cut(words, S, E)
           t == WithoutFillers(words, S, cut)
           s == RollIn(words, t)
           r == RollOut(words, cut)
           e == Min({s + MaxLength, r})
<1>1. n \in Nat \ {0} /\ DOMAIN segments = 1 .. n /\ \A i \in 1 .. n : segments[i] \in Segment
  BY DEF Sound
<1>2. a \in 1 .. n /\ b \in 1 .. n
  <2>1. snapped[1] \in 1 .. n /\ snapped[2] \in 1 .. n
    BY <1>1, SnappedIn
  <2> HIDE DEF snapped, n
  <2>2. a0 \in 1 .. n
    BY <1>1, <2>1, PullInIn
  <2> HIDE DEF a0
  <2>3. b1 \in 1 .. n
    BY <1>1, <2>1, ForwardIn DEF n
  <2> HIDE DEF b1
  <2>4. b0 \in 1 .. n
    BY <1>1, <2>3, ForwardIn DEF n
  <2> HIDE DEF b0
  <2>5. a \in 1 .. n
    BY <1>1, <2>2, BackwardIn
  <2> HIDE DEF a
  <2>6. b \in 1 .. n
    BY <1>1, <2>4, <2>5, TrimIn
  <2>. QED BY <2>5, <2>6
<1>3. range = <<0, 0>> \/ (range = <<s, e>> /\ ~ e <= s)
  BY DEF Refine
<1> HIDE DEF a, b, n
<1>4. S \in Nat /\ E \in Nat
  BY <1>1, <1>2 DEF Segment
<1>5. \E j \in DOMAIN words : S = words[j].start
  BY <1>1, <1>2 DEF Sound
<1> DEFINE Instant(i) == \E k \in DOMAIN segments : /\ segments[k].start = words[i].start
                                                    /\ segments[k].end = words[i].start + 1
<1>6. ASSUME NEW i \in DOMAIN words, words[i].start < E, E < words[i].end PROVE Instant(i)
  <2>1. CASE \E j \in DOMAIN words : E = words[j].end
    BY <1>6, <2>1, NoneOverAnEnd
  <2>2. CASE segments[b].end = segments[b].start + 1
    <3>1. PICK lo \in DOMAIN words : segments[b].start = words[lo].start
      BY <1>1, <1>2 DEF Sound
    <3>2. /\ words[lo].start \in Nat /\ words[lo].end \in Nat /\ words[lo].start <= words[lo].end
          /\ words[i].start \in Nat /\ words[i].end \in Nat /\ words[i].start <= words[i].end
      BY WordTimes
    <3>3. words[i].start <= words[lo].start /\ words[lo].start < words[i].end
      BY <1>6, <2>2, <3>1, <3>2
    <3>4. lo \in Int /\ i \in Int
      BY DEF Timed
    <3>5. CASE i < lo
      <4>1. words[i].end <= words[lo].start
        BY <3>5 DEF Timed
      <4>. QED BY <3>2, <3>3, <4>1
    <3>6. CASE lo < i
      <4>1. words[lo].end <= words[i].start
        BY <3>6 DEF Timed
      <4>2. words[i].start = words[lo].start
        BY <3>2, <3>3, <4>1
      <4>. QED BY <1>1, <1>2, <2>2, <3>1, <4>2
    <3>7. CASE lo = i
      BY <1>1, <1>2, <2>2, <3>1, <3>7
    <3>. QED BY <3>4, <3>5, <3>6, <3>7
  <2>. QED BY <1>1, <1>2, <2>1, <2>2 DEF Sound
<1> HIDE DEF Instant
<1> HIDE DEF S, E
<1> DEFINE fit == {words[i].end : i \in {j \in DOMAIN words : /\ S <= words[j].start
                                                              /\ words[j].end <= S + MaxLength}}
<1>7. /\ cut \in Nat
      /\ cut = E \/ (\E j \in DOMAIN words : cut = words[j].end) \/ (cut = S + MaxLength /\ fit = {})
  BY <1>4, CutAt
<1>8. \A j \in DOMAIN words : S <= words[j].start /\ words[j].end <= S + MaxLength => fit # {}
  OBVIOUS
<1> HIDE DEF cut, fit
<1>9. /\ t \in Nat /\ S <= t /\ (t = S \/ t < cut)
      /\ \E j \in DOMAIN words : t = words[j].start
  BY <1>4, <1>5, <1>7, WithoutFillersAt
<1> HIDE DEF t
<1>10. /\ s \in Nat /\ s <= t
       /\ \A i \in DOMAIN words : ~ (words[i].start < s /\ s < words[i].end)
  BY <1>9, RollsIn
<1> HIDE DEF s
<1>11. /\ r \in Nat /\ r <= Duration
       /\ \A i \in DOMAIN words : words[i].start < r /\ r < words[i].end =>
             words[i].start < cut /\ cut < words[i].end /\ cut <= r
  BY <1>7, RollsOut
<1> HIDE DEF r
<1>12. MaxLength \in Nat /\ Duration \in Nat
  BY MomentsAssumption
<1>13. e \in {s + MaxLength, r} /\ e <= s + MaxLength /\ e <= r
  <2> DEFINE longest == s + MaxLength
  <2>1. longest \in Int /\ r \in Int
    BY <1>10, <1>11, <1>12
  <2>2. e = Min({longest, r})
    OBVIOUS
  <2> HIDE DEF longest, e
  <2>3. Min({longest, r}) \in {longest, r} /\ Min({longest, r}) <= longest /\ Min({longest, r}) <= r
    BY <2>1, OfTwo
  <2>4. e \in {longest, r} /\ e <= longest /\ e <= r
    BY <2>2, <2>3
  <2>. QED BY <2>4 DEF longest
<1> HIDE DEF e
<1>14. e \in Nat
  BY <1>10, <1>11, <1>12, <1>13
<1>15. fit = {} /\ cut = S + MaxLength => t = S
  <2>1. SUFFICES ASSUME fit = {}, cut = S + MaxLength, t # S PROVE FALSE
    OBVIOUS
  <2>2. PICK lo \in DOMAIN words : S = words[lo].start
    BY <1>5
  <2>3. PICK j \in DOMAIN words : t = words[j].start
    BY <1>9
  <2>4. /\ words[lo].start \in Nat /\ words[lo].end \in Nat /\ words[lo].start <= words[lo].end
        /\ words[j].start \in Nat /\ words[j].end \in Nat /\ words[j].start <= words[j].end
    BY WordTimes
  <2>5. S < t /\ t < cut
    BY <1>4, <1>9, <2>1
  <2>6. lo \in Int /\ j \in Int
    BY DEF Timed
  <2>7. CASE lo < j
    <3>1. words[lo].end <= words[j].start
      BY <2>7 DEF Timed
    <3>2. words[lo].end <= S + MaxLength
      BY <1>4, <1>7, <1>12, <2>1, <2>3, <2>4, <2>5, <3>1
    <3>. QED BY <1>8, <2>1, <2>2, <2>4, <3>2
  <2>8. CASE j < lo
    <3>1. words[j].end <= words[lo].start
      BY <2>8 DEF Timed
    <3>. QED BY <1>4, <1>9, <2>2, <2>3, <2>4, <2>5, <3>1
  <2>9. CASE j = lo
    BY <1>4, <2>2, <2>3, <2>5, <2>9
  <2>. QED BY <2>6, <2>7, <2>8, <2>9
<1>16. ASSUME NEW i \in DOMAIN words, words[i].start < e, e < words[i].end
       PROVE  e - s = MaxLength \/ Instant(i)
  <2>1. CASE e = s + MaxLength
    BY <1>10, <1>12, <2>1
  <2>2. CASE e = r
    <3>1. words[i].start < cut /\ cut < words[i].end /\ cut <= r
      BY <1>11, <1>16, <2>2
    <3>2. ~ \E j \in DOMAIN words : cut = words[j].end
      BY <3>1, NoneOverAnEnd
    <3>3. CASE cut = E
      BY <1>6, <3>1, <3>3
    <3>4. CASE cut # E
      <4>1. cut = S + MaxLength /\ t = S
        BY <1>7, <1>15, <3>2, <3>4
      <4>. QED BY <1>4, <1>10, <1>11, <1>12, <1>13, <1>14, <2>2, <3>1, <4>1
    <3>. QED BY <3>3, <3>4
  <2>. QED BY <1>13, <2>1, <2>2
<1>17. CASE range = <<0, 0>>
  BY <1>17
<1>18. CASE range = <<s, e>> /\ ~ e <= s
  <2>1. moment.start = s /\ moment.end = e
    BY <1>18
  <2>2. 0 <= s /\ s < e /\ e <= Duration /\ e - s <= MaxLength
    BY <1>10, <1>11, <1>12, <1>13, <1>14, <1>18
  <2>. QED BY <1>10, <1>14, <1>16, <1>18, <2>1, <2>2 DEF Natural, Instant
<1>. QED BY <1>3, <1>17, <1>18

-----------------------------------------------------------------------------
(* Removing duplicates.                                                    *)

(* Sorted candidates are the same candidates, the strongest first.         *)
LEMMA SortedCandidates ==
    ASSUME NEW proposed \in Seq(Candidate)
    PROVE  LET Stronger(v, w) == v.score > w.score \/ (v.score = w.score /\ v.start < w.start)
               sorted == Sorted(proposed, Stronger)
           IN  /\ sorted \in [1 .. Len(proposed) -> Candidate]
               /\ \A k \in 1 .. Len(proposed) : \E i \in DOMAIN proposed : sorted[k] = proposed[i]
               /\ \A i, j \in 1 .. Len(proposed) : i < j => sorted[i].score >= sorted[j].score
<1> DEFINE n == Len(proposed)
           Stronger(v, w) == v.score > w.score \/ (v.score = w.score /\ v.start < w.start)
           precedes(i, j) == Stronger(proposed[i], proposed[j]) \/ (~ Stronger(proposed[j], proposed[i]) /\ i < j)
           R == {pair \in (1 .. n) \X (1 .. n) : precedes(pair[1], pair[2])}
           at == [k \in 1 .. n |-> CHOOSE i \in 1 .. n : Place(i, R, n) = k]
<1>1. n \in Nat /\ DOMAIN proposed = 1 .. n /\ \A i \in 1 .. n : proposed[i] \in Candidate
  OBVIOUS
<1>2. \A i \in 1 .. n : proposed[i].score \in Int /\ proposed[i].start \in Int
  BY <1>1 DEF Candidate
<1>3. \A i, j \in 1 .. n : <<i, j>> \in R <=> precedes(i, j)
  OBVIOUS
<1>4. Ordering(R, n)
  <2>1. R \subseteq (1 .. n) \X (1 .. n)
    OBVIOUS
  <2> HIDE DEF R, n
  <2>2. \A i \in 1 .. n : <<i, i>> \notin R
    BY <1>1, <1>2, <1>3
  <2>3. \A i, j \in 1 .. n : i # j => <<i, j>> \in R \/ <<j, i>> \in R
    BY <1>1, <1>2, <1>3
  <2>4. ASSUME NEW i \in 1 .. n, NEW j \in 1 .. n, NEW k \in 1 .. n, <<i, j>> \in R, <<j, k>> \in R
        PROVE  <<i, k>> \in R
    <3>1. precedes(i, j) /\ precedes(j, k)
      BY <1>3, <2>4
    <3>2. precedes(i, k)
      BY <1>1, <1>2, <3>1
    <3>. QED BY <1>3, <3>2
  <2>. QED BY <2>1, <2>2, <2>3, <2>4 DEF Ordering
<1>5. Sorted(proposed, Stronger) = [k \in 1 .. n |-> proposed[at[k]]]
  <2>1. \A i \in 1 .. n : {j \in 1 .. n : <<j, i>> \in R} = {j \in 1 .. n : precedes(j, i)}
    BY <1>3
  <2>2. Sorted(proposed, Stronger) = [k \in 1 .. n |-> proposed[CHOOSE i \in 1 .. n : Cardinality({j \in 1 .. n : precedes(j, i)}) + 1 = k]]
    BY <1>1 DEF Sorted
  <2>3. \A k \in 1 .. n : at[k] = CHOOSE i \in 1 .. n : Cardinality({j \in 1 .. n : precedes(j, i)}) + 1 = k
    BY <2>1 DEF Place
  <2>. QED BY <2>2, <2>3
<1>6. /\ at \in [1 .. n -> 1 .. n]
      /\ \A i, j \in 1 .. n : i < j => <<at[i], at[j]>> \in R
  <2> HIDE DEF R
  <2>. QED BY <1>1, <1>4, InOrder
<1> HIDE DEF at, R, n
<1>7. \A i, j \in 1 .. n : i < j => proposed[at[i]].score >= proposed[at[j]].score
  <2> TAKE i, j \in 1 .. n
  <2> HAVE i < j
  <2>1. at[i] \in 1 .. n /\ at[j] \in 1 .. n /\ <<at[i], at[j]>> \in R
    BY <1>6
  <2>2. precedes(at[i], at[j])
    BY <1>3, <2>1
  <2>. QED BY <1>2, <2>1, <2>2
<1>8. \A k \in 1 .. n : proposed[at[k]] \in Candidate
  BY <1>1, <1>6
<1>9. \A k \in 1 .. n : \E i \in DOMAIN proposed : proposed[at[k]] = proposed[i]
  BY <1>1, <1>6
<1> DEFINE sorted == Sorted(proposed, Stronger)
<1>10. sorted \in [1 .. n -> Candidate]
  BY <1>5, <1>8
<1>11. \A k \in 1 .. n : sorted[k] = proposed[at[k]]
  BY <1>5
<1> HIDE DEF sorted
<1>12. \A k \in 1 .. n : \E i \in DOMAIN proposed : sorted[k] = proposed[i]
  BY <1>9, <1>11
<1>13. \A i, j \in 1 .. n : i < j => sorted[i].score >= sorted[j].score
  BY <1>7, <1>11
<1>. QED BY <1>10, <1>12, <1>13 DEF n, sorted

(* What is kept stays of its type, and distinct.                           *)
LEMMA KeepStep ==
    ASSUME NEW kept \in Seq(Candidate), NEW c \in Candidate
    PROVE  /\ Keep(kept, c) \in Seq(Candidate)
           /\ Distinct(kept) => Distinct(Keep(kept, c))
<1> DEFINE n == Len(kept)
           like == {k \in DOMAIN kept : Alike(kept[k], c)}
           k == Min(like)
           start == Min({kept[k].start, c.start})
           end == Max({kept[k].end, c.end})
           wider == [kept EXCEPT ![k].start = start, ![k].end = end, ![k].widened = TRUE]
<1>1. n \in Nat /\ DOMAIN kept = 1 .. n /\ \A i \in 1 .. n : kept[i] \in Candidate
  OBVIOUS
<1>2. Keep(kept, c) = IF like = {} THEN Append(kept, c)
                      ELSE IF c.complete > kept[k].complete /\ end - start <= MaxLength THEN wider ELSE kept
  BY DEF Keep
<1>3. like \in SUBSET (1 .. n) /\ \A i \in 1 .. n : Alike(kept[i], c) => i \in like
  BY <1>1
<1> HIDE DEF n, like
<1>4. CASE like = {}
  <2> DEFINE more == Append(kept, c)
  <2>1. /\ more \in Seq(Candidate) /\ DOMAIN more = 1 .. n + 1
        /\ \A i \in 1 .. n : more[i] = kept[i]
        /\ more[n + 1] = c
    BY <1>1 DEF n
  <2> HIDE DEF more
  <2>2. ASSUME Distinct(kept), NEW i \in 1 .. n + 1, NEW j \in 1 .. n + 1, i < j, Alike(more[i], more[j])
        PROVE  more[i].widened \/ more[j].widened
    <3>1. i \in 1 .. n /\ more[i] = kept[i]
      BY <1>1, <2>1, <2>2
    <3>2. CASE j = n + 1
      BY <1>3, <1>4, <2>1, <2>2, <3>1, <3>2
    <3>3. CASE j # n + 1
      <4>1. j \in 1 .. n /\ more[j] = kept[j]
        BY <1>1, <2>1, <3>3
      <4>. QED BY <1>1, <2>2, <3>1, <4>1 DEF Distinct
    <3>. QED BY <3>2, <3>3
  <2>3. Keep(kept, c) = more
    BY <1>2, <1>4 DEF more
  <2>. QED BY <2>1, <2>2, <2>3 DEF Distinct
<1>5. CASE like # {}
  <2>1. k \in 1 .. n
    BY <1>1, <1>3, <1>5, LeastAmong
  <2> HIDE DEF k
  <2>2. /\ kept[k] \in Candidate
        /\ kept[k].start \in Int /\ c.start \in Int /\ kept[k].end \in Int /\ c.end \in Int
    BY <1>1, <2>1 DEF Candidate
  <2>3. start \in Int /\ end \in Int
    <3> DEFINE p == kept[k].start
               q == kept[k].end
    <3> HIDE DEF p, q
    <3>1. Min({p, c.start}) \in {p, c.start}
      BY <2>2, OfTwo DEF p
    <3>2. Max({q, c.end}) \in {q, c.end}
      BY <2>2, OfTwo DEF q
    <3>. QED BY <2>2, <3>1, <3>2 DEF p, q
  <2> HIDE DEF start, end
  <2>4. /\ wider[k] \in Candidate /\ wider[k].widened
        /\ \A i \in 1 .. n : i # k => wider[i] = kept[i]
        /\ DOMAIN wider = 1 .. n
    BY <1>1, <2>1, <2>2, <2>3 DEF Candidate
  <2>5. wider \in Seq(Candidate)
    <3>1. \A i \in 1 .. n : wider[i] \in Candidate
      BY <1>1, <2>4
    <3>2. wider = [i \in 1 .. n |-> wider[i]]
      BY <1>1
    <3> HIDE DEF wider
    <3>3. [i \in 1 .. n |-> wider[i]] \in Seq(Candidate)
      BY <1>1, <3>1
    <3>. QED BY <3>2, <3>3
  <2> HIDE DEF wider
  <2>6. ASSUME Distinct(kept), NEW i \in 1 .. n, NEW j \in 1 .. n, i < j, Alike(wider[i], wider[j])
        PROVE  wider[i].widened \/ wider[j].widened
    <3>1. CASE i = k \/ j = k
      BY <2>4, <3>1
    <3>2. CASE i # k /\ j # k
      BY <1>1, <2>4, <2>6, <3>2 DEF Distinct
    <3>. QED BY <3>1, <3>2
  <2>7. Distinct(kept) => Distinct(wider)
    BY <2>4, <2>6 DEF Distinct
  <2>8. Keep(kept, c) = wider \/ Keep(kept, c) = kept
    BY <1>2, <1>5
  <2>. QED BY <2>5, <2>7, <2>8
<1>. QED BY <1>4, <1>5

(* What is kept stays natural: a widened range begins and ends where one of
   the two did, and is no longer than allowed.                              *)
LEMMA KeepNatural ==
    ASSUME NEW words, NEW segments, NEW kept \in Seq(Candidate), NEW c \in Candidate,
           \A i \in DOMAIN kept : Natural(kept[i], words, segments), Natural(c, words, segments)
    PROVE  \A i \in DOMAIN Keep(kept, c) : Natural(Keep(kept, c)[i], words, segments)
<1> DEFINE n == Len(kept)
           like == {k \in DOMAIN kept : Alike(kept[k], c)}
           k == Min(like)
           start == Min({kept[k].start, c.start})
           end == Max({kept[k].end, c.end})
           wider == [kept EXCEPT ![k].start = start, ![k].end = end, ![k].widened = TRUE]
<1>1. n \in Nat /\ DOMAIN kept = 1 .. n /\ \A i \in 1 .. n : kept[i] \in Candidate
  OBVIOUS
<1>2. Keep(kept, c) = IF like = {} THEN Append(kept, c)
                      ELSE IF c.complete > kept[k].complete /\ end - start <= MaxLength THEN wider ELSE kept
  BY DEF Keep
<1>3. like \in SUBSET (1 .. n)
  BY <1>1
<1> HIDE DEF n, like
<1>4. CASE like = {}
  <2> DEFINE more == Append(kept, c)
  <2>1. DOMAIN more = 1 .. n + 1 /\ (\A i \in 1 .. n : more[i] = kept[i]) /\ more[n + 1] = c
    BY <1>1 DEF n
  <2> HIDE DEF more
  <2>2. ASSUME NEW i \in 1 .. n + 1 PROVE Natural(more[i], words, segments)
    <3>1. CASE i = n + 1
      BY <2>1, <3>1
    <3>2. CASE i # n + 1
      <4>1. i \in 1 .. n
        BY <1>1, <3>2
      <4>. QED BY <1>1, <2>1, <4>1
    <3>. QED BY <3>1, <3>2
  <2>3. Keep(kept, c) = more
    BY <1>2, <1>4 DEF more
  <2>. QED BY <2>1, <2>2, <2>3
<1>5. CASE like # {} /\ Keep(kept, c) = kept
  BY <1>5
<1>6. CASE like # {} /\ Keep(kept, c) = wider /\ end - start <= MaxLength
  <2>1. k \in 1 .. n
    BY <1>1, <1>3, <1>6, LeastAmong
  <2> HIDE DEF k
  <2>2. /\ kept[k] \in Candidate /\ MaxLength \in Nat
        /\ kept[k].start \in Int /\ c.start \in Int /\ kept[k].end \in Int /\ c.end \in Int
    BY <1>1, <2>1, MomentsAssumption DEF Candidate
  <2> DEFINE p == kept[k].start
             q == kept[k].end
  <2>3. Natural(kept[k], words, segments) /\ Natural(c, words, segments)
    BY <1>1, <2>1
  <2>4. start \in {p, c.start} /\ start <= p /\ start <= c.start
    <3> HIDE DEF p
    <3>. QED BY <2>2, OfTwo DEF p
  <2>5. end \in {q, c.end} /\ q <= end /\ c.end <= end
    <3> HIDE DEF q
    <3>. QED BY <2>2, OfTwo DEF q
  <2> HIDE DEF start, end
  <2>6. /\ DOMAIN wider = 1 .. n
        /\ wider[k].start = start /\ wider[k].end = end
        /\ \A i \in 1 .. n : i # k => wider[i] = kept[i]
    BY <1>1, <2>1, <2>2 DEF Candidate
  <2> HIDE DEF wider
  <2>7. /\ 0 <= start /\ start < end /\ end <= Duration /\ end - start <= MaxLength
    BY <1>6, <2>2, <2>3, <2>4, <2>5 DEF Natural
  <2> DEFINE Instant(i) == \E j \in DOMAIN segments : /\ segments[j].start = words[i].start
                                                      /\ segments[j].end = words[i].start + 1
  <2>8. \A i \in DOMAIN words :
           /\ ~ (words[i].start < p /\ p < words[i].end) /\ ~ (words[i].start < c.start /\ c.start < words[i].end)
           /\ words[i].start < q /\ q < words[i].end => q - p = MaxLength \/ Instant(i)
           /\ words[i].start < c.end /\ c.end < words[i].end => c.end - c.start = MaxLength \/ Instant(i)
    BY <2>3 DEF Natural
  <2> HIDE DEF Instant
  <2>9. q = end /\ q - p = MaxLength => end - start = MaxLength
    BY <2>2, <2>4, <2>5, <2>7
  <2>10. c.end = end /\ c.end - c.start = MaxLength => end - start = MaxLength
    BY <2>2, <2>4, <2>5, <2>7
  <2>11. \A i \in DOMAIN words :
            /\ ~ (words[i].start < start /\ start < words[i].end)
            /\ words[i].start < end /\ end < words[i].end => end - start = MaxLength \/ Instant(i)
    BY <2>4, <2>5, <2>8, <2>9, <2>10
  <2>12. Natural(wider[k], words, segments)
    BY <2>6, <2>7, <2>11 DEF Natural, Instant
  <2>13. \A i \in 1 .. n : Natural(wider[i], words, segments)
    BY <1>1, <2>6, <2>12
  <2>. QED BY <1>6, <2>6, <2>13
<1>. QED BY <1>2, <1>4, <1>5, <1>6

(* Removing duplicates goes through the candidates one by one.             *)
LEMMA DedupeSteps ==
    ASSUME NEW proposed \in Seq(Candidate)
    PROVE  \E n \in Nat, sorted \in Seq(Candidate) : \E at \in [0 .. n -> Seq(Candidate)] :
              /\ n = Len(sorted)
              /\ \A k \in 1 .. n : sorted[k] \in Candidate /\ \E i \in DOMAIN proposed : sorted[k] = proposed[i]
              /\ at[0] = <<>>
              /\ \A k \in 1 .. n : at[k] = Keep(at[k - 1], sorted[k])
              /\ at[n] = Dedupe(proposed)
<1> DEFINE Stronger(v, w) == v.score > w.score \/ (v.score = w.score /\ v.start < w.start)
           sorted == Sorted(proposed, Stronger)
           m == Len(proposed)
           n == Len(sorted)
<1>1. m \in Nat
  OBVIOUS
<1>0. /\ sorted \in [1 .. m -> Candidate]
      /\ \A k \in 1 .. m : \E i \in DOMAIN proposed : sorted[k] = proposed[i]
      /\ \A i, j \in 1 .. m : i < j => sorted[i].score >= sorted[j].score
  BY SortedCandidates
<1>2. Dedupe(proposed) = FoldLeft(Keep, <<>>, sorted)
  BY DEF Dedupe
<1> HIDE DEF sorted, m
<1>3. sorted \in Seq(Candidate) /\ n = m
  BY <1>0, <1>1
<1>4. /\ n \in Nat
      /\ \A k \in 1 .. n : sorted[k] \in Candidate /\ \E i \in DOMAIN proposed : sorted[k] = proposed[i]
  <2> HIDE DEF n
  <2>. QED BY <1>0, <1>1, <1>3
<1>5. PICK at \in [0 .. n -> Seq(Candidate)] : /\ at[0] = <<>>
                                               /\ \A k \in 1 .. n : at[k] = Keep(at[k - 1], sorted[k])
                                               /\ at[n] = FoldLeft(Keep, <<>>, sorted)
  <2> DEFINE S == Seq(Candidate)
  <2>1. <<>> \in S /\ \A acc \in S, x \in Candidate : Keep(acc, x) \in S
    BY KeepStep
  <2> HIDE DEF S
  <2>2. \E at \in [0 .. n -> S] : /\ at[0] = <<>>
                                  /\ \A k \in 1 .. n : at[k] = Keep(at[k - 1], sorted[k])
                                  /\ at[n] = FoldLeft(Keep, <<>>, sorted)
    BY <1>3, <2>1, KeepFolds
  <2>. QED BY <2>2 DEF S
<1>6. n = Len(sorted)
  OBVIOUS
<1> HIDE DEF n
<1>. QED BY <1>2, <1>3, <1>4, <1>5, <1>6

(* dedupe (scoring.py): what is kept of any proposals is distinct.         *)
THEOREM DedupeIsDistinct ==
    ASSUME NEW proposed \in Seq(Candidate)
    PROVE  Dedupe(proposed) \in Seq(Candidate) /\ Distinct(Dedupe(proposed))
<1>1. PICK n \in Nat, sorted \in Seq(Candidate) : \E at \in [0 .. n -> Seq(Candidate)] :
         /\ n = Len(sorted)
         /\ \A k \in 1 .. n : sorted[k] \in Candidate /\ \E i \in DOMAIN proposed : sorted[k] = proposed[i]
         /\ at[0] = <<>>
         /\ \A k \in 1 .. n : at[k] = Keep(at[k - 1], sorted[k])
         /\ at[n] = Dedupe(proposed)
  BY DedupeSteps
<1>2. PICK at \in [0 .. n -> Seq(Candidate)] :
         /\ n = Len(sorted)
         /\ \A k \in 1 .. n : sorted[k] \in Candidate /\ \E i \in DOMAIN proposed : sorted[k] = proposed[i]
         /\ at[0] = <<>>
         /\ \A k \in 1 .. n : at[k] = Keep(at[k - 1], sorted[k])
         /\ at[n] = Dedupe(proposed)
  BY <1>1
<1> DEFINE T == {k \in Nat : k <= n => Distinct(at[k])}
<1>6. 0 \in T
  BY <1>2 DEF Distinct
<1>7. ASSUME NEW k \in Nat, k \in T PROVE k + 1 \in T
  <2>1. ASSUME k + 1 <= n PROVE Distinct(at[k + 1])
    <3>1. k + 1 \in 1 .. n /\ (k + 1) - 1 = k /\ k \in 0 .. n /\ Distinct(at[k])
      BY <1>7, <2>1
    <3>2. at[k + 1] = Keep(at[k], sorted[k + 1]) /\ at[k] \in Seq(Candidate) /\ sorted[k + 1] \in Candidate
      BY <1>2, <3>1
    <3>. QED BY <3>1, <3>2, KeepStep
  <2>. QED BY <2>1
<1>8. n \in T
  <2> HIDE DEF T
  <2>. QED BY <1>6, <1>7, Counting
<1>9. Distinct(at[n]) /\ at[n] \in Seq(Candidate)
  BY <1>8
<1>. QED BY <1>2, <1>9

(* dedupe (scoring.py): a more complete duplicate widens the one that is kept,
   and what is widened is still cut between words and no longer than allowed. *)
THEOREM DedupeIsNatural ==
    ASSUME NEW words, NEW segments, NEW proposed \in Seq(Candidate),
           \A i \in DOMAIN proposed : Natural(proposed[i], words, segments)
    PROVE  \A i \in DOMAIN Dedupe(proposed) : Natural(Dedupe(proposed)[i], words, segments)
<1>1. PICK n \in Nat, sorted \in Seq(Candidate) : \E at \in [0 .. n -> Seq(Candidate)] :
         /\ n = Len(sorted)
         /\ \A k \in 1 .. n : sorted[k] \in Candidate /\ \E i \in DOMAIN proposed : sorted[k] = proposed[i]
         /\ at[0] = <<>>
         /\ \A k \in 1 .. n : at[k] = Keep(at[k - 1], sorted[k])
         /\ at[n] = Dedupe(proposed)
  BY DedupeSteps
<1>2. PICK at \in [0 .. n -> Seq(Candidate)] :
         /\ n = Len(sorted)
         /\ \A k \in 1 .. n : sorted[k] \in Candidate /\ \E i \in DOMAIN proposed : sorted[k] = proposed[i]
         /\ at[0] = <<>>
         /\ \A k \in 1 .. n : at[k] = Keep(at[k - 1], sorted[k])
         /\ at[n] = Dedupe(proposed)
  BY <1>1
<1> DEFINE AllNatural(kept) == \A i \in DOMAIN kept : Natural(kept[i], words, segments)
           T == {k \in Nat : k <= n => AllNatural(at[k])}
<1>6. 0 \in T
  BY <1>2
<1>7. ASSUME NEW k \in Nat, k \in T PROVE k + 1 \in T
  <2>1. ASSUME k + 1 <= n PROVE AllNatural(at[k + 1])
    <3>1. k + 1 \in 1 .. n /\ (k + 1) - 1 = k /\ k \in 0 .. n /\ AllNatural(at[k])
      BY <1>7, <2>1
    <3>2. /\ at[k + 1] = Keep(at[k], sorted[k + 1]) /\ at[k] \in Seq(Candidate) /\ sorted[k + 1] \in Candidate
          /\ Natural(sorted[k + 1], words, segments)
      BY <1>2, <3>1
    <3>. QED BY <3>1, <3>2, KeepNatural
  <2>. QED BY <2>1
<1>8. n \in T
  <2> HIDE DEF T
  <2>. QED BY <1>6, <1>7, Counting
<1>9. AllNatural(at[n])
  BY <1>8
<1>. QED BY <1>2, <1>9

(* What remains is what was there and is not empty.                        *)
LEMMA RemainSteps ==
    ASSUME NEW seq \in Seq(Candidate)
    PROVE  LET left == FoldLeft(Remain, <<>>, seq) IN
           /\ left \in Seq(Candidate)
           /\ \A i \in DOMAIN left : /\ left[i].start < left[i].end
                                     /\ \E j \in DOMAIN seq : left[i] = seq[j]
<1> DEFINE n == Len(seq)
           From(left) == \A i \in DOMAIN left : /\ left[i].start < left[i].end
                                                /\ \E j \in DOMAIN seq : left[i] = seq[j]
<1>1. n \in Nat /\ DOMAIN seq = 1 .. n /\ \A i \in 1 .. n : seq[i] \in Candidate
  OBVIOUS
<1>2. PICK at \in [0 .. n -> Seq(Candidate)] : /\ at[0] = <<>>
                                               /\ \A k \in 1 .. n : at[k] = Remain(at[k - 1], seq[k])
                                               /\ at[n] = FoldLeft(Remain, <<>>, seq)
  <2> DEFINE S == Seq(Candidate)
  <2>1. <<>> \in S /\ \A acc \in S, x \in Candidate : Remain(acc, x) \in S
    BY DEF Remain
  <2> HIDE DEF S
  <2>2. \E at \in [0 .. n -> S] : /\ at[0] = <<>>
                                  /\ \A k \in 1 .. n : at[k] = Remain(at[k - 1], seq[k])
                                  /\ at[n] = FoldLeft(Remain, <<>>, seq)
    BY <2>1, RemainFolds
  <2>. QED BY <2>2 DEF S
<1> HIDE DEF n
<1> DEFINE T == {k \in Nat : k <= n => From(at[k])}
<1>3. 0 \in T
  BY <1>2
<1>4. ASSUME NEW left \in Seq(Candidate), From(left), NEW j \in DOMAIN seq PROVE From(Remain(left, seq[j]))
  <2> DEFINE c == seq[j]
             more == Append(left, c)
             m == Len(left)
  <2>1. m \in Nat /\ DOMAIN left = 1 .. m /\ c \in Candidate /\ c.start \in Int /\ c.end \in Int
    <3>1. m \in Nat /\ DOMAIN left = 1 .. m
      OBVIOUS
    <3>2. c \in Candidate
      BY <1>1
    <3> HIDE DEF c
    <3>3. c.start \in Int /\ c.end \in Int
      BY <3>2 DEF Candidate
    <3>. QED BY <3>1, <3>2, <3>3
  <2>2. DOMAIN more = 1 .. m + 1 /\ (\A i \in 1 .. m : more[i] = left[i]) /\ more[m + 1] = c
    BY <2>1
  <2> HIDE DEF more, m
  <2>3. ASSUME c.start < c.end, NEW i \in 1 .. m + 1
        PROVE  more[i].start < more[i].end /\ \E l \in DOMAIN seq : more[i] = seq[l]
    <3>1. CASE i = m + 1
      BY <2>2, <2>3, <3>1
    <3>2. CASE i # m + 1
      <4>1. i \in 1 .. m
        BY <2>1, <3>2
      <4>. QED BY <1>4, <2>1, <2>2, <4>1
    <3>. QED BY <3>1, <3>2
  <2>4. c.end <= c.start \/ c.start < c.end
    BY <2>1
  <2>. QED BY <1>4, <2>2, <2>3, <2>4 DEF Remain, more
<1>5. ASSUME NEW k \in Nat, k \in T PROVE k + 1 \in T
  <2>1. ASSUME k + 1 <= n PROVE From(at[k + 1])
    <3>1. k + 1 \in 1 .. n /\ (k + 1) - 1 = k /\ k \in 0 .. n /\ From(at[k])
      BY <1>1, <1>5, <2>1
    <3>2. at[k + 1] = Remain(at[k], seq[k + 1]) /\ at[k] \in Seq(Candidate)
      BY <1>2, <3>1
    <3> HIDE DEF From
    <3>. QED BY <1>1, <1>4, <3>1, <3>2
  <2>. QED BY <2>1
<1>6. n \in T
  <2> HIDE DEF T
  <2>. QED BY <1>1, <1>3, <1>5, Counting
<1>7. From(at[n]) /\ at[n] \in Seq(Candidate)
  BY <1>1, <1>6
<1>. QED BY <1>2, <1>7

-----------------------------------------------------------------------------
(* The moments an analysis publishes.                                      *)

(* What the model named are candidates.                                    *)
LEMMA ProposedTyped ==
    ASSUME NEW picks \in Seq(Pick), NEW words, NEW segments, Sound(segments, words)
    PROVE  Proposed(picks, segments) \in Seq(Candidate)
<1> DEFINE windows == MakeWindows(segments)
           Named(pick) == \E window \in windows : {pick.from, pick.to} \subseteq window
           Begins(pick) == IF Named(pick) THEN segments[Min({pick.from, pick.to})].start ELSE 0
           End(pick) == IF Named(pick) THEN segments[Max({pick.from, pick.to})].end ELSE 0
           Of(pick) == [start |-> Begins(pick), end |-> Min({Duration, End(pick)}),
                        score |-> pick.score, complete |-> pick.complete, widened |-> FALSE]
           all == [i \in DOMAIN picks |-> Of(picks[i])]
           n == Len(picks)
<1>1. n \in Nat /\ DOMAIN picks = 1 .. n /\ \A i \in 1 .. n : picks[i] \in Pick
  OBVIOUS
<1>2. Proposed(picks, segments) = FoldLeft(Remain, <<>>, all)
  BY DEF Proposed
<1>3. \A window \in windows : window \subseteq DOMAIN segments
  BY SegmentsAreRead DEF EverySegmentIsRead
<1>4. /\ \A i \in DOMAIN segments : segments[i] \in Segment
      /\ DOMAIN segments \subseteq Int
  BY DEF Sound
<1>5. \A i \in DOMAIN segments : segments[i].start \in Int /\ segments[i].end \in Int
  BY <1>4 DEF Segment
<1>6. ASSUME NEW pick \in Pick PROVE Of(pick) \in Candidate
  <2>1. pick.from \in Int /\ pick.to \in Int /\ pick.score \in Int /\ pick.complete \in Int
    BY DEF Pick
  <2> DEFINE f == pick.from
             t == pick.to
  <2>2. Min({f, t}) \in {f, t} /\ Max({f, t}) \in {f, t}
    <3> HIDE DEF f, t
    <3>. QED BY <2>1, OfTwo DEF f, t
  <2>3. Named(pick) => Min({f, t}) \in DOMAIN segments /\ Max({f, t}) \in DOMAIN segments
    <3> HIDE DEF windows
    <3>. QED BY <1>3, <2>2
  <2>4. Begins(pick) \in Int /\ End(pick) \in Int
    <3> HIDE DEF Named
    <3>. QED BY <1>5, <2>3
  <2> HIDE DEF Begins, End
  <2> DEFINE e == End(pick)
  <2>5. Min({Duration, e}) \in {Duration, e} /\ e \in Int /\ Duration \in Int
    <3>1. Duration \in Int
      BY MomentsAssumption
    <3> HIDE DEF e
    <3>. QED BY <2>4, <3>1, OfTwo DEF e
  <2>6. Min({Duration, e}) \in Int
    BY <2>5
  <2>. QED BY <2>1, <2>4, <2>6 DEF Candidate
<1> HIDE DEF Of
<1>7. all \in Seq(Candidate)
  BY <1>1, <1>6
<1> HIDE DEF all
<1>. QED BY <1>2, <1>7, RemainSteps

(* run_analysis (analysis/pipeline.py): whatever segments the model names, in
   whatever order, and however it scores them, the moments published are
   natural ones, and distinct.                                              *)
THEOREM AnalysisIsSound ==
    ASSUME NEW words, Timed(words), NEW segments, Sound(segments, words), NEW picks \in Seq(Pick)
    PROVE  AreSound(RunAnalysis(picks, segments, words), words, segments)
<1> DEFINE kept == Dedupe(Proposed(picks, segments))
           Refined(c) == MovedTo(c, Refine(c.start, c.end, segments, words))
           all == [i \in DOMAIN kept |-> Refined(kept[i])]
           left == FoldLeft(Remain, <<>>, all)
<1>1. RunAnalysis(picks, segments, words) = Dedupe(left)
  BY DEF RunAnalysis
<1>2. kept \in Seq(Candidate)
  BY ProposedTyped, DedupeIsDistinct
<1> HIDE DEF kept
<1>3. ASSUME NEW c \in Candidate
      PROVE  /\ Refined(c) \in Candidate
             /\ Refined(c).start < Refined(c).end => Natural(Refined(c), words, segments)
  <2> DEFINE range == Refine(c.start, c.end, segments, words)
             moment == [c EXCEPT !.start = range[1], !.end = range[2]]
  <2>1. moment.start = range[1] /\ moment.end = range[2]
    BY DEF Candidate
  <2>2. Refined(c) = moment
    BY DEF MovedTo
  <2> HIDE DEF moment
  <2>3. /\ range[1] \in Nat /\ range[2] \in Nat
        /\ moment.start < moment.end => Natural(moment, words, segments)
    BY <2>1, RefineIsNatural
  <2>4. moment \in Candidate
    <3> DEFINE x == range[1]
               y == range[2]
    <3>1. x \in Int /\ y \in Int
      BY <2>3
    <3>2. moment = [c EXCEPT !.start = x, !.end = y]
      BY DEF moment
    <3> HIDE DEF x, y
    <3>. QED BY <3>1, <3>2 DEF Candidate
  <2> HIDE DEF Refined
  <2>. QED BY <2>2, <2>3, <2>4
<1> HIDE DEF Refined
<1>4. all \in Seq(Candidate) /\ DOMAIN all = DOMAIN kept /\ \A i \in DOMAIN kept : kept[i] \in Candidate
  <2> DEFINE n == Len(kept)
  <2>1. n \in Nat /\ DOMAIN kept = 1 .. n /\ \A i \in 1 .. n : kept[i] \in Candidate
    BY <1>2
  <2>. QED BY <1>3, <2>1
<1>5. \A j \in DOMAIN all : all[j].start < all[j].end => Natural(all[j], words, segments)
  BY <1>3, <1>4
<1> HIDE DEF all
<1>6. left \in Seq(Candidate) /\ \A i \in DOMAIN left : /\ left[i].start < left[i].end
                                                        /\ \E j \in DOMAIN all : left[i] = all[j]
  BY <1>4, RemainSteps
<1>7. \A i \in DOMAIN left : Natural(left[i], words, segments)
  BY <1>5, <1>6
<1> HIDE DEF left
<1>. QED BY <1>1, <1>6, <1>7, DedupeIsDistinct, DedupeIsNatural DEF AreSound

(* Of every transcript, whatever the model names.                          *)
LEMMA AnalysesHold == AnalysesAreSound
<1> SUFFICES ASSUME NEW raw \in Transcripts
             PROVE  LET words == NormalizeWords(raw.words)
                        segments == Segments(words, raw.segments)
                    IN  /\ EverySegmentIsRead(segments)
                        /\ \A picks \in Picks : AreSound(RunAnalysis(picks, segments, words), words, segments)
  BY DEF AnalysesAreSound
<1> DEFINE words == NormalizeWords(raw.words)
           segments == Segments(words, raw.segments)
<1>1. raw.words \in Seq(Word) /\ raw.segments \in Seq(Stretch) /\ Picks \subseteq Seq(Pick)
  BY MomentsAssumption
<1>2. Timed(words)
  BY <1>1, NormalizedAreTimed
<1> HIDE DEF words
<1>3. Sound(segments, words)
  BY <1>1, <1>2, SegmentsAreSound
<1> HIDE DEF segments
<1>4. EverySegmentIsRead(segments)
  BY <1>3, SegmentsAreRead
<1>5. ASSUME NEW picks \in Picks
      PROVE  AreSound(RunAnalysis(picks, segments, words), words, segments)
  BY <1>1, <1>2, <1>3, AnalysisIsSound
<1>. QED BY <1>4, <1>5 DEF segments, words

(* What is kept of the proposals is distinct.                              *)
LEMMA KeptHold == KeptAreDistinct
BY MomentsAssumption, DedupeIsDistinct DEF KeptAreDistinct

(* MomentsAreSound (refine.py:1, scoring.py:34): an analysis publishes moments
   that are cut between words and distinct from one another, for any words
   the provider returned and any segments the model named.                 *)
THEOREM MomentsAreSoundHolds == Spec => []MomentsAreSound
<1>1. MomentsAreSound
  BY AnalysesHold, KeptHold DEF MomentsAreSound
<1>. QED BY <1>1, PTL
=============================================================================
