----------------------- MODULE RenderPipelineProofs -----------------------
(***************************************************************************)
(* One render in RenderPipeline, for any number of slots, requests,        *)
(* attempts and faults: a completed clip is stored; and, as long as no     *)
(* running slot loses its lock, and the handler's first read and the record *)
(* of its end work, the render follows RenderLifecycle and a failed one is refunded, whatever   *)
(* else fails and however often the worker dies.                           *)
(***************************************************************************)
EXTENDS RenderPipeline, TLAPS

(* Typed updates of a row, a job and an execution.                         *)
LEMMA RowUpdates ==
    ASSUME NEW r \in Render, NEW status \in Active \cup {"COMPLETED", "FAILED"}
    PROVE  /\ [r EXCEPT !.status = status] \in Render
           /\ [r EXCEPT !.status = status].status = status
           /\ [r EXCEPT !.status = status].attempt = r.attempt
           /\ [r EXCEPT !.status = status].deleted = r.deleted
BY DEF Render

LEMMA RowFailure ==
    ASSUME NEW r \in Render, NEW b \in BOOLEAN
    PROVE  /\ [r EXCEPT !.status = "FAILED", !.retryable = b] \in Render
           /\ [r EXCEPT !.status = "FAILED", !.retryable = b].status = "FAILED"
           /\ [r EXCEPT !.status = "FAILED", !.retryable = b].attempt = r.attempt
           /\ [r EXCEPT !.status = "FAILED", !.retryable = b].deleted = r.deleted
BY DEF Render

LEMMA RowRemoval ==
    ASSUME NEW r \in Render
    PROVE  /\ [r EXCEPT !.deleted = TRUE] \in Render
           /\ [r EXCEPT !.deleted = TRUE].status = r.status
           /\ [r EXCEPT !.deleted = TRUE].attempt = r.attempt
           /\ [r EXCEPT !.deleted = TRUE].deleted = TRUE
BY DEF Render

LEMMA RequeuedRow ==
    ASSUME render \in Render
    PROVE  /\ Requeued \in Render /\ Requeued.status = "QUEUED"
           /\ Requeued.attempt = render.attempt + 1 /\ Requeued.deleted = render.deleted
<1> DEFINE n == render.attempt + 1
<1>1. n \in Nat
  BY DEF Render
<1> HIDE DEF n
<1>2. [render EXCEPT !.status = "QUEUED", !.retryable = TRUE, !.attempt = n] \in Render
  BY <1>1 DEF Render, Active
<1>3. Requeued = [render EXCEPT !.status = "QUEUED", !.retryable = TRUE, !.attempt = n]
  BY DEF Requeued, n
<1>. QED BY <1>2, <1>3 DEF Render, n

LEMMA Moving ==
    ASSUME TypeOK, NEW w \in Slots,
           NEW pc \in HandlerCalls \cup {"idle", "failing", "fail", "refund", "give-up"},
           Goto(w, pc)
    PROVE  /\ task' \in [Slots -> Task]
           /\ task'[w].pc = pc /\ task'[w].job = task[w].job
           /\ \A v \in Slots : v # w => task'[v] = task[v]
<1>1. task[w] \in Task
  BY DEF TypeOK
<1>2. [task[w] EXCEPT !.pc = pc] \in Task
  BY <1>1 DEF Task
<1>. QED BY <1>1, <1>2 DEF Goto, TypeOK, Task

LEMMA Failing ==
    ASSUME TypeOK, NEW w \in Slots, NEW err \in {"transient", "credits", "fatal", "cancelled"},
           Fails(w, err)
    PROVE  /\ task' \in [Slots -> Task]
           /\ task'[w].pc = "failing" /\ task'[w].job = task[w].job
           /\ \A v \in Slots : v # w => task'[v] = task[v]
<1> DEFINE t == [task[w] EXCEPT !.pc = "failing", !.err = err]
<1>1. task[w] \in Task
  BY DEF TypeOK
<1>2. t \in Task /\ t.pc = "failing" /\ t.job = task[w].job
  BY <1>1 DEF Task
<1>3. task' = [task EXCEPT ![w] = t]
  BY DEF Fails
<1> HIDE DEF t
<1>. QED BY <1>2, <1>3 DEF TypeOK

LEMMA Idling ==
    ASSUME TypeOK, NEW w \in Slots, task' = [task EXCEPT ![w] = Idle]
    PROVE  /\ task' \in [Slots -> Task]
           /\ task'[w].pc = "idle"
           /\ \A v \in Slots : v # w => task'[v] = task[v]
<1>1. Idle \in Task /\ Idle.pc = "idle"
  BY DEF Idle, Task
<1>. QED BY <1>1 DEF TypeOK

LEMMA Using ==
    ASSUME TypeOK, NEW x \in DOMAIN Bound, x # "steps", Use(x)
    PROVE  /\ used' \in [DOMAIN Bound -> Nat]
           /\ used'[x] > 0 /\ Bound[x] > 0
           /\ \A y \in DOMAIN Bound : used'[y] >= used[y]
<1>1. Bound \in [DOMAIN Bound -> Nat] /\ "steps" \in DOMAIN Bound
  BY RenderAssumption
<1>2. used' = [used EXCEPT ![x] = used[x] + 1, !["steps"] = used["steps"] + 1]
  BY DEF Use
<1>3. used \in [DOMAIN Bound -> Nat]
  BY DEF TypeOK
<1>4. used[x] < Bound[x]
  BY DEF Use
<1>5. \A y \in DOMAIN Bound : used'[y] \in Nat /\ used'[y] >= used[y]
  BY <1>1, <1>2, <1>3
<1>6. used'[x] > 0
  BY <1>1, <1>2, <1>3
<1>. QED BY <1>1, <1>2, <1>3, <1>4, <1>5, <1>6

(* A job after a take, a report or a stall.                                *)
LEMMA JobUpdates ==
    ASSUME NEW j \in Job, NEW state \in {"waiting", "active", "completed", "failed"},
           NEW slot \in Slots \cup {None}
    PROVE  /\ [j EXCEPT !.state = state, !.slot = slot] \in Job
           /\ [j EXCEPT !.state = state, !.slot = slot, !.attempts = @ + 1] \in Job
           /\ [j EXCEPT !.slot = slot, !.stalls = @ + 1, !.state = state] \in Job
<1>1. [j EXCEPT !.state = state, !.slot = slot] \in Job
  BY DEF Job
<1>2. [j EXCEPT !.state = state, !.slot = slot, !.attempts = @ + 1] \in Job
  <2> DEFINE n == j.attempts + 1
  <2>1. n \in Nat
    BY DEF Job
  <2> HIDE DEF n
  <2>2. [j EXCEPT !.state = state, !.slot = slot, !.attempts = n] \in Job
    BY <2>1 DEF Job
  <2>. QED BY <2>2 DEF n
<1>3. [j EXCEPT !.slot = slot, !.stalls = @ + 1, !.state = state] \in Job
  <2> DEFINE n == j.stalls + 1
  <2>1. n \in Nat
    BY DEF Job
  <2> HIDE DEF n
  <2>2. [j EXCEPT !.slot = slot, !.stalls = n, !.state = state] \in Job
    BY <2>1 DEF Job
  <2>. QED BY <2>2 DEF n
<1>. QED BY <1>1, <1>2, <1>3

LEMMA Taking ==
    ASSUME TypeOK, NEW w \in Slots, NEW id \in DOMAIN jobs, Take(w, id)
    PROVE  /\ DOMAIN jobs' = DOMAIN jobs /\ jobs' \in [DOMAIN jobs -> Job]
           /\ jobs[id].state = "waiting" /\ Holds(w, id)'
           /\ \A i \in DOMAIN jobs : i # id => jobs'[i] = jobs[i]
<1> DEFINE j == [jobs[id] EXCEPT !.state = "active", !.slot = w]
<1>1. jobs[id] \in Job
  BY DEF TypeOK
<1>2. j \in Job
  BY <1>1, JobUpdates
<1>3. j.state = "active" /\ j.slot = w
  BY <1>1 DEF Job
<1>4. jobs[id].state = "waiting" /\ jobs' = [jobs EXCEPT ![id] = j]
  BY DEF Take
<1> HIDE DEF j
<1>. QED BY <1>2, <1>3, <1>4 DEF TypeOK, Holds

(* A report, and a reclaimed lock, touch no job but their own.             *)
LEMMA Settling ==
    ASSUME TypeOK, NEW w \in Slots, NEW id \in DOMAIN jobs,
           NEW state \in {"waiting", "completed", "failed"}, Settle(w, id, state)
    PROVE  /\ DOMAIN jobs' = DOMAIN jobs /\ jobs' \in [DOMAIN jobs -> Job]
           /\ \A i \in DOMAIN jobs : i # id => jobs'[i] = jobs[i]
<1> DEFINE j == [jobs[id] EXCEPT !.state = state, !.slot = None, !.attempts = @ + 1]
<1>1. jobs[id] \in Job
  BY DEF TypeOK
<1>2. j \in Job
  BY <1>1, JobUpdates
<1>3. jobs' = jobs \/ jobs' = [jobs EXCEPT ![id] = j]
  BY DEF Settle
<1> HIDE DEF j
<1>. QED BY <1>2, <1>3 DEF TypeOK

LEMMA Reclaiming ==
    ASSUME TypeOK, NEW id \in DOMAIN jobs, Reclaim(id)
    PROVE  /\ DOMAIN jobs' = DOMAIN jobs /\ jobs' \in [DOMAIN jobs -> Job]
           /\ \A i \in DOMAIN jobs : i # id => jobs'[i] = jobs[i]
<1> DEFINE state == IF jobs[id].stalls < MaxStalls THEN "waiting" ELSE "failed"
           j == [jobs[id] EXCEPT !.slot = None, !.stalls = @ + 1, !.state = state]
<1>1. jobs[id] \in Job /\ state \in {"waiting", "active", "completed", "failed"}
  BY DEF TypeOK
<1> HIDE DEF state
<1>2. j \in Job
  BY <1>1, JobUpdates
<1>3. jobs' = [jobs EXCEPT ![id] = j]
  BY DEF Reclaim, state
<1> HIDE DEF j
<1>. QED BY <1>2, <1>3 DEF TypeOK

LEMMA Adding ==
    ASSUME TypeOK, NEW a \in Nat, Add(RenderJob(a), None)
    PROVE  /\ DOMAIN jobs' = DOMAIN jobs \cup {RenderJob(a)} /\ DOMAIN jobs' \subseteq JobId
           /\ jobs' \in [DOMAIN jobs' -> Job]
           /\ \A i \in DOMAIN jobs : jobs'[i] = jobs[i]
           /\ RenderJob(a).attempt = a
<1> DEFINE id == RenderJob(a)
<1>1. id \in JobId /\ id.attempt = a
  BY DEF RenderJob, JobId
<1>2. Added(None) \in Job
  BY DEF Added, Job
<1> HIDE DEF id
<1>3. jobs' = [i \in DOMAIN jobs \cup {id} |-> IF i \in DOMAIN jobs THEN jobs[i] ELSE Added(None)]
  BY DEF Add, id
<1>4. jobs \in [DOMAIN jobs -> Job] /\ DOMAIN jobs \subseteq JobId
  BY DEF TypeOK
<1>5. \A i \in DOMAIN jobs \cup {id} : jobs'[i] \in Job
  BY <1>2, <1>3, <1>4
<1>. QED BY <1>1, <1>3, <1>4, <1>5 DEF id

LEMMA Asking ==
    ASSUME TypeOK, NEW q \in Requests, NEW pc \in {"transition", "reread"},
           request' = [request EXCEPT ![q].pc = pc]
    PROVE  /\ request' \in [Requests -> Asked]
           /\ \A p \in Requests : request'[p].attempt = request[p].attempt
<1>1. request[q] \in Asked
  BY DEF TypeOK
<1>2. [request[q] EXCEPT !.pc = pc] \in Asked
  BY <1>1 DEF Asked
<1>. QED BY <1>1, <1>2 DEF TypeOK, Asked

LEMMA Blank == NoRequest \in Asked /\ NoRequest.attempt = 0
BY DEF NoRequest, Asked

-----------------------------------------------------------------------------
(* Types.                                                                  *)

LEMMA InitTyped == Init => TypeOK
<1> SUFFICES ASSUME Init PROVE TypeOK
  OBVIOUS
<1>1. render \in Render
  BY DEF Init, Render, Active
<1>2. DOMAIN jobs \subseteq JobId /\ jobs \in [DOMAIN jobs -> Job]
  BY DEF Init
<1>3. task \in [Slots -> Task]
  <2>1. Idle \in Task
    BY DEF Idle, Task
  <2>. QED BY <2>1 DEF Init
<1>4. request \in [Requests -> Asked]
  <2>1. [pc |-> "enqueue", attempt |-> 1] \in Asked
    BY DEF Asked
  <2>. QED BY <2>1, Blank DEF Init
<1>5. used \in [DOMAIN Bound -> Nat]
  BY DEF Init
<1>. QED BY <1>1, <1>2, <1>3, <1>4, <1>5 DEF Init, TypeOK

LEMMA RunTyped ==
    ASSUME TypeOK, NEW w \in Slots, Run(w)
    PROVE  TypeOK'
<1>1. CASE ReadRender(w)
  <2>1. task' \in [Slots -> Task]
    BY <1>1, Moving DEF ReadRender, HandlerCalls
  <2>. QED BY <1>1, <2>1 DEF ReadRender, TypeOK, rows
<1>2. CASE ReadVideo(w)
  <2>1. task' \in [Slots -> Task]
    BY <1>2, Moving DEF ReadVideo, HandlerCalls
  <2>. QED BY <1>2, <2>1 DEF ReadVideo, TypeOK, rows
<1>3. CASE Charge(w)
  <2>1. CASE held' = TRUE /\ Goto(w, "prepare") /\ UNCHANGED used
    <3>1. task' \in [Slots -> Task]
      BY <2>1, Moving DEF HandlerCalls
    <3>. QED BY <1>3, <2>1, <3>1 DEF Charge, TypeOK
  <2>2. CASE Use("errors") /\ Fails(w, "credits") /\ UNCHANGED held
    <3>1. task' \in [Slots -> Task]
      BY <2>2, Failing
    <3>2. used' \in [DOMAIN Bound -> Nat]
      BY <2>2, Using, RenderAssumption
    <3>. QED BY <1>3, <2>2, <3>1, <3>2 DEF Charge, TypeOK
  <2>. QED BY <1>3, <2>1, <2>2 DEF Charge
<1>4. CASE Prepare(w)
  <2>1. task' \in [Slots -> Task]
    BY <1>4, Moving DEF Prepare, HandlerCalls
  <2>2. render' \in Render
    BY <1>4, RowUpdates DEF Prepare, Active, TypeOK
  <2>. QED BY <1>4, <2>1, <2>2 DEF Prepare, TypeOK
<1>5. CASE OpenSource(w)
  <2>1. task' \in [Slots -> Task]
    BY <1>5, Moving, Failing DEF OpenSource, HandlerCalls
  <2>. QED BY <1>5, <2>1 DEF OpenSource, TypeOK, rows
<1>6. CASE Advance(w)
  <2> DEFINE status == StatusAt[task[w].pc]
             next == AfterStatus[task[w].pc]
  <2>1. status \in Active /\ next \in HandlerCalls
    BY <1>6 DEF Advance, StatusAt, AfterStatus, Active, HandlerCalls
  <2>2. \/ render' = [render EXCEPT !.status = status] /\ Goto(w, next)
        \/ Fails(w, "cancelled") /\ UNCHANGED render
    BY <1>6 DEF Advance
  <2> HIDE DEF status, next
  <2>3. task' \in [Slots -> Task]
    BY <2>1, <2>2, Moving, Failing
  <2>4. render' \in Render
    BY <2>1, <2>2, RowUpdates DEF TypeOK
  <2>. QED BY <1>6, <2>3, <2>4 DEF Advance, TypeOK
<1>7. CASE RunFfmpeg(w)
  <2>1. task' \in [Slots -> Task]
    BY <1>7, Moving, Failing DEF RunFfmpeg, HandlerCalls
  <2>. QED BY <1>7, <2>1 DEF RunFfmpeg, TypeOK, rows
<1>8. CASE StoreOutput(w)
  <2>1. task' \in [Slots -> Task]
    BY <1>8, Moving DEF StoreOutput, HandlerCalls
  <2>. QED BY <1>8, <2>1 DEF StoreOutput, TypeOK
<1>9. CASE FinishRender(w)
  <2>1. task' \in [Slots -> Task]
    BY <1>9, Moving DEF FinishRender, HandlerCalls
  <2>2. render' \in Render
    BY <1>9, RowUpdates DEF FinishRender, TypeOK
  <2>. QED BY <1>9, <2>1, <2>2 DEF FinishRender, TypeOK
<1>. QED BY <1>1, <1>2, <1>3, <1>4, <1>5, <1>6, <1>7, <1>8, <1>9 DEF Run

(* An execution has a job, whatever became of it.                          *)
HasJob == \A w \in Slots : task[w].pc # "idle" => task[w].job \in DOMAIN jobs

(* The three ways to end an execution report to the queue and free the slot. *)
LEMMA EndTyped ==
    ASSUME TypeOK, HasJob, NEW w \in Slots, task[w].pc # "idle",
           NEW state \in {"waiting", "completed", "failed"}, Settle(w, task[w].job, state),
           task' = [task EXCEPT ![w] = Idle], UNCHANGED <<rows, request, used>>
    PROVE  /\ TypeOK'
           /\ DOMAIN jobs' = DOMAIN jobs
           /\ \A i \in DOMAIN jobs : i # task[w].job => jobs'[i] = jobs[i]
           /\ task'[w].pc = "idle"
           /\ \A v \in Slots : v # w => task'[v] = task[v]
<1>1. task[w].job \in DOMAIN jobs
  BY DEF HasJob
<1>2. /\ DOMAIN jobs' = DOMAIN jobs /\ jobs' \in [DOMAIN jobs -> Job]
      /\ \A i \in DOMAIN jobs : i # task[w].job => jobs'[i] = jobs[i]
  BY <1>1, Settling
<1>3. /\ task' \in [Slots -> Task] /\ task'[w].pc = "idle"
      /\ \A v \in Slots : v # w => task'[v] = task[v]
  BY Idling
<1>. QED BY <1>2, <1>3 DEF TypeOK, rows

LEMMA FailureTyped ==
    ASSUME TypeOK, HasJob, NEW w \in Slots, Complete(w) \/ Failure(w)
    PROVE  TypeOK'
<1>1. CASE Complete(w)
  BY <1>1, EndTyped DEF Complete
<1>2. CASE RetryLater(w)
  BY <1>2, EndTyped DEF RetryLater
<1>3. CASE FailRead(w)
  <2>1. task' \in [Slots -> Task]
    BY <1>3, Moving DEF FailRead
  <2>. QED BY <1>3, <2>1 DEF FailRead, TypeOK, rows
<1>4. CASE FailRender(w)
  <2>1. task' \in [Slots -> Task]
    BY <1>4, Moving DEF FailRender
  <2>2. render' \in Render
    <3> DEFINE b == task[w].err # "fatal"
    <3>1. b \in BOOLEAN
      OBVIOUS
    <3>2. render' = [render EXCEPT !.status = "FAILED", !.retryable = b] \/ render' = render
      BY <1>4 DEF FailRender
    <3> HIDE DEF b
    <3>3. [render EXCEPT !.status = "FAILED", !.retryable = b] \in Render
      BY <3>1, RowFailure, Zenon DEF TypeOK
    <3>. QED BY <3>2, <3>3 DEF TypeOK
  <2>. QED BY <1>4, <2>1, <2>2 DEF FailRender, TypeOK
<1>5. CASE Refund(w)
  <2>1. task' \in [Slots -> Task]
    BY <1>5, Moving DEF Refund
  <2>. QED BY <1>5, <2>1 DEF Refund, TypeOK
<1>6. CASE GiveUp(w)
  BY <1>6, EndTyped DEF GiveUp
<1>. QED BY <1>1, <1>2, <1>3, <1>4, <1>5, <1>6 DEF Failure

LEMMA StartTyped ==
    ASSUME TypeOK, NEW w \in Slots, NEW id \in DOMAIN jobs,
           Take(w, id),
           task' = [task EXCEPT ![w] = [pc |-> "read", job |-> id, err |-> None,
                                        attempt |-> jobs[id].attempts + 1]],
           UNCHANGED <<rows, request, used>>
    PROVE  /\ TypeOK'
           /\ task'[w].pc = "read" /\ task'[w].job = id
           /\ \A v \in Slots : v # w => task'[v] = task[v]
<1> DEFINE t == [pc |-> "read", job |-> id, err |-> None, attempt |-> jobs[id].attempts + 1]
<1>1. id \in JobId /\ jobs[id] \in Job
  BY DEF TypeOK
<1>2. t \in Task /\ t.pc = "read" /\ t.job = id
  BY <1>1 DEF Task, Job, HandlerCalls
<1>3. task' = [task EXCEPT ![w] = t]
  OBVIOUS
<1> HIDE DEF t
<1>4. /\ task' \in [Slots -> Task] /\ task'[w] = t
      /\ \A v \in Slots : v # w => task'[v] = task[v]
  BY <1>2, <1>3 DEF TypeOK
<1>5. DOMAIN jobs' = DOMAIN jobs /\ jobs' \in [DOMAIN jobs -> Job]
  BY Taking
<1>. QED BY <1>2, <1>4, <1>5 DEF TypeOK, rows

LEMMA CallFailsTyped ==
    ASSUME TypeOK, NEW w \in Slots, CallFails(w)
    PROVE  TypeOK'
<1>1. task' \in [Slots -> Task]
  BY Failing DEF CallFails
<1>2. used' \in [DOMAIN Bound -> Nat]
  BY Using, RenderAssumption DEF CallFails
<1>. QED BY <1>1, <1>2 DEF CallFails, TypeOK, rows

LEMMA BookkeepingTyped ==
    ASSUME TypeOK, NEW w \in Slots, BookkeepingFails(w)
    PROVE  TypeOK'
<1>1. task' \in [Slots -> Task]
  BY Moving DEF BookkeepingFails
<1>2. used' \in [DOMAIN Bound -> Nat]
  BY Using, RenderAssumption DEF BookkeepingFails
<1>. QED BY <1>1, <1>2 DEF BookkeepingFails, TypeOK, rows

(* The job of an execution whose record fails is settled all the same.     *)
LEMMA RecordTyped ==
    ASSUME TypeOK, HasJob, NEW w \in Slots, RecordFails(w)
    PROVE  /\ TypeOK' /\ DOMAIN jobs' = DOMAIN jobs
           /\ \A i \in DOMAIN jobs : i # task[w].job => jobs'[i] = jobs[i]
           /\ task'[w].pc = "idle"
           /\ \A v \in Slots : v # w => task'[v] = task[v]
<1> DEFINE state == IF task[w].attempt < MaxAttempts THEN "waiting" ELSE "failed"
<1>1. Settle(w, task[w].job, state) /\ state \in {"waiting", "completed", "failed"}
  BY DEF RecordFails
<1> HIDE DEF state
<1>2. task[w].job \in DOMAIN jobs
  BY DEF RecordFails, HasJob
<1>3. /\ DOMAIN jobs' = DOMAIN jobs /\ jobs' \in [DOMAIN jobs -> Job]
      /\ \A i \in DOMAIN jobs : i # task[w].job => jobs'[i] = jobs[i]
  BY <1>1, <1>2, Settling
<1>4. /\ task' \in [Slots -> Task] /\ task'[w].pc = "idle"
      /\ \A v \in Slots : v # w => task'[v] = task[v]
  BY Idling DEF RecordFails
<1>5. used' \in [DOMAIN Bound -> Nat]
  BY Using, RenderAssumption DEF RecordFails
<1>. QED BY <1>3, <1>4, <1>5 DEF RecordFails, TypeOK, rows

LEMMA CrashTyped ==
    ASSUME TypeOK, NEW w \in Slots, Crash(w)
    PROVE  TypeOK'
<1>1. task' \in [Slots -> Task]
  BY Idling DEF Crash
<1>2. used' \in [DOMAIN Bound -> Nat]
  BY Using, RenderAssumption DEF Crash
<1>. QED BY <1>1, <1>2 DEF Crash, TypeOK, rows

LEMMA StallTyped ==
    ASSUME TypeOK, NEW id \in DOMAIN jobs, Stall(id)
    PROVE  TypeOK'
<1>1. DOMAIN jobs' = DOMAIN jobs /\ jobs' \in [DOMAIN jobs -> Job]
  BY Reclaiming DEF Stall
<1>2. used' \in [DOMAIN Bound -> Nat]
  BY Using, RenderAssumption DEF Stall, TypeOK
<1>. QED BY <1>1, <1>2 DEF Stall, TypeOK, rows

LEMMA RequestTyped ==
    ASSUME TypeOK, NEW q \in Requests, AskRetry(q) \/ Request(q) \/ EnqueueLost(q)
    PROVE  TypeOK'
<1>1. CASE AskRetry(q)
  <2>1. request' \in [Requests -> Asked]
    BY <1>1, Asking DEF AskRetry
  <2>2. used' \in [DOMAIN Bound -> Nat]
    BY <1>1, Using, RenderAssumption DEF AskRetry
  <2>. QED BY <1>1, <2>1, <2>2 DEF AskRetry, TypeOK, rows
<1>2. CASE Retry(q)
  <2>1. request' \in [Requests -> Asked]
    BY <1>2, Asking, Blank DEF Retry, TypeOK
  <2>2. render' \in Render
    BY <1>2, RequeuedRow DEF Retry, TypeOK
  <2>. QED BY <1>2, <2>1, <2>2 DEF Retry, TypeOK
<1>3. CASE Reread(q)
  <2>1. [pc |-> "enqueue", attempt |-> render.attempt] \in Asked
    BY DEF TypeOK, Render, Asked
  <2>2. request' \in [Requests -> Asked]
    BY <1>3, <2>1, Blank DEF Reread, TypeOK
  <2>. QED BY <1>3, <2>2 DEF Reread, TypeOK, rows
<1>4. CASE RequestEnqueues(q)
  <2>1. request[q].attempt \in Nat
    BY DEF TypeOK, Asked
  <2>2. DOMAIN jobs' \subseteq JobId /\ jobs' \in [DOMAIN jobs' -> Job]
    BY <1>4, <2>1, Adding DEF RequestEnqueues
  <2>3. request' \in [Requests -> Asked]
    BY <1>4, Blank DEF RequestEnqueues, TypeOK
  <2>. QED BY <1>4, <2>2, <2>3 DEF RequestEnqueues, TypeOK, rows
<1>5. CASE EnqueueLost(q)
  <2>1. used' \in [DOMAIN Bound -> Nat]
    BY <1>5, Using, RenderAssumption DEF EnqueueLost
  <2>2. request' \in [Requests -> Asked]
    BY <1>5, Blank DEF EnqueueLost, TypeOK
  <2>. QED BY <1>5, <2>1, <2>2 DEF EnqueueLost, TypeOK, rows
<1>. QED BY <1>1, <1>2, <1>3, <1>4, <1>5 DEF Request

LEMMA OthersTyped ==
    ASSUME TypeOK, Remove \/ RemoveVideo \/ ExpireSource \/ Requeue
    PROVE  TypeOK'
<1>1. CASE Remove
  <2>1. used' \in [DOMAIN Bound -> Nat]
    BY <1>1, Using, RenderAssumption DEF Remove
  <2>2. render' \in Render
    BY <1>1, RowRemoval DEF Remove, TypeOK
  <2>. QED BY <1>1, <2>1, <2>2 DEF Remove, TypeOK
<1>2. CASE RemoveVideo
  <2>1. used' \in [DOMAIN Bound -> Nat]
    BY <1>2, Using, RenderAssumption DEF RemoveVideo
  <2>2. render' \in Render
    BY <1>2, RowRemoval DEF RemoveVideo, TypeOK
  <2>. QED BY <1>2, <2>1, <2>2 DEF RemoveVideo, TypeOK
<1>3. CASE ExpireSource
  <2>1. used' \in [DOMAIN Bound -> Nat]
    BY <1>3, Using, RenderAssumption DEF ExpireSource
  <2>. QED BY <1>3, <2>1 DEF ExpireSource, TypeOK
<1>4. CASE Requeue
  <2>1. render.attempt \in Nat
    BY DEF TypeOK, Render
  <2>2. DOMAIN jobs' \subseteq JobId /\ jobs' \in [DOMAIN jobs' -> Job]
    BY <1>4, <2>1, Adding DEF Requeue
  <2>. QED BY <1>4, <2>2 DEF Requeue, TypeOK, rows
<1>. QED BY <1>1, <1>2, <1>3, <1>4


-----------------------------------------------------------------------------
(* A completed clip is stored, whatever fails.                             *)

StoredInv ==
    /\ TypeOK
    /\ HasJob
    /\ \A w \in Slots : task[w].pc = "complete" => stored
    /\ CompletedIsStored

(* What every step keeps to.                                               *)
LEMMA StoredFrame ==
    ASSUME StoredInv, TypeOK',
           DOMAIN jobs \subseteq DOMAIN jobs',
           stored => stored',
           \A v \in Slots : task'[v].pc # "idle" =>
              \/ task[v].pc # "idle" /\ task'[v].job = task[v].job
              \/ task'[v].job \in DOMAIN jobs,
           \A v \in Slots : task'[v].pc = "complete" => task[v].pc = "complete" \/ stored',
           render'.status = "COMPLETED" =>
              render.status = "COMPLETED" \/ \E v \in Slots : task[v].pc = "complete"
    PROVE  StoredInv'
<1>1. HasJob'
  BY DEF StoredInv, HasJob
<1>2. (\A w \in Slots : task[w].pc = "complete" => stored)'
  BY DEF StoredInv
<1>3. CompletedIsStored'
  BY DEF StoredInv, CompletedIsStored
<1>. QED BY <1>1, <1>2, <1>3 DEF StoredInv

LEMMA RunStored ==
    ASSUME StoredInv, NEW w \in Slots, Run(w)
    PROVE  StoredInv'
<1>0. TypeOK /\ TypeOK' /\ render \in Render
  BY RunTyped DEF StoredInv, TypeOK
<1>1. CASE ReadRender(w)
  <2> DEFINE pc == IF CanMove(Active) /\ task[w].job.attempt >= render.attempt THEN "video" ELSE "done"
  <2>1. Goto(w, pc) /\ pc \in {"video", "done"}
    BY <1>1 DEF ReadRender
  <2> HIDE DEF pc
  <2>2. /\ task'[w].pc = pc /\ task'[w].job = task[w].job
        /\ \A v \in Slots : v # w => task'[v] = task[v]
    BY <1>0, <2>1, Moving DEF HandlerCalls
  <2>. QED BY <1>0, <1>1, <2>1, <2>2, StoredFrame DEF ReadRender, rows
<1>2. CASE ReadVideo(w)
  <2> DEFINE pc == IF source = "deleted" THEN "done" ELSE "charge"
  <2>1. Goto(w, pc) /\ pc \in {"charge", "done"}
    BY <1>2 DEF ReadVideo
  <2> HIDE DEF pc
  <2>2. /\ task'[w].pc = pc /\ task'[w].job = task[w].job
        /\ \A v \in Slots : v # w => task'[v] = task[v]
    BY <1>0, <2>1, Moving DEF HandlerCalls
  <2>. QED BY <1>0, <1>2, <2>1, <2>2, StoredFrame DEF ReadVideo, rows
<1>3. CASE Charge(w)
  <2>1. /\ task'[w].pc \in {"prepare", "failing"} /\ task'[w].job = task[w].job
        /\ \A v \in Slots : v # w => task'[v] = task[v]
    BY <1>0, <1>3, Moving, Failing DEF Charge, HandlerCalls
  <2>. QED BY <1>0, <1>3, <2>1, StoredFrame DEF Charge
<1>4. CASE Prepare(w)
  <2>1. /\ task'[w].pc = "source" /\ task'[w].job = task[w].job
        /\ \A v \in Slots : v # w => task'[v] = task[v]
    BY <1>0, <1>4, Moving DEF Prepare, HandlerCalls
  <2>2. render'.status = "PREPARING"
    BY <1>0, <1>4, RowUpdates DEF Prepare, Active
  <2>. QED BY <1>0, <1>4, <2>1, <2>2, StoredFrame DEF Prepare
<1>5. CASE OpenSource(w)
  <2>1. /\ task'[w].pc \in {"analyze", "encode", "failing"} /\ task'[w].job = task[w].job
        /\ \A v \in Slots : v # w => task'[v] = task[v]
    BY <1>0, <1>5, Moving, Failing DEF OpenSource, HandlerCalls
  <2>. QED BY <1>0, <1>5, <2>1, StoredFrame DEF OpenSource, rows
<1>6. CASE Advance(w)
  <2> DEFINE status == StatusAt[task[w].pc]
             next == AfterStatus[task[w].pc]
  <2>1. /\ status \in Active /\ next \in HandlerCalls
        /\ status # "COMPLETED" /\ next # "complete"
    BY <1>6 DEF Advance, StatusAt, AfterStatus, Active, HandlerCalls
  <2>2. \/ render' = [render EXCEPT !.status = status] /\ Goto(w, next)
        \/ Fails(w, "cancelled") /\ UNCHANGED render
    BY <1>6 DEF Advance
  <2>3. UNCHANGED <<jobs, stored>>
    BY <1>6 DEF Advance
  <2> HIDE DEF status, next
  <2>4. /\ task'[w].pc # "complete" /\ task'[w].job = task[w].job
        /\ \A v \in Slots : v # w => task'[v] = task[v]
    BY <1>0, <2>1, <2>2, Moving, Failing
  <2>5. render'.status = "COMPLETED" => render.status = "COMPLETED"
    <3>1. CASE render' = [render EXCEPT !.status = status]
      <4>1. [render EXCEPT !.status = status].status = status
        BY <1>0, <2>1, RowUpdates
      <4>. QED BY <2>1, <3>1, <4>1
    <3>. QED BY <2>2, <3>1
  <2>6. task[w].pc # "idle"
    BY <1>6 DEF Advance, StatusAt
  <2>. QED BY <1>0, <2>3, <2>4, <2>5, <2>6, StoredFrame
<1>7. CASE RunFfmpeg(w)
  <2>1. /\ task'[w].pc \in {"upload", "failing"} /\ task'[w].job = task[w].job
        /\ \A v \in Slots : v # w => task'[v] = task[v]
    BY <1>0, <1>7, Moving, Failing DEF RunFfmpeg, HandlerCalls
  <2>. QED BY <1>0, <1>7, <2>1, StoredFrame DEF RunFfmpeg, rows
<1>8. CASE StoreOutput(w)
  <2>1. /\ task'[w].pc = "complete" /\ task'[w].job = task[w].job
        /\ \A v \in Slots : v # w => task'[v] = task[v]
    BY <1>0, <1>8, Moving DEF StoreOutput, HandlerCalls
  <2>. QED BY <1>0, <1>8, <2>1, StoredFrame DEF StoreOutput
<1>9. CASE FinishRender(w)
  <2>1. /\ task'[w].pc = "done" /\ task'[w].job = task[w].job
        /\ \A v \in Slots : v # w => task'[v] = task[v]
    BY <1>0, <1>9, Moving DEF FinishRender, HandlerCalls
  <2>. QED BY <1>0, <1>9, <2>1, StoredFrame DEF FinishRender
<1>. QED BY <1>1, <1>2, <1>3, <1>4, <1>5, <1>6, <1>7, <1>8, <1>9 DEF Run

LEMMA FailureStored ==
    ASSUME StoredInv, NEW w \in Slots, Complete(w) \/ Failure(w)
    PROVE  StoredInv'
<1>0. TypeOK /\ HasJob /\ TypeOK' /\ render \in Render
  BY FailureTyped DEF StoredInv, TypeOK
<1>1. CASE Complete(w) \/ RetryLater(w) \/ GiveUp(w)
  <2>1. /\ DOMAIN jobs' = DOMAIN jobs /\ task'[w].pc = "idle"
        /\ \A v \in Slots : v # w => task'[v] = task[v]
    BY <1>0, <1>1, EndTyped DEF Complete, RetryLater, GiveUp
  <2>. QED BY <1>0, <1>1, <2>1, StoredFrame DEF Complete, RetryLater, GiveUp, rows
<1>2. CASE FailRead(w)
  <2>1. /\ task'[w].pc \in {"fail", "give-up"} /\ task'[w].job = task[w].job
        /\ \A v \in Slots : v # w => task'[v] = task[v]
    BY <1>0, <1>2, Moving DEF FailRead
  <2>. QED BY <1>0, <1>2, <2>1, StoredFrame DEF FailRead, rows
<1>3. CASE FailRender(w)
  <2>1. /\ task'[w].pc \in {"refund", "give-up"} /\ task'[w].job = task[w].job
        /\ \A v \in Slots : v # w => task'[v] = task[v]
    BY <1>0, <1>3, Moving DEF FailRender
  <2>2. render'.status \in {"FAILED", render.status}
    BY <1>0, <1>3 DEF FailRender, Render
  <2>. QED BY <1>0, <1>3, <2>1, <2>2, StoredFrame DEF FailRender
<1>4. CASE Refund(w)
  <2>1. /\ task'[w].pc = "give-up" /\ task'[w].job = task[w].job
        /\ \A v \in Slots : v # w => task'[v] = task[v]
    BY <1>0, <1>4, Moving DEF Refund
  <2>. QED BY <1>0, <1>4, <2>1, StoredFrame DEF Refund
<1>. QED BY <1>1, <1>2, <1>3, <1>4 DEF Failure

LEMMA OthersStored ==
    ASSUME StoredInv,
           \/ \E w \in Slots : Start(w) \/ Faults(w)
           \/ \E id \in DOMAIN jobs : Stall(id)
           \/ \E q \in Requests : AskRetry(q) \/ Request(q) \/ EnqueueLost(q)
           \/ Remove \/ RemoveVideo \/ ExpireSource \/ Requeue
    PROVE  StoredInv'
<1>0. TypeOK /\ HasJob /\ render \in Render
  BY DEF StoredInv, TypeOK
<1>1. ASSUME NEW w \in Slots, Start(w) PROVE StoredInv'
  <2>1. PICK id \in DOMAIN jobs :
           /\ Take(w, id) /\ UNCHANGED <<rows, request, used>>
           /\ task' = [task EXCEPT ![w] = [pc |-> "read", job |-> id, err |-> None,
                                           attempt |-> jobs[id].attempts + 1]]
    BY <1>1 DEF Start
  <2>2. /\ TypeOK' /\ task'[w].pc = "read" /\ task'[w].job = id
        /\ \A v \in Slots : v # w => task'[v] = task[v]
    BY <1>0, <2>1, StartTyped
  <2>3. DOMAIN jobs' = DOMAIN jobs
    BY <1>0, <2>1, Taking
  <2>. QED BY <2>1, <2>2, <2>3, StoredFrame DEF rows
<1>2. ASSUME NEW w \in Slots, CallFails(w) PROVE StoredInv'
  <2>1. /\ task'[w].pc = "failing" /\ task'[w].job = task[w].job
        /\ \A v \in Slots : v # w => task'[v] = task[v]
    BY <1>0, <1>2, Failing DEF CallFails
  <2>2. task[w].pc # "idle"
    BY <1>2 DEF CallFails, HandlerCalls
  <2>. QED BY <1>0, <1>2, <2>1, <2>2, CallFailsTyped, StoredFrame DEF CallFails, rows
<1>3. ASSUME NEW w \in Slots, Crash(w) PROVE StoredInv'
  <2>1. task'[w].pc = "idle" /\ \A v \in Slots : v # w => task'[v] = task[v]
    BY <1>0, <1>3, Idling DEF Crash
  <2>. QED BY <1>0, <1>3, <2>1, CrashTyped, StoredFrame DEF Crash, rows
<1>4. ASSUME NEW id \in DOMAIN jobs, Stall(id) PROVE StoredInv'
  <2>1. DOMAIN jobs' = DOMAIN jobs
    BY <1>0, <1>4, Reclaiming DEF Stall
  <2>. QED BY <1>0, <1>4, <2>1, StallTyped, StoredFrame DEF Stall, rows
<1>5. ASSUME NEW q \in Requests, AskRetry(q) \/ Request(q) \/ EnqueueLost(q) PROVE StoredInv'
  <2>1. TypeOK' /\ UNCHANGED <<task, stored>>
    BY <1>0, <1>5, RequestTyped
       DEF AskRetry, Request, EnqueueLost, Retry, Reread, RequestEnqueues, rows
  <2>2. DOMAIN jobs \subseteq DOMAIN jobs'
    BY <1>5 DEF AskRetry, Request, EnqueueLost, Retry, Reread, RequestEnqueues, rows, Add
  <2>3. render'.status = "COMPLETED" => render.status = "COMPLETED"
    BY <1>0, <1>5, RequeuedRow
       DEF AskRetry, Request, EnqueueLost, Retry, Reread, RequestEnqueues, rows
  <2>. QED BY <2>1, <2>2, <2>3, StoredFrame
<1>6. ASSUME Remove \/ RemoveVideo \/ ExpireSource \/ Requeue PROVE StoredInv'
  <2>1. TypeOK' /\ UNCHANGED <<task, stored>>
    BY <1>0, <1>6, OthersTyped DEF Remove, RemoveVideo, ExpireSource, Requeue, rows
  <2>2. DOMAIN jobs \subseteq DOMAIN jobs'
    BY <1>6 DEF Remove, RemoveVideo, ExpireSource, Requeue, Add
  <2>3. render'.status = render.status
    BY <1>0, <1>6, RowRemoval DEF Remove, RemoveVideo, ExpireSource, Requeue, rows
  <2>. QED BY <2>1, <2>2, <2>3, StoredFrame
<1>7. ASSUME NEW w \in Slots, RecordFails(w) PROVE StoredInv'
  BY <1>0, <1>7, RecordTyped, StoredFrame DEF RecordFails, rows
<1>8. ASSUME NEW w \in Slots, BookkeepingFails(w) PROVE StoredInv'
  <2>1. /\ task'[w].pc = "give-up" /\ task'[w].job = task[w].job
        /\ \A v \in Slots : v # w => task'[v] = task[v]
    BY <1>0, <1>8, Moving DEF BookkeepingFails
  <2>. QED BY <1>0, <1>8, <2>1, BookkeepingTyped, StoredFrame DEF BookkeepingFails, rows
<1>. QED BY <1>1, <1>2, <1>3, <1>4, <1>5, <1>6, <1>7, <1>8 DEF Faults

(* Types, jobs and stored output stay sound along every step.              *)
THEOREM StoredInvHolds == Spec => []StoredInv
<1>1. Init => StoredInv
  BY InitTyped DEF Init, StoredInv, HasJob, CompletedIsStored, Idle
<1>2. StoredInv /\ [Next]_vars => StoredInv'
  <2> SUFFICES ASSUME StoredInv, [Next]_vars PROVE StoredInv'
    OBVIOUS
  <2>1. ASSUME NEW w \in Slots, Execute(w) PROVE StoredInv'
    BY <2>1, RunStored, FailureStored DEF Execute
  <2>2. CASE UNCHANGED vars
    BY <2>2 DEF vars, rows, StoredInv, TypeOK, HasJob, CompletedIsStored
  <2>. QED BY <2>1, <2>2, OthersStored DEF Next
<1>. QED BY <1>1, <1>2, PTL DEF Spec

(* A COMPLETED render has its output objects.                              *)
THEOREM CompletedIsStoredHolds == Spec => []CompletedIsStored
<1>1. StoredInv => CompletedIsStored
  BY DEF StoredInv
<1>. QED BY <1>1, StoredInvHolds, PTL


-----------------------------------------------------------------------------
(* Who works on the render works alone.                                    *)

LEMMA Alone ==
    ASSUME TypeOK, WorkersInv, NEW w \in Slots, NEW v \in Slots, Works(w), Works(v)
    PROVE  w = v
<1>1. task[w].pc # "idle" /\ task[v].pc # "idle"
  BY DEF Works, StatusIn
<1>2. task[w].job \in DOMAIN jobs /\ Holds(w, task[w].job)
      /\ task[v].job \in DOMAIN jobs /\ Holds(v, task[v].job)
  BY <1>1 DEF WorkersInv
<1>3. task[w].job \in JobId /\ task[v].job \in JobId /\ task[w].job.attempt = task[v].job.attempt
  BY <1>2 DEF WorkersInv, TypeOK
<1>4. task[w].job = task[v].job
  BY <1>3 DEF JobId
<1>. QED BY <1>2, <1>4 DEF Holds

(* A step of an execution that leaves the queue alone.                     *)
LEMMA WorkerFrame ==
    ASSUME TypeOK, WorkersInv, NEW w \in Slots, task[w].pc # "idle",
           task'[w].job = task[w].job,
           \A v \in Slots : v # w => task'[v] = task[v],
           UNCHANGED <<jobs, request>>,
           render'.attempt = render.attempt,
           render'.status # render.status => Works(w),
           task'[w].pc \in DOMAIN StatusIn =>
              /\ task[w].job.attempt = render.attempt
              /\ render'.status \in StatusIn[task'[w].pc]
    PROVE  WorkersInv'
<1>1. ASSUME NEW v \in Slots, task'[v].pc # "idle"
      PROVE  (task[v].job \in DOMAIN jobs /\ Holds(v, task[v].job))'
  BY <1>1 DEF WorkersInv, Holds
<1>2. ASSUME NEW v \in Slots, task'[v].pc \in DOMAIN StatusIn
      PROVE  task'[v].job.attempt = render'.attempt /\ render'.status \in StatusIn[task'[v].pc]
  <2>1. CASE v = w
    BY <1>2, <2>1
  <2>2. CASE v # w
    <3>1. Works(v)
      BY <1>2, <2>2 DEF Works
    <3>2. render'.status = render.status
      BY <2>2, <3>1, Alone
    <3>. QED BY <2>2, <3>1, <3>2 DEF WorkersInv
  <2>. QED BY <2>1, <2>2
<1>3. (\A id \in DOMAIN jobs : id.attempt <= render.attempt)'
      /\ (\A q \in Requests : request[q].attempt <= render.attempt)'
  BY DEF WorkersInv
<1>. QED BY <1>1, <1>2, <1>3 DEF WorkersInv, Works

(* A step by which no execution begins to work, no slot gets another job
   and the row keeps its status.                                           *)
LEMMA IdleFrame ==
    ASSUME TypeOK, WorkersInv,
           \A v \in Slots : task'[v].pc # "idle" => task'[v] = task[v],
           \A v \in Slots : task'[v].pc # "idle" =>
              task'[v].job \in DOMAIN jobs' /\ jobs'[task'[v].job] = jobs[task'[v].job],
           \A id \in DOMAIN jobs' : id.attempt <= render.attempt,
           \A q \in Requests : request'[q].attempt <= render.attempt,
           render'.attempt = render.attempt, render'.status = render.status
    PROVE  WorkersInv'
<1>1. ASSUME NEW v \in Slots, task'[v].pc # "idle"
      PROVE  (task[v].job \in DOMAIN jobs /\ Holds(v, task[v].job))'
  BY <1>1 DEF WorkersInv, Holds
<1>2. ASSUME NEW v \in Slots, task'[v].pc \in DOMAIN StatusIn
      PROVE  task'[v].job.attempt = render'.attempt /\ render'.status \in StatusIn[task'[v].pc]
  <2>1. task'[v] = task[v]
    BY <1>2 DEF StatusIn
  <2>. QED BY <1>2, <2>1 DEF WorkersInv, Works
<1>. QED BY <1>1, <1>2 DEF WorkersInv, Works

LEMMA RunAlone ==
    ASSUME TypeOK, WorkersInv, NEW w \in Slots, Run(w)
    PROVE  WorkersInv'
<1>0. /\ render \in Render /\ render.attempt \in Nat
      /\ \A v \in Slots : task[v].pc # "idle" => task[v].job \in JobId
  BY DEF TypeOK, Render, WorkersInv
<1>1. CASE ReadRender(w)
  <2> DEFINE pc == IF CanMove(Active) /\ task[w].job.attempt >= render.attempt THEN "video" ELSE "done"
  <2>1. Goto(w, pc) /\ pc \in {"video", "done"} /\ task[w].pc # "idle" /\ UNCHANGED <<render, jobs, request>>
    BY <1>1 DEF ReadRender, rows
  <2>2. pc = "video" => CanMove(Active) /\ task[w].job.attempt >= render.attempt
    OBVIOUS
  <2>3. task[w].job.attempt <= render.attempt /\ task[w].job.attempt \in Nat
    BY <1>0, <2>1 DEF WorkersInv, JobId
  <2> HIDE DEF pc
  <2>4. /\ task'[w].pc = pc /\ task'[w].job = task[w].job
        /\ \A v \in Slots : v # w => task'[v] = task[v]
    BY <2>1, Moving DEF HandlerCalls
  <2>5. task'[w].pc \in DOMAIN StatusIn =>
           task[w].job.attempt = render.attempt /\ render.status \in StatusIn[task'[w].pc]
    BY <1>0, <2>1, <2>2, <2>3, <2>4 DEF CanMove, StatusIn
  <2>. QED BY <2>1, <2>4, <2>5, WorkerFrame
<1>2. CASE ReadVideo(w)
  <2>1. Works(w) /\ task[w].pc = "video" /\ UNCHANGED <<render, jobs, request>>
    BY <1>2 DEF ReadVideo, Works, StatusIn, rows
  <2>2. /\ task'[w].pc \in {"charge", "done"} /\ task'[w].job = task[w].job
        /\ \A v \in Slots : v # w => task'[v] = task[v]
    BY <1>2, Moving DEF ReadVideo, HandlerCalls
  <2>3. task[w].job.attempt = render.attempt /\ render.status \in Active
    BY <2>1 DEF WorkersInv, StatusIn
  <2>. QED BY <2>1, <2>2, <2>3, WorkerFrame DEF StatusIn
<1>3. CASE Charge(w)
  <2>1. Works(w) /\ task[w].pc = "charge" /\ UNCHANGED <<render, jobs, request>>
    BY <1>3 DEF Charge, Works, StatusIn
  <2>2. /\ task'[w].pc \in {"prepare", "failing"} /\ task'[w].job = task[w].job
        /\ \A v \in Slots : v # w => task'[v] = task[v]
    BY <1>3, Moving, Failing DEF Charge, HandlerCalls
  <2>3. task[w].job.attempt = render.attempt /\ render.status \in Active
    BY <2>1 DEF WorkersInv, StatusIn
  <2>. QED BY <2>1, <2>2, <2>3, WorkerFrame DEF StatusIn
<1>4. CASE Prepare(w)
  <2>1. Works(w) /\ task[w].pc = "prepare" /\ UNCHANGED <<jobs, request>>
    BY <1>4 DEF Prepare, Works, StatusIn
  <2>2. /\ task'[w].pc = "source" /\ task'[w].job = task[w].job
        /\ \A v \in Slots : v # w => task'[v] = task[v]
    BY <1>4, Moving DEF Prepare, HandlerCalls
  <2>3. render'.status = "PREPARING" /\ render'.attempt = render.attempt
    BY <1>0, <1>4, RowUpdates DEF Prepare, Active
  <2>4. task[w].job.attempt = render.attempt
    BY <2>1 DEF WorkersInv
  <2>. QED BY <2>1, <2>2, <2>3, <2>4, WorkerFrame DEF StatusIn
<1>5. CASE OpenSource(w)
  <2>1. Works(w) /\ task[w].pc = "source" /\ UNCHANGED <<render, jobs, request>>
    BY <1>5 DEF OpenSource, Works, StatusIn, rows
  <2>2. /\ task'[w].pc \in {"analyze", "encode", "failing"} /\ task'[w].job = task[w].job
        /\ \A v \in Slots : v # w => task'[v] = task[v]
    BY <1>5, Moving, Failing DEF OpenSource, HandlerCalls
  <2>3. task[w].job.attempt = render.attempt /\ render.status = "PREPARING"
    BY <2>1 DEF WorkersInv, StatusIn
  <2>. QED BY <2>1, <2>2, <2>3, WorkerFrame DEF StatusIn, Active
<1>6. CASE Advance(w)
  <2>1. Works(w) /\ task[w].pc \in {"analyze", "encode", "upload"} /\ UNCHANGED <<jobs, request>>
    BY <1>6 DEF Advance, StatusAt, Works, StatusIn
  <2>2. task[w].job.attempt = render.attempt /\ render.status \in Active
    BY <2>1 DEF WorkersInv, StatusIn, Active
  <2>3. CASE CanMove(Active)
    <3> DEFINE status == StatusAt[task[w].pc]
               next == AfterStatus[task[w].pc]
    <3>1. render' = [render EXCEPT !.status = status] /\ Goto(w, next)
      BY <1>6, <2>3 DEF Advance
    <3>2. /\ status \in Active /\ next \in HandlerCalls
          /\ next \in DOMAIN StatusIn /\ status \in StatusIn[next]
      BY <2>1 DEF StatusAt, AfterStatus, Active, HandlerCalls, StatusIn
    <3> HIDE DEF status, next
    <3>3. render'.status = status /\ render'.attempt = render.attempt
      BY <1>0, <3>1, <3>2, RowUpdates
    <3>4. /\ task'[w].pc = next /\ task'[w].job = task[w].job
          /\ \A v \in Slots : v # w => task'[v] = task[v]
      BY <3>1, <3>2, Moving
    <3>5. task[w].pc # "idle"
      BY <2>1
    <3>. QED BY <2>1, <2>2, <3>2, <3>3, <3>4, <3>5, WorkerFrame
  <2>4. CASE ~ CanMove(Active)
    <3>1. /\ task'[w].pc = "failing" /\ task'[w].job = task[w].job
          /\ \A v \in Slots : v # w => task'[v] = task[v]
          /\ UNCHANGED render
      BY <1>6, <2>4, Failing DEF Advance
    <3>. QED BY <2>1, <2>2, <3>1, WorkerFrame DEF StatusIn
  <2>. QED BY <2>3, <2>4
<1>7. CASE RunFfmpeg(w)
  <2>1. Works(w) /\ task[w].pc = "ffmpeg" /\ UNCHANGED <<render, jobs, request>>
    BY <1>7 DEF RunFfmpeg, Works, StatusIn, rows
  <2>2. /\ task'[w].pc \in {"upload", "failing"} /\ task'[w].job = task[w].job
        /\ \A v \in Slots : v # w => task'[v] = task[v]
    BY <1>7, Moving, Failing DEF RunFfmpeg, HandlerCalls
  <2>3. task[w].job.attempt = render.attempt /\ render.status = "RENDERING"
    BY <2>1 DEF WorkersInv, StatusIn
  <2>. QED BY <2>1, <2>2, <2>3, WorkerFrame DEF StatusIn, Active
<1>8. CASE StoreOutput(w)
  <2>1. Works(w) /\ task[w].pc = "store" /\ UNCHANGED <<render, jobs, request>>
    BY <1>8 DEF StoreOutput, Works, StatusIn
  <2>2. /\ task'[w].pc = "complete" /\ task'[w].job = task[w].job
        /\ \A v \in Slots : v # w => task'[v] = task[v]
    BY <1>8, Moving DEF StoreOutput, HandlerCalls
  <2>3. task[w].job.attempt = render.attempt /\ render.status = "UPLOADING"
    BY <2>1 DEF WorkersInv, StatusIn
  <2>. QED BY <2>1, <2>2, <2>3, WorkerFrame DEF StatusIn
<1>9. CASE FinishRender(w)
  <2>1. Works(w) /\ task[w].pc = "complete" /\ UNCHANGED <<jobs, request>>
    BY <1>9 DEF FinishRender, Works, StatusIn
  <2>2. /\ task'[w].pc = "done" /\ task'[w].job = task[w].job
        /\ \A v \in Slots : v # w => task'[v] = task[v]
    BY <1>9, Moving DEF FinishRender, HandlerCalls
  <2>3. render'.attempt = render.attempt
    BY <1>0, <1>9, RowUpdates DEF FinishRender
  <2>. QED BY <2>1, <2>2, <2>3, WorkerFrame DEF StatusIn
<1>. QED BY <1>1, <1>2, <1>3, <1>4, <1>5, <1>6, <1>7, <1>8, <1>9 DEF Run


LEMMA EndAlone ==
    ASSUME TypeOK, WorkersInv, NEW w \in Slots,
           Complete(w) \/ RetryLater(w) \/ GiveUp(w) \/ RecordFails(w)
    PROVE  WorkersInv'
<1>1. HasJob /\ task[w].pc # "idle"
  BY DEF HasJob, WorkersInv, Complete, RetryLater, GiveUp, RecordFails
<1>2. /\ DOMAIN jobs' = DOMAIN jobs
      /\ \A i \in DOMAIN jobs : i # task[w].job => jobs'[i] = jobs[i]
      /\ task'[w].pc = "idle"
      /\ \A v \in Slots : v # w => task'[v] = task[v]
  BY <1>1, EndTyped, RecordTyped DEF Complete, RetryLater, GiveUp
<1>3. ASSUME NEW v \in Slots, task'[v].pc # "idle"
      PROVE  task'[v].job \in DOMAIN jobs' /\ jobs'[task'[v].job] = jobs[task'[v].job]
  <2>1. v # w /\ task'[v] = task[v]
    BY <1>2, <1>3
  <2>2. task[v].job \in DOMAIN jobs /\ Holds(v, task[v].job) /\ Holds(w, task[w].job)
    BY <1>1, <1>3, <2>1 DEF WorkersInv
  <2>3. task[v].job # task[w].job
    BY <2>1, <2>2 DEF Holds
  <2>. QED BY <1>2, <2>1, <2>2, <2>3
<1>4. UNCHANGED <<render, request>>
  BY DEF Complete, RetryLater, GiveUp, RecordFails, rows
<1>. QED BY <1>2, <1>3, <1>4, IdleFrame DEF WorkersInv

LEMMA FailureAlone ==
    ASSUME TypeOK, WorkersInv, NEW w \in Slots,
           FailRead(w) \/ FailRender(w) \/ Refund(w) \/ BookkeepingFails(w)
    PROVE  WorkersInv'
<1>0. render \in Render
  BY DEF TypeOK
<1>1. CASE FailRead(w)
  <2>1. Works(w) /\ task[w].pc = "failing" /\ UNCHANGED <<render, jobs, request>>
    BY <1>1 DEF FailRead, Works, StatusIn, rows
  <2>2. /\ task'[w].pc \in {"fail", "give-up"} /\ task'[w].job = task[w].job
        /\ \A v \in Slots : v # w => task'[v] = task[v]
    BY <1>1, Moving DEF FailRead
  <2>3. task[w].job.attempt = render.attempt /\ render.status \in Active
    BY <2>1 DEF WorkersInv, StatusIn
  <2>. QED BY <2>1, <2>2, <2>3, WorkerFrame DEF StatusIn
<1>2. CASE FailRender(w)
  <2>1. Works(w) /\ task[w].pc = "fail" /\ UNCHANGED <<jobs, request>>
    BY <1>2 DEF FailRender, Works, StatusIn
  <2>2. /\ task'[w].pc \in {"refund", "give-up"} /\ task'[w].job = task[w].job
        /\ \A v \in Slots : v # w => task'[v] = task[v]
    BY <1>2, Moving DEF FailRender
  <2>3. render'.attempt = render.attempt
    BY <1>0, <1>2 DEF FailRender, Render
  <2>. QED BY <2>1, <2>2, <2>3, WorkerFrame DEF StatusIn
<1>3. CASE Refund(w)
  <2>1. task[w].pc = "refund" /\ UNCHANGED <<render, jobs, request>>
    BY <1>3 DEF Refund
  <2>2. /\ task'[w].pc = "give-up" /\ task'[w].job = task[w].job
        /\ \A v \in Slots : v # w => task'[v] = task[v]
    BY <1>3, Moving DEF Refund
  <2>. QED BY <2>1, <2>2, WorkerFrame DEF StatusIn
<1>4. CASE BookkeepingFails(w)
  <2>1. task[w].pc \in {"fail", "refund"} /\ UNCHANGED <<render, jobs, request>>
    BY <1>4 DEF BookkeepingFails, rows
  <2>2. /\ task'[w].pc = "give-up" /\ task'[w].job = task[w].job
        /\ \A v \in Slots : v # w => task'[v] = task[v]
    BY <1>4, Moving DEF BookkeepingFails
  <2>. QED BY <2>1, <2>2, WorkerFrame DEF StatusIn
<1>. QED BY <1>1, <1>2, <1>3, <1>4

LEMMA StartAlone ==
    ASSUME TypeOK, WorkersInv, NEW w \in Slots, Start(w)
    PROVE  WorkersInv'
<1>1. PICK id \in DOMAIN jobs :
         /\ Take(w, id) /\ UNCHANGED <<rows, request, used>>
         /\ task' = [task EXCEPT ![w] = [pc |-> "read", job |-> id, err |-> None,
                                         attempt |-> jobs[id].attempts + 1]]
  BY DEF Start
<1>2. /\ task'[w].pc = "read" /\ task'[w].job = id
      /\ \A v \in Slots : v # w => task'[v] = task[v]
  BY <1>1, StartTyped
<1>3. /\ DOMAIN jobs' = DOMAIN jobs /\ jobs[id].state = "waiting" /\ Holds(w, id)'
      /\ \A i \in DOMAIN jobs : i # id => jobs'[i] = jobs[i]
  BY <1>1, Taking
<1>4. ASSUME NEW v \in Slots, task'[v].pc # "idle"
      PROVE  (task[v].job \in DOMAIN jobs /\ Holds(v, task[v].job))'
  <2>1. CASE v = w
    BY <1>2, <1>3, <2>1 DEF Holds
  <2>2. CASE v # w
    <3>1. task[v].job \in DOMAIN jobs /\ Holds(v, task[v].job) /\ task'[v] = task[v]
      BY <1>2, <1>4, <2>2 DEF WorkersInv
    <3>2. task[v].job # id
      BY <1>3, <3>1 DEF Holds
    <3>. QED BY <1>3, <3>1, <3>2 DEF Holds
  <2>. QED BY <2>1, <2>2
<1>5. ASSUME NEW v \in Slots, task'[v].pc \in DOMAIN StatusIn
      PROVE  task'[v].job.attempt = render'.attempt /\ render'.status \in StatusIn[task'[v].pc]
  <2>1. v # w
    BY <1>2, <1>5 DEF StatusIn
  <2>. QED BY <1>1, <1>2, <1>5, <2>1 DEF WorkersInv, Works, rows
<1>. QED BY <1>1, <1>3, <1>4, <1>5 DEF WorkersInv, Works, rows

LEMMA CallFailsAlone ==
    ASSUME TypeOK, WorkersInv, {"read", "done"} \cap FaultyCalls = {}, NEW w \in Slots,
           CallFails(w)
    PROVE  WorkersInv'
<1>1. Works(w) /\ StatusIn[task[w].pc] \subseteq Active /\ UNCHANGED <<render, jobs, request>>
  <2>1. task[w].pc \in HandlerCalls \ {"read", "done"}
    BY DEF CallFails
  <2>2. Works(w)
    BY <2>1, Zenon DEF HandlerCalls, Works, StatusIn
  <2>3. StatusIn[task[w].pc] \subseteq Active
    BY <2>1 DEF HandlerCalls, StatusIn, Active
  <2>. QED BY <2>2, <2>3 DEF CallFails, rows
<1>2. /\ task'[w].pc = "failing" /\ task'[w].job = task[w].job
      /\ \A v \in Slots : v # w => task'[v] = task[v]
  BY Failing DEF CallFails
<1>3. task[w].job.attempt = render.attempt /\ render.status \in Active
  BY <1>1 DEF WorkersInv
<1>4. task[w].pc # "idle"
  BY <1>1 DEF Works, StatusIn
<1>. QED BY <1>1, <1>2, <1>3, <1>4, WorkerFrame DEF StatusIn

LEMMA CrashAlone ==
    ASSUME TypeOK, WorkersInv, NEW w \in Slots, Crash(w)
    PROVE  WorkersInv'
<1>1. task'[w].pc = "idle" /\ \A v \in Slots : v # w => task'[v] = task[v]
  BY Idling DEF Crash
<1>2. UNCHANGED <<render, jobs, request>>
  BY DEF Crash, rows
<1>. QED BY <1>1, <1>2, IdleFrame DEF WorkersInv

LEMMA StallAlone ==
    ASSUME TypeOK, WorkersInv, Bound.lostLocks = 0, NEW id \in DOMAIN jobs, Stall(id)
    PROVE  WorkersInv'
<1>1. /\ DOMAIN jobs' = DOMAIN jobs
      /\ \A i \in DOMAIN jobs : i # id => jobs'[i] = jobs[i]
  BY Reclaiming DEF Stall
<1>2. task[jobs[id].slot].job # id
  <2>1. "lostLocks" \in DOMAIN Bound
    BY RenderAssumption
  <2>2. ~ Use("lostLocks")
    BY <2>1, Using
  <2>. QED BY <2>2 DEF Stall
<1>3. ASSUME NEW v \in Slots, task[v].pc # "idle"
      PROVE  task[v].job \in DOMAIN jobs /\ task[v].job # id
  BY <1>2, <1>3 DEF WorkersInv, Holds
<1>4. UNCHANGED <<render, task, request>>
  BY DEF Stall, rows
<1>. QED BY <1>1, <1>3, <1>4, IdleFrame DEF WorkersInv

LEMMA RequestAlone ==
    ASSUME TypeOK, WorkersInv, NEW q \in Requests, AskRetry(q) \/ Request(q) \/ EnqueueLost(q)
    PROVE  WorkersInv'
<1>0. render \in Render /\ render.attempt \in Nat /\ request \in [Requests -> Asked]
  BY DEF TypeOK, Render
<1>1. CASE AskRetry(q)
  <2>1. \A p \in Requests : request'[p].attempt = request[p].attempt
    BY <1>1, Asking DEF AskRetry
  <2>. QED BY <1>1, <2>1, IdleFrame DEF AskRetry, rows, WorkersInv
<1>2. CASE Retry(q)
  <2>1. CASE render.status = "FAILED"
    <3>1. render' = Requeued /\ request' = [request EXCEPT ![q].pc = "reread"] /\ UNCHANGED <<jobs, task>>
      BY <1>2, <2>1 DEF Retry
    <3>2. \A p \in Requests : request'[p].attempt = request[p].attempt
      BY <3>1, Asking
    <3>3. render'.attempt = render.attempt + 1
      BY <1>0, <3>1, RequeuedRow
    <3>4. \A v \in Slots : ~ Works(v)
      BY <2>1 DEF WorkersInv, Works, StatusIn, Active
    <3>5. ASSUME NEW i \in DOMAIN jobs PROVE i.attempt <= render'.attempt
      <4>1. i.attempt \in Nat /\ i.attempt <= render.attempt
        BY DEF TypeOK, WorkersInv, JobId
      <4>. QED BY <1>0, <3>3, <4>1
    <3>6. ASSUME NEW p \in Requests PROVE request'[p].attempt <= render'.attempt
      <4>1. request[p].attempt \in Nat /\ request[p].attempt <= render.attempt
        BY <1>0 DEF WorkersInv, Asked
      <4>. QED BY <1>0, <3>2, <3>3, <4>1
    <3>. QED BY <3>1, <3>4, <3>5, <3>6 DEF WorkersInv, Works, Holds
  <2>2. CASE render.status # "FAILED"
    <3>1. request' = [request EXCEPT ![q] = NoRequest] /\ UNCHANGED <<render, jobs, task>>
      BY <1>2, <2>2 DEF Retry
    <3>2. \A p \in Requests : request'[p].attempt <= render.attempt
      BY <1>0, <3>1, Blank DEF WorkersInv
    <3>. QED BY <3>1, <3>2, IdleFrame DEF WorkersInv
  <2>. QED BY <2>1, <2>2
<1>3. CASE Reread(q)
  <2>1. \A p \in Requests : request'[p].attempt <= render.attempt
    <3>1. request' = [request EXCEPT ![q] = NoRequest]
          \/ request' = [request EXCEPT ![q] = [pc |-> "enqueue", attempt |-> render.attempt]]
      BY <1>3 DEF Reread
    <3>. QED BY <1>0, <3>1, Blank DEF WorkersInv
  <2>. QED BY <1>3, <2>1, IdleFrame DEF Reread, rows, WorkersInv
<1>4. CASE RequestEnqueues(q)
  <2>1. request[q].attempt \in Nat /\ request[q].attempt <= render.attempt
    BY <1>0 DEF Asked, WorkersInv
  <2>2. /\ DOMAIN jobs' = DOMAIN jobs \cup {RenderJob(request[q].attempt)}
        /\ \A i \in DOMAIN jobs : jobs'[i] = jobs[i]
        /\ RenderJob(request[q].attempt).attempt = request[q].attempt
    BY <1>4, <2>1, Adding DEF RequestEnqueues
  <2>3. \A p \in Requests : request'[p].attempt <= render.attempt
    BY <1>0, <1>4, Blank DEF WorkersInv, RequestEnqueues
  <2>4. \A i \in DOMAIN jobs' : i.attempt <= render.attempt
    BY <2>1, <2>2 DEF WorkersInv
  <2>. QED BY <1>4, <2>2, <2>3, <2>4, IdleFrame DEF RequestEnqueues, rows, WorkersInv
<1>5. CASE EnqueueLost(q)
  <2>1. \A p \in Requests : request'[p].attempt <= render.attempt
    BY <1>0, <1>5, Blank DEF WorkersInv, EnqueueLost
  <2>. QED BY <1>5, <2>1, IdleFrame DEF EnqueueLost, rows, WorkersInv
<1>. QED BY <1>1, <1>2, <1>3, <1>4, <1>5 DEF Request

LEMMA OthersAlone ==
    ASSUME TypeOK, WorkersInv, Remove \/ RemoveVideo \/ ExpireSource \/ Requeue
    PROVE  WorkersInv'
<1>0. render \in Render /\ render.attempt \in Nat
  BY DEF TypeOK, Render
<1>1. CASE Remove \/ RemoveVideo \/ ExpireSource
  <2>1. render'.attempt = render.attempt /\ render'.status = render.status
    BY <1>0, <1>1, RowRemoval DEF Remove, RemoveVideo, ExpireSource
  <2>. QED BY <1>1, <2>1, IdleFrame DEF Remove, RemoveVideo, ExpireSource, WorkersInv
<1>2. CASE Requeue
  <2>1. /\ DOMAIN jobs' = DOMAIN jobs \cup {RenderJob(render.attempt)}
        /\ \A i \in DOMAIN jobs : jobs'[i] = jobs[i]
        /\ RenderJob(render.attempt).attempt = render.attempt
    BY <1>0, <1>2, Adding DEF Requeue
  <2>2. \A i \in DOMAIN jobs' : i.attempt <= render.attempt
    BY <1>0, <2>1 DEF WorkersInv
  <2>. QED BY <1>2, <2>1, <2>2, IdleFrame DEF Requeue, rows, WorkersInv
<1>. QED BY <1>1, <1>2

LEMMA InitAlone == Init => WorkersInv
<1>1. Init => \A q \in Requests : request[q].attempt <= 1
  BY DEF Init, NoRequest
<1>. QED BY <1>1 DEF Init, WorkersInv, Works, Idle, StatusIn

LEMMA StepAlone ==
    ASSUME TypeOK, WorkersInv, Bound.lostLocks = 0, {"read", "done"} \cap FaultyCalls = {}, [Next]_vars
    PROVE  WorkersInv'
<1>1. ASSUME NEW w \in Slots, Execute(w) PROVE WorkersInv'
  BY <1>1, RunAlone, EndAlone, FailureAlone DEF Execute, Failure
<1>2. ASSUME NEW w \in Slots, Start(w) \/ Faults(w) PROVE WorkersInv'
  BY <1>2, StartAlone, CallFailsAlone, EndAlone, FailureAlone, CrashAlone DEF Faults
<1>3. ASSUME NEW id \in DOMAIN jobs, Stall(id) PROVE WorkersInv'
  BY <1>3, StallAlone
<1>4. ASSUME NEW q \in Requests, AskRetry(q) \/ Request(q) \/ EnqueueLost(q) PROVE WorkersInv'
  BY <1>4, RequestAlone
<1>5. CASE UNCHANGED vars
  BY <1>5, IdleFrame DEF vars, rows, WorkersInv
<1>. QED BY <1>1, <1>2, <1>3, <1>4, <1>5, OthersAlone DEF Next


(* A running execution has the job of the render's current attempt to
   itself.                                                                 *)
THEOREM WorkersInvHolds ==
    ASSUME Bound.lostLocks = 0, {"read", "done"} \cap FaultyCalls = {}
    PROVE  Spec => []WorkersInv
<1>1. Init => TypeOK /\ WorkersInv
  BY InitTyped, InitAlone
<1>2. StoredInv /\ WorkersInv /\ [Next]_vars => WorkersInv'
  BY StepAlone DEF StoredInv
<1>. QED BY <1>1, <1>2, StoredInvHolds, PTL DEF Spec

-----------------------------------------------------------------------------
(* Refunds.                                                                *)

(* What was used stays used.                                               *)
KeepsCount ==
    /\ used'.crashes \in Nat /\ used'.crashes >= used.crashes
    /\ used'.bookkeeping \in Nat /\ used'.bookkeeping >= used.bookkeeping

LEMMA Counting ==
    ASSUME TypeOK, NEW x \in DOMAIN Bound, x # "steps", used' = used \/ Use(x)
    PROVE  KeepsCount
<1>1. {"crashes", "bookkeeping"} \subseteq DOMAIN Bound
  BY RenderAssumption
<1>2. CASE Use(x)
  <2>1. used' \in [DOMAIN Bound -> Nat] /\ \A y \in DOMAIN Bound : used'[y] >= used[y]
    BY <1>2, Using
  <2>. QED BY <1>1, <2>1 DEF KeepsCount
<1>3. CASE used' = used
  <2>1. used.crashes \in Nat /\ used.bookkeeping \in Nat
    BY <1>1 DEF TypeOK
  <2>. QED BY <1>3, <2>1 DEF KeepsCount
<1>. QED BY <1>2, <1>3

LEMMA RefundFrame ==
    ASSUME TypeOK, FailedIsRefunded, KeepsCount,
           render'.status = "FAILED" /\ held' =>
              \/ /\ render.status = "FAILED" /\ held
                 /\ \A w \in Slots : task[w].pc = "refund" => task'[w].pc = "refund"
              \/ \E w \in Slots : task'[w].pc = "refund"
              \/ used'.crashes > 0 \/ used'.bookkeeping > 0
    PROVE  FailedIsRefunded'
<1>1. used.crashes \in Nat /\ used.bookkeeping \in Nat
  BY RenderAssumption DEF TypeOK
<1>. QED BY <1>1 DEF FailedIsRefunded, KeepsCount

LEMMA RunRefunded ==
    ASSUME TypeOK, WorkersInv, FailedIsRefunded, NEW w \in Slots, Run(w)
    PROVE  FailedIsRefunded'
<1>0. /\ render \in Render /\ "errors" \in DOMAIN Bound
      /\ (used' = used => KeepsCount)
  BY RenderAssumption, Counting DEF TypeOK
<1>1. CASE ReadRender(w) \/ ReadVideo(w) \/ OpenSource(w) \/ RunFfmpeg(w) \/ StoreOutput(w)
  <2>1. UNCHANGED <<render, held, used>> /\ task[w].pc # "refund"
    BY <1>1 DEF ReadRender, ReadVideo, OpenSource, RunFfmpeg, StoreOutput, rows
  <2>2. \A v \in Slots : v # w => task'[v] = task[v]
    BY <1>1 DEF ReadRender, ReadVideo, OpenSource, RunFfmpeg, StoreOutput, Goto, Fails, TypeOK
  <2>. QED BY <1>0, <2>1, <2>2, RefundFrame
<1>2. CASE Charge(w)
  <2>1. render.status # "FAILED"
    BY <1>2 DEF Charge, WorkersInv, Works, StatusIn, Active
  <2>2. render' = render
    BY <1>2 DEF Charge
  <2>3. KeepsCount
    <3>1. used' = used \/ Use("errors")
      BY <1>2 DEF Charge
    <3>. QED BY <1>0, <3>1, Counting
  <2>. QED BY <2>1, <2>2, <2>3, RefundFrame
<1>3. CASE Prepare(w) \/ Advance(w) \/ FinishRender(w)
  <2>1. UNCHANGED <<held, used>> /\ task[w].pc # "refund"
    BY <1>3 DEF Prepare, Advance, FinishRender, StatusAt
  <2>2. \A v \in Slots : v # w => task'[v] = task[v]
    BY <1>3 DEF Prepare, Advance, FinishRender, Goto, Fails, TypeOK
  <2>3. render'.status = "FAILED" => render.status = "FAILED"
    <3>1. ASSUME NEW status \in {"PREPARING", "ANALYZING_VISUALS", "RENDERING", "UPLOADING", "COMPLETED"},
                 render' = [render EXCEPT !.status = status]
          PROVE  render'.status # "FAILED"
      BY <1>0, <3>1 DEF Render
    <3>2. CASE Prepare(w)
      BY <3>1, <3>2 DEF Prepare
    <3>3. CASE Advance(w)
      <4>1. StatusAt[task[w].pc] \in {"PREPARING", "ANALYZING_VISUALS", "RENDERING", "UPLOADING", "COMPLETED"}
        BY <3>3 DEF Advance, StatusAt
      <4>2. render' = render \/ render' = [render EXCEPT !.status = StatusAt[task[w].pc]]
        BY <3>3 DEF Advance
      <4>. QED BY <3>1, <4>1, <4>2
    <3>4. CASE FinishRender(w)
      BY <3>1, <3>4 DEF FinishRender
    <3>. QED BY <1>3, <3>2, <3>3, <3>4
  <2>. QED BY <1>0, <2>1, <2>2, <2>3, RefundFrame
<1>. QED BY <1>1, <1>2, <1>3 DEF Run

LEMMA FailureRefunded ==
    ASSUME TypeOK, WorkersInv, FailedIsRefunded, NEW w \in Slots, Complete(w) \/ Failure(w)
    PROVE  FailedIsRefunded'
<1>0. used' = used => KeepsCount
  BY RenderAssumption, Counting
<1>1. CASE Complete(w) \/ RetryLater(w) \/ FailRead(w) \/ GiveUp(w)
  <2>1. UNCHANGED <<render, held, used>> /\ task[w].pc # "refund"
    BY <1>1 DEF Complete, RetryLater, FailRead, GiveUp, rows
  <2>2. \A v \in Slots : v # w => task'[v] = task[v]
    BY <1>1 DEF Complete, RetryLater, FailRead, GiveUp, Goto, TypeOK
  <2>. QED BY <1>0, <2>1, <2>2, RefundFrame
<1>2. CASE FailRender(w)
  <2>1. UNCHANGED <<held, used>> /\ task[w].pc # "refund"
    BY <1>2 DEF FailRender
  <2>2. CASE CanMove(Active)
    <3>1. task'[w].pc = "refund"
      BY <1>2, <2>2, Moving DEF FailRender
    <3>. QED BY <1>0, <2>1, <3>1, RefundFrame
  <2>3. CASE ~ CanMove(Active)
    <3>1. render' = render /\ \A v \in Slots : v # w => task'[v] = task[v]
      BY <1>2, <2>3 DEF FailRender, Goto, TypeOK
    <3>. QED BY <1>0, <2>1, <3>1, RefundFrame
  <2>. QED BY <2>2, <2>3
<1>3. CASE Refund(w)
  BY <1>0, <1>3, RefundFrame DEF Refund
<1>. QED BY <1>1, <1>2, <1>3 DEF Failure

LEMMA OthersRefunded ==
    ASSUME TypeOK, WorkersInv, FailedIsRefunded,
           \/ \E w \in Slots : Start(w) \/ Faults(w)
           \/ \E id \in DOMAIN jobs : Stall(id)
           \/ \E q \in Requests : AskRetry(q) \/ Request(q) \/ EnqueueLost(q)
           \/ Remove \/ RemoveVideo \/ ExpireSource \/ Requeue
    PROVE  FailedIsRefunded'
<1>0. /\ render \in Render
      /\ {"errors", "bookkeeping", "crashes", "lostLocks", "retries", "lostEnqueues", "removals", "expiries"}
            \subseteq DOMAIN Bound
  BY RenderAssumption DEF TypeOK
<1>1. ASSUME NEW x \in {"errors", "bookkeeping", "crashes", "lostLocks", "retries",
                         "lostEnqueues", "removals", "expiries"},
             used' = used \/ Use(x)
      PROVE  KeepsCount
  BY <1>0, <1>1, Counting
<1>2. ASSUME NEW w \in Slots, Start(w) \/ CallFails(w) PROVE FailedIsRefunded'
  <2>1. UNCHANGED <<render, held>> /\ task[w].pc # "refund"
    BY <1>2 DEF Start, CallFails, HandlerCalls, rows
  <2>2. \A v \in Slots : v # w => task'[v] = task[v]
    BY <1>2 DEF Start, CallFails, Fails, TypeOK
  <2>3. KeepsCount
    BY <1>1, <1>2 DEF Start, CallFails
  <2>. QED BY <2>1, <2>2, <2>3, RefundFrame
<1>3. ASSUME NEW w \in Slots, Crash(w) PROVE FailedIsRefunded'
  <2>1. used'.crashes > 0
    BY <1>0, <1>3, Using DEF Crash
  <2>2. KeepsCount
    BY <1>1, <1>3 DEF Crash
  <2>. QED BY <2>1, <2>2, RefundFrame
<1>4. ASSUME NEW id \in DOMAIN jobs, Stall(id) PROVE FailedIsRefunded'
  BY <1>1, <1>4, RefundFrame DEF Stall, rows
<1>5. ASSUME NEW q \in Requests, AskRetry(q) \/ Request(q) \/ EnqueueLost(q) PROVE FailedIsRefunded'
  <2>1. UNCHANGED <<task, held>>
    BY <1>5 DEF AskRetry, Request, EnqueueLost, Retry, Reread, RequestEnqueues, rows
  <2>2. render'.status = "FAILED" => render.status = "FAILED"
    BY <1>0, <1>5, RequeuedRow
       DEF AskRetry, Request, EnqueueLost, Retry, Reread, RequestEnqueues, rows
  <2>3. KeepsCount
    BY <1>1, <1>5 DEF AskRetry, Request, EnqueueLost, Retry, Reread, RequestEnqueues
  <2>. QED BY <2>1, <2>2, <2>3, RefundFrame
<1>6. ASSUME Remove \/ RemoveVideo \/ ExpireSource \/ Requeue PROVE FailedIsRefunded'
  <2>1. UNCHANGED <<task, held>> /\ render'.status = render.status
    BY <1>0, <1>6, RowRemoval DEF Remove, RemoveVideo, ExpireSource, Requeue, rows
  <2>2. KeepsCount
    BY <1>1, <1>6 DEF Remove, RemoveVideo, ExpireSource, Requeue
  <2>. QED BY <2>1, <2>2, RefundFrame
<1>7. ASSUME NEW w \in Slots, RecordFails(w) \/ BookkeepingFails(w) PROVE FailedIsRefunded'
  <2>1. used'.bookkeeping > 0
    BY <1>0, <1>7, Using DEF RecordFails, BookkeepingFails
  <2>2. KeepsCount
    BY <1>1, <1>7 DEF RecordFails, BookkeepingFails
  <2>. QED BY <2>1, <2>2, RefundFrame
<1>. QED BY <1>1, <1>2, <1>3, <1>4, <1>5, <1>6, <1>7 DEF Faults

(* No credits stay taken for a failed render, except after a worker died
   between its failure and its refund, or after the refund itself failed.  *)
THEOREM FailedIsRefundedHolds ==
    ASSUME Bound.lostLocks = 0, {"read", "done"} \cap FaultyCalls = {}
    PROVE  Spec => []FailedIsRefunded
<1>1. Init => FailedIsRefunded
  BY DEF Init, FailedIsRefunded
<1>2. StoredInv /\ WorkersInv /\ FailedIsRefunded /\ [Next]_vars => FailedIsRefunded'
  <2> SUFFICES ASSUME TypeOK, WorkersInv, FailedIsRefunded, [Next]_vars PROVE FailedIsRefunded'
    BY DEF StoredInv
  <2>1. ASSUME NEW w \in Slots, Execute(w) PROVE FailedIsRefunded'
    BY <2>1, RunRefunded, FailureRefunded DEF Execute
  <2>2. CASE UNCHANGED vars
    BY <2>2 DEF vars, rows, FailedIsRefunded
  <2>. QED BY <2>1, <2>2, OthersRefunded DEF Next
<1>. QED BY <1>1, <1>2, StoredInvHolds, WorkersInvHolds, PTL DEF Spec

-----------------------------------------------------------------------------
(* The lifecycle.                                                          *)

LEMMA RunMoves ==
    ASSUME TypeOK, WorkersInv, NEW w \in Slots, Run(w)
    PROVE  [Lifecycle!Next]_(Lifecycle!vars)
<1>0. render \in Render
  BY DEF TypeOK
<1>1. CASE UNCHANGED render
  BY <1>1 DEF Lifecycle!vars
<1>2. CASE Prepare(w)
  <2>1. render.status \in Active
    BY <1>2 DEF Prepare, WorkersInv, Works, StatusIn
  <2>2. /\ render'.status = "PREPARING" /\ render'.attempt = render.attempt
        /\ render'.deleted = render.deleted
    BY <1>0, <1>2, RowUpdates DEF Prepare, Active
  <2>. QED BY <2>1, <2>2
       DEF Lifecycle!vars, Lifecycle!Next, Lifecycle!Prepare, Lifecycle!Moves, Lifecycle!Active, Active
<1>3. CASE Advance(w) /\ CanMove(Active)
  <2> DEFINE status == StatusAt[task[w].pc]
  <2>1. render' = [render EXCEPT !.status = status] /\ task[w].pc \in {"analyze", "encode", "upload"}
    BY <1>3 DEF Advance, StatusAt
  <2>2. render.status \in StatusIn[task[w].pc] /\ ~ render.deleted
    BY <1>3, <2>1 DEF WorkersInv, Works, StatusIn, CanMove
  <2>3. status \in Active
    BY <2>1 DEF StatusAt, Active
  <2>4. /\ render'.status = status /\ render'.attempt = render.attempt
        /\ render'.deleted = render.deleted
    <3> HIDE DEF status
    <3>. QED BY <1>0, <2>1, <2>3, RowUpdates
  <2>5. CASE task[w].pc = "analyze"
    BY <2>2, <2>4, <2>5 DEF StatusAt, StatusIn, Lifecycle!Next, Lifecycle!Analyze, Lifecycle!Moves
  <2>6. CASE task[w].pc = "encode"
    BY <2>2, <2>4, <2>6 DEF StatusAt, StatusIn, Lifecycle!Next, Lifecycle!Encode, Lifecycle!Moves
  <2>7. CASE task[w].pc = "upload"
    BY <2>2, <2>4, <2>7 DEF StatusAt, StatusIn, Lifecycle!Next, Lifecycle!Upload, Lifecycle!Moves
  <2>. QED BY <2>1, <2>5, <2>6, <2>7
<1>4. CASE FinishRender(w) /\ CanMove({"UPLOADING"})
  <2>1. /\ render'.status = "COMPLETED" /\ render'.attempt = render.attempt
        /\ render'.deleted = render.deleted
    BY <1>0, <1>4, RowUpdates DEF FinishRender
  <2>. QED BY <1>4, <2>1 DEF CanMove, Lifecycle!Next, Lifecycle!Complete, Lifecycle!Moves
<1>. QED BY <1>1, <1>2, <1>3, <1>4
     DEF Run, ReadRender, ReadVideo, Charge, OpenSource, Advance, RunFfmpeg, StoreOutput,
         FinishRender, rows

LEMMA FailureMoves ==
    ASSUME TypeOK, NEW w \in Slots, Complete(w) \/ Failure(w)
    PROVE  [Lifecycle!Next]_(Lifecycle!vars)
<1>0. render \in Render
  BY DEF TypeOK
<1>1. CASE UNCHANGED render
  BY <1>1 DEF Lifecycle!vars
<1>2. CASE FailRender(w) /\ CanMove(Active)
  <2> DEFINE b == task[w].err # "fatal"
  <2>1. render' = [render EXCEPT !.status = "FAILED", !.retryable = b]
    BY <1>2 DEF FailRender
  <2>2. /\ render'.status = "FAILED" /\ render'.attempt = render.attempt
        /\ render'.deleted = render.deleted
    BY <1>0, <2>1 DEF Render
  <2>. QED BY <1>2, <2>2
       DEF CanMove, Active, Lifecycle!Next, Lifecycle!Fail, Lifecycle!Moves, Lifecycle!Active
<1>. QED BY <1>1, <1>2
     DEF Complete, Failure, RetryLater, FailRead, FailRender, Refund, GiveUp, rows

LEMMA OthersMove ==
    ASSUME TypeOK,
           \/ \E w \in Slots : Start(w) \/ Faults(w)
           \/ \E id \in DOMAIN jobs : Stall(id)
           \/ \E q \in Requests : AskRetry(q) \/ Request(q) \/ EnqueueLost(q)
           \/ Remove \/ RemoveVideo \/ ExpireSource \/ Requeue
    PROVE  [Lifecycle!Next]_(Lifecycle!vars)
<1>0. render \in Render
  BY DEF TypeOK
<1>1. CASE UNCHANGED render
  BY <1>1 DEF Lifecycle!vars
<1>2. ASSUME NEW q \in Requests, Retry(q), render.status = "FAILED"
      PROVE  [Lifecycle!Next]_(Lifecycle!vars)
  <2>1. /\ render'.status = "QUEUED" /\ render'.attempt = render.attempt + 1
        /\ render'.deleted = render.deleted
    BY <1>0, <1>2, RequeuedRow DEF Retry
  <2>. QED BY <1>2, <2>1 DEF Lifecycle!vars, Lifecycle!Next, Lifecycle!Retry
<1>3. CASE Remove \/ RemoveVideo
  <2>1. render'.deleted = TRUE
    BY <1>0, <1>3, RowRemoval DEF Remove, RemoveVideo
  <2>. QED BY <2>1 DEF Lifecycle!Next, Lifecycle!Remove
<1>. QED BY <1>1, <1>2, <1>3
     DEF Start, Faults, CallFails, RecordFails, BookkeepingFails, Crash, Stall, AskRetry, Request, EnqueueLost, Retry, Reread,
         RequestEnqueues, ExpireSource, Requeue, rows

(* The render moves as RenderLifecycle says, whichever slot, request or
   janitor run comes first.                                                *)
THEOREM RenderImplementsLifecycle ==
    ASSUME Bound.lostLocks = 0, {"read", "done"} \cap FaultyCalls = {}
    PROVE  Spec => ImplementsLifecycle
<1>1. Init => Lifecycle!Init
  BY DEF Init, Lifecycle!Init
<1>2. StoredInv /\ WorkersInv /\ [Next]_vars => [Lifecycle!Next]_(Lifecycle!vars)
  <2> SUFFICES ASSUME TypeOK, WorkersInv, [Next]_vars
               PROVE  [Lifecycle!Next]_(Lifecycle!vars)
    BY DEF StoredInv
  <2>1. ASSUME NEW w \in Slots, Execute(w) PROVE [Lifecycle!Next]_(Lifecycle!vars)
    BY <2>1, RunMoves, FailureMoves DEF Execute
  <2>2. CASE UNCHANGED vars
    BY <2>2 DEF vars, rows, Lifecycle!vars
  <2>. QED BY <2>1, <2>2, OthersMove DEF Next
<1>. QED BY <1>1, <1>2, StoredInvHolds, WorkersInvHolds, PTL
     DEF Spec, ImplementsLifecycle, Lifecycle!Spec

=============================================================================
