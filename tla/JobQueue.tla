------------------------------ MODULE JobQueue ------------------------------
(***************************************************************************)
(* BullMQ, as the API (core/queue.service.ts) and the worker (queues.py,   *)
(* main.py) use it.  Every job has a deterministic id; finished jobs stay  *)
(* in Redis (removeOnComplete 24 h, removeOnFail 14 days), so adding an id *)
(* that was ever added does nothing.  A job waiting for its backoff is     *)
(* waiting here.                                                           *)
(*                                                                         *)
(* A slot is one unit of a worker's concurrency.  The slot that executes a *)
(* job renews its lock; when the lock expires the job is given out again,  *)
(* at most MaxStalls times, and what the slot reports afterwards is void.  *)
(***************************************************************************)
EXTENDS Integers

CONSTANTS Slots,       \* the workers' slots
          MaxStalls,   \* maxStalledCount (2 in main.py)
          None

VARIABLE jobs          \* jobs[id], for the ids added so far

Added(data) == [state |-> "waiting", attempts |-> 0, stalls |-> 0, slot |-> None, data |-> data]

Add(id, data) ==
    jobs' = [i \in DOMAIN jobs \cup {id} |-> IF i \in DOMAIN jobs THEN jobs[i] ELSE Added(data)]

Take(slot, id) ==
    /\ jobs[id].state = "waiting"
    /\ jobs' = [jobs EXCEPT ![id].state = "active", ![id].slot = slot]

Holds(slot, id) == jobs[id].state = "active" /\ jobs[id].slot = slot

(* The slot's report, ignored when the lock was lost: state "completed",
   "failed" (UnrecoverableError, or no attempt left) or "waiting" (another
   attempt).  A stall does not count as an attempt.                        *)
Settle(slot, id, state) ==
    jobs' = IF ~ Holds(slot, id) THEN jobs
            ELSE [jobs EXCEPT ![id].state = state, ![id].slot = None,
                              ![id].attempts = @ + 1]

(* The stalled-job check finds the lock expired.  Out of stalls, the job
   fails without the processor hearing of it.                              *)
Reclaim(id) ==
    /\ jobs[id].state = "active"
    /\ jobs' = [jobs EXCEPT ![id].slot = None, ![id].stalls = @ + 1,
                    ![id].state = IF jobs[id].stalls < MaxStalls THEN "waiting" ELSE "failed"]
=============================================================================
