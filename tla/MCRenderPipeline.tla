------------------------- MODULE MCRenderPipeline -------------------------
(* One render, two slots, and two requests about it at a time.             *)
EXTENDS RenderPipeline

CONSTANTS w1, w2, q1, q2

(* What a run allows, in all and of each: failing calls and users out of
   credits, failing writes of the queue's or the failure's bookkeeping, dying
   workers, locks lost by a running worker, retries, lost enqueues, removals
   and an expired source.                                                  *)
Allow(steps, errors, bookkeeping, crashes, lostLocks, retries, lostEnqueues, removals, expiries) ==
    [steps |-> steps, errors |-> errors, bookkeeping |-> bookkeeping, crashes |-> crashes,
     lostLocks |-> lostLocks, retries |-> retries, lostEnqueues |-> lostEnqueues,
     removals |-> removals, expiries |-> expiries]

AllCalls == HandlerCalls \cup {"fail", "refund", "record"}

RenderBound == Allow(4, 2, 1, 1, 0, 2, 1, 1, 1)
=============================================================================
