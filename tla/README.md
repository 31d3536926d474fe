# Formal models of the Clipforest backend

TLA+ modules for the parts of this repository whose correctness depends on what
happens between two database statements, two processes or two requests: the
credit ledger, purchases and the annual allowance, the video and render
pipelines with their queues, uploads and purges, the lineages of clips, and
accounts with their sessions. The pure algorithms these rest on are operators,
checked over bounded inputs. TLC checks all of it on small instances; TLAPS
proves most of the safety properties for every instance.

Paths below are relative to the repository; `W/` stands for
`worker/src/cliprover_worker/` and `A/` for `api/src/`.

## 1. The system

Two programs share one PostgreSQL database, one Redis and one object store. The
**API** (NestJS) answers requests, receives Polar's webhooks and runs an hourly
job. The **worker** (Python) takes jobs from five BullMQ queues. Neither calls
the other: everything goes through rows, jobs and objects, and any number of
instances of both may run.

| Component | State it keeps | Operations | Talks to | What makes it correct |
| --- | --- | --- | --- | --- |
| Credit ledger (`W/db.py`, `A/billing/billing.service.ts`, `A/billing/credits.ts`) | `credit_balances` (two buckets), `credit_ledger_entries` (numbered keys) | `charge_credits`, `refund_credits`, `grant` | called by the pipelines, the webhooks, the annual job | buckets never negative; the ledger explains the balance; a subject has at most one open charge; a refund restores what was taken; a key is used once |
| Polar webhooks and checkout (`A/billing/polar/`, `A/billing/billing.controller.ts`) | `processed_webhooks`, `subscriptions` | checkout, verify, claim, grant an order, upsert a subscription | ledger | a paid order becomes credits exactly once, for the plan that was bought and to its buyer, whatever Polar resends, reorders or delays |
| Annual allowance (`A/billing/annual-allowance.scheduler.ts`) | none; recomputes | `grantDue` per subscription and month | `subscriptions`, ledger | months 1 to 11 once each, no month early, none lost |
| Job queues (BullMQ through `W/queues.py`, `A/core/queue.service.ts`, `W/main.py`) | jobs, locks, attempts, stall counts | add, take, complete, fail, reclaim | all pipelines | an id is processed again only when its execution failed or died |
| Video pipeline (`W/jobs/ingest.py`, `transcription.py`, `analysis.py`, `base.py`) | `videos`, `transcripts`, `clip_candidates` | three handlers under one processor, with retry and failure bookkeeping | queues, ledger, media, providers | the status table; processing ends; moments match the transcript; failed work is refunded and delivered work is paid |
| Video requests (`A/videos/videos.service.ts`) | the same rows | create, upload, process, analyze, remove | queues, ledger (read) | one caller wins a transition; the resume point exists |
| Janitor and cleanup (`W/jobs/cleanup.py`) | none | re-adding lost jobs, purge, retention | rows, queues, objects | lost enqueues heal; nothing alive is purged |
| Upload sessions (`A/videos/videos.service.ts`, `A/core/storage.service.ts`) | `upload_*` columns, a multipart upload | session, parts, complete | object store | one caller ends an upload; what is queued has its object; a purge leaves nothing that was there |
| Render pipeline (`W/jobs/render.py`) | `renders`, `rendered_clips` | one handler with charge and refund | queues, ledger, FFmpeg | as for videos; COMPLETED is immutable |
| Render creation and lineage (`A/renders/renders.service.ts`) | `renders` (lineage, version, `is_latest`, dedupe key) | create, retry, rerender, remove | queues | versions without gaps; the newest remaining one is the latest; a snapshot that can be rendered |
| Accounts and sessions (`A/auth/`) | `users`, `password_reset_tokens`, a cache | register, login, reset, change password | mail | a password change ends older links and, within the cache's lifetime, older sessions, and not its own |
| Analysis and caption algorithms (`W/analysis/`, `W/transcription/normalize.py`, `W/captions.py`) | none | windows, dedupe, refine, rank; word de-overlap; cue grouping | - | moments lie in the source, are cut between words, and differ from each other |
| Media, providers, vision, events, mail, configuration | none of their own | I/O | - | best effort or a call that succeeds or fails |

### What is hard here

* **Several transactions for one step.** The FAILED transition and the refund,
  a request's transition and its enqueue, the webhook's claim and its grant each
  commit separately, and anything may happen in between.
* **Redelivery.** BullMQ gives a stalled job out again, Polar sends an event
  again, users retry. Every handler has to find out what was already done.
* **Overlap.** A failed execution's bookkeeping, a user's retry of the same
  video, and a slow execution whose lock has expired run side by side.
* **Counting instead of flags.** Charges, transcript versions and analysis runs
  are numbered from what a query returns.
* **Stale reads.** Handlers hold the row they read at the start across minutes
  of media work; the API checks a session against a cached password change.
* **Two stores.** Objects and multipart uploads are not written in the
  transactions that name them, so a crash, a purge or a late byte falls between.
* **Numbers at their edge.** Months without a 31st, the last part of a file, a
  session signed in the millisecond of a password change, a cut at a word's end.

`PROJECT.json` lists each hazard at its line, with the properties that cover it.

## 2. Plan

In the order of what would hurt most: money, then the pipelines, then the rest.
All steps are done; what could still be added is at the end.

1. `CreditAccount`, `CreditLedger`, `CreditLedgerProofs`: the ledger as whole
   transactions, its abstract specification, and proofs of both.
2. `LedgerTransactions`, `LedgerTransactionsProofs`: the same operations as
   interleaved PostgreSQL statements, implementing `CreditLedger`.
3. `PolarBilling` on `Calendar`, and `Purchases`: webhooks and the annual job;
   checkout, products, signatures, secrets. `BillingProofs` proves both.
4. `JobQueue`, `VideoLifecycle`, `VideoPipeline` on `Moments`,
   `VideoPipelineProofs`: queues, handlers, requests and the janitor's re-adding,
   implementing the owner's view; and what an analysis computes.
5. `RenderLifecycle`, `RenderPipeline`, `RenderPipelineProofs`: the render
   handler, its charge and refund, retry and removal.
6. `RenderSettings`, `RenderLineage`, `RenderLineageProofs`: concurrent creation,
   deduplication, versions and `is_latest`.
7. `UploadPlan`, `UploadSession`, `UploadSessionProofs`: sessions, signed parts,
   completion, removal, purge and the janitor.
8. `AuthSessions`, `AuthSessionsProofs`: reset links, password changes, the
   revocation cache.

Not done: a proof of which moments a video shows, and of its refunds, with dying
workers and lost locks, where neither holds in general (section 6); caption layout as
operators; the retention of render outputs.

## 3. The modules

Each module's header says what one step of it is. A definition whose comment
begins "Mutant of" is a plausible mistake in the definition that follows it; it
is used by no specification, and `PROJECT.json` names the property it breaks.
`PROJECT.json` also gives the source lines of every definition.

Composition: `VideoPipeline`, `RenderPipeline` and `UploadSession` extend
`JobQueue`; `PolarBilling` extends `Calendar`, `VideoPipeline` extends `Moments`,
`RenderLineage` extends `RenderSettings` and `UploadSession` extends
`UploadPlan`. A component's theorems are in a module of its own, named after it,
that extends it; `BillingProofs` extends `PolarBilling` and has `Purchases` as
`Shop`. The invariants that the proofs need are at the end of the component's
module, where TLC can check them too. `CreditLedger` implements `CreditAccount`, `LedgerTransactions`
implements `CreditLedger`, `VideoPipeline` implements `VideoLifecycle` and
`RenderPipeline` implements `RenderLifecycle`.

### CreditAccount, CreditLedger

`CreditAccount` is the promise: a user has credits, a subject (one video or one
render) holds what it was charged until it is given back, an order adds credits
once. `CreditLedger` is the code as whole transactions: `ChargeCredits` and
`RefundCredits` are `db.py`'s `charge_credits` and `refund_credits`,
`GrantCredits` is `billing.service.ts`'s `grant`. `Spend`, `SplitGrant` and
`ApplyGrant` translate `credits.ts`; a key such as `charge:video:7:2` is a record
of kind, subject and number. `ledger[u]` is the rows of one user in commit
order. Calls that write nothing (already charged, insufficient, nothing to
refund, duplicate) are the absence of a step. `Account` is the refinement
mapping: a subject holds what its open charge took from both buckets together.

The 402 check of the API before work starts reads the balance and changes
nothing, so it is left out; `adjustment` rows are written by no code.

### LedgerTransactions

One statement per step, READ COMMITTED. The row lock is `locked`, an inserted
but uncommitted balance row is `creating`; an insert of the same row, or of the
same idempotency key, waits for the other transaction as PostgreSQL makes it.
The worker inserts with ON CONFLICT DO NOTHING, the API looks first and catches
the unique violation, so the two create the row in different ways
(`EnsureRow` / `FindRow`, `InsertRow`, `ReadBack`). The SELECTs between the lock
and the first write are one step: nothing they read can change while the row is
locked, which `ImplementsLedger` would reveal. Committed `balance` and `ledger`
map to `CreditLedger` unchanged.

### PolarBilling, Calendar

Polar is external: an outbox of events, each delivered until one delivery is
answered 2xx, in any order, concurrently, again under a new id. The request is
the code's: look the webhook-id up, claim it (a commit of its own), match the
user, grant; or upsert the subscription. The annual job reads the due months of
all active subscriptions (`StartJob`) and grants them one by one
(`GrantMonth`). Time counts months; a period has `PeriodOf` months. Grants are
whole transactions here, because `LedgerTransactions` shows they may be. An
order may lack our user id (`OrderMetadata`): then it is matched through the
subscription, and dropped when that has not arrived; `annual_job` includes such
orders, `polar_webhooks` only orders of our own checkout, which carry the id.
Orders that begin no month may come at any time: a prorated plan change, and a
one-off purchase, which has no subscription (`OrderedBesides`).

That whole months may stand for dates is `CalendarCountsMonths`: `Calendar`
translates `addCalendarMonths` and `dueAnnualMonths` on dates, and the months it
finds due must be those the model counts, on whatever day a subscription began.

### Purchases

The way from the pricing page to credits, one delivery per step: `StartCheckout`
picks the product of a plan, Polar sells (`Pay`, `Renew`, `ChangeProduct`), each
`Send` signs with whatever secret Polar has at that moment, and `Receive` is the
whole handler: signature and age, claim, product to plan, user from metadata or
projection, grant or upsert. `BuyOnce` sells a plan's product without a
subscription, which must grant nothing. `CheckoutCredited` is what the waiting
page asks. A signature is ideal: it verifies exactly under the key it was made
with. How a key is made from a secret matters, because the code tries both ways
(`Vintage`: the base64 bytes behind `whsec_`, the whole text of a `whsec_`
secret, or a secret without that prefix, for which there is only the text). Interleaving and crashes of requests
are `PolarBilling`'s.

### JobQueue, VideoLifecycle, VideoPipeline

`JobQueue` is BullMQ as the code uses it: adding an id that exists does nothing,
a slot holds a lock, a lock that expires is reclaimed at most `MaxStalls` times
and then the job fails without the processor hearing of it, and a report
without the lock is void. Retention of finished jobs (24 hours and 14 days) is
longer than the behaviours modelled, so a finished id stays.

`VideoPipeline` gives each slot a program counter. `read` is a handler's first
read; every conditional update (`transition_video`), unconditional write,
provider or media call, enqueue, and each half of the failure bookkeeping is a
step of its own; the `job_runs` writes around the handler matter only by
failing (`RecordFails`). `task[w].seen` is the row as the handler read it, so a later
decision on it can be stale. A step may fail for now or for good (`FatalSteps`:
what raises an error that is not retryable, such as a provider that is not
configured, between the charge and `ensure_transcript`). The API's `process` and `analyze` are three steps:
the guards, the transition, the enqueue. `Requeue` is the janitor.
`held` is `CreditLedger`'s open charge of the video, seen through
`CreditAccount`; charging is enforced. The refund is a transaction of its own that
does not look at the video: one that finds a charge open when a retry has begun is
counted (`lateRefunds`, `Overtaken`), for `ReadyIsPaid` alone.

What is merged: a conditional update and the re-read of the row that follows it
in the same handler (`FinishIngest`, `Restart`); the two reads of
`next_transcript_version` (one query); a BullMQ Lua script (atomic in Redis).
What is left out: progress, stage texts, error texts and events, on which no
decision depends; sizes and durations; the owner check of requests, which reads
only immutable columns. A slot may take a job of any queue: the queues'
separate concurrency limits only remove behaviours.

`VideoLifecycle` is the owner's view, which `VideoPipeline` implements under
`Lifecycle`: the status table, counters that move by one, and a READY video that
shows the moments of its latest analysis run only.

### Moments

Pure operators in the order `analysis/pipeline.py` applies them: words are
sorted, clamped and de-overlapped (`NormalizeWords`), grouped into `Segments`,
and read in `MakeWindows`. The groups are those of `segments_from_words`, which
splits at pauses, lengths, sentence ends and changes of speaker, or the
provider's own segments filled with the cleaned words (`SegmentsOfProvider`:
`Placed` says which segment takes a word, `Cover` drops one that starts well
before it, `Closed` splits what is too long). `RunAnalysis` is the rest of the chain: the segments
the model names, in either order (`Picks`), become candidates unless they are of
no one window (`Proposed`), are deduplicated by score (`Dedupe`), moved to natural
bounds (`Refine`, whose steps are operators of their own) and deduplicated
again; what has become empty is dropped on the way (`Remain`). `Sorted` is
Python's stable sort, which gives each element the place that counting those
before it yields. The duration is not zero: ingest rejects a source without one
(`ffmpeg.py:180`). Of a word's text only what the code looks at
remains: a filler, a dangling opener, the end of a sentence. An overlap ratio is
compared in percent, without division (`Alike`). Scores and prompts are inputs.

`MomentsAreSound` belongs to `VideoPipeline`: once an analysis has published,
whatever words the provider returned and whatever the model named.

### RenderLifecycle, RenderPipeline

`RenderPipeline` is `VideoPipeline`'s counterpart for one render: the handler
(`ReadRender` to `FinishRender`), `make_processor`'s success and failure around
it, the user's retry in its four steps (guards, update, re-read, enqueue), the
removal of the render or its video, source retention and the janitor. `Prepare`
writes without a condition, `Advance` only over an active status, `FinishRender`
only over UPLOADING, as in `render.py`. `stored` is the pair of output objects.
Every call that the handler makes may fail (`FaultyCalls`), and so may the
`job_runs` writes around it (`RecordFails`, `CallFails` at "done") and the failure
bookkeeping (`BookkeepingFails`); a slot may die anywhere (`Crash`), and a lock may
expire under a slot that still works (`Stall`). `source` abstracts what the handler
asks of the video row and the store: a worker that copies its source
(`Downloads`) finds a missing one at once and for good, one that presigns a URL only
in the encode, which is retried. Frame sampling, which treats FFmpeg's failure as
the end of the frames, cannot fail.

`RenderLifecycle` is the owner's view: the transition table of `states.py` and
`state-machine.ts`, one more attempt per retry, COMPLETED for good.

### RenderSettings, RenderLineage

`RenderSettings` translates `buildRenderSettings`, the range check and the hash
(injective: two snapshots have one hash only when they are equal). `Unset` is
`undefined`. `RenderLineage` runs several API requests at once: `Create` is the
checks, `Deduplicate` the search for a reusable render, `ReadLast`,
`UnsetLatest` and `Insert` the transaction, whose updated rows are `Locked`
until it ends and whose insert fails when its version is taken (the unique index
of lineage and version). `Deduplicate` may also end the request
(`assertCanAfford` refuses). `remove` is `AskRemove`, `Delete`, `FindNewest`,
`Promote`, in no transaction, and its process may die in between (`Die`; `orphaned`
are the lineages it then leaves behind). `WorkerEnds` is `RenderPipeline` seen from here.

### UploadPlan, UploadSession

`UploadPlan` is `planMultipart` and the batches of signed parts. `UploadSession`
follows one uploaded video to its purge. A request's storage calls are steps of
their own between its read and its conditional update; `RequestDies` stops it
anywhere. The browser puts bytes whenever it likes, also after a removal
(presigned URLs stay valid): such objects are `late`. `Assemble` takes whatever
parts the client names, all of the plan or not: the store puts them together and
nobody compares the result with the plan or the declared size, so that what is
known of an object is only whether it is within the largest size. The purge is
`PurgeReads`, `AbortAll`, `ListPrefix`, `DeleteKeys`, `MarkPurged`, `DeleteRow`. What
the storage clients pass over is a choice of its own: aborts that fail
(`Abort`, `AbortFails`) and keys that the store keeps (`DeleteKeys`). The source
retention (`RetentionReads`, `RetentionDeletes`, `RetentionMarks`) takes the
source of a video of any status, one being completed or processed included; what
it took is `Expired`. Processing is one execution that stores
derived objects, without looking whether the video was removed meanwhile.

### AuthSessions

One account, several processes. A password is the number of the change that set
it; a `Change` records the stamp taken before hashing and the time it committed,
which differ. `request[q]` carries what a request read: the links a change will
spend, the password a session was issued for. `Check`, `ReadChange`, `Fill` and
`Decide` are the guard with its cache; the entry's lifetime is counted from the
start of the lookup, and `Fill` may overwrite what `Forget` just dropped.
Session times are compared as `tokens.ts` does. The row that `ReadChange` reads
exists: the branch for a deleted account (`auth.service.ts:122`) is left out,
because no code deletes one. So is mail.

## 4. The runs

| Run | Question | Bounds |
| --- | --- | --- |
| `credit_ledger` | Do charges, refunds and grants keep ledger and balance together, and implement the accounts? | 2 users, 3 subjects (two of one user), 3 orders, costs 1 and 2, allowance 3 at 50 %, 5 rows per user |
| `ledger_transactions` | Do interleaved statements with lost connections implement whole operations, and does each transaction end? | 3 connections, 1 user without a row, 1 video, 2 orders, 4 rows |
| `polar_webhooks` | Is each order granted exactly once? | monthly plan, 2 concurrent requests, 1 resend, plan change or one-off order, 1 request that dies before its claim commits |
| `annual_job` | Is no month granted twice or early, is a due month granted, and do whole months stand for dates? | period of 2 months, clock to month 3 (a renewal), 1 request, 2 job instances, 1 fault; dates around the month ends of a leap year and the next |
| `polar_lost_order` | Is an answered order granted even when a request dies anywhere? **No.** | 1 fault |
| `purchases` | Is what was paid credited, to its buyer and for its plan, in the end? | 2 users, 2 products on sale and one unknown, 1 checkout, 3 orders, one of them possibly one-off, 2 secrets (with one key, with two), 1 late or unanswered delivery |
| `video_user` | Do failures, retries, requests and removal implement the lifecycle, with charges, refunds and moments right? | 2 slots, 3 errors, 2 requests, 1 removal, 2 attempts per job; 3 words (and a sentence, of one or two speakers, or in 2 provider segments) in 8 units, up to 3 picks, 3 proposals |
| `video_faults` | Does the processing of an unattended video end? | two faults of: 1 error (also in the refund), 1 crash, 1 lost lock; `MaxStalls` 1 |
| `render` | Does a render follow its lifecycle and end, refunded or stored? | 2 slots, one that copies its source and one that does not, 2 requests; four in all of 2 errors, 1 failure of the bookkeeping, 1 crash, 2 retries, 1 lost enqueue, 1 removal, 1 expiry |
| `render_lineage` | Are versions consecutive, is the newest the latest, can every snapshot be rendered? | a moment and a manual clip, 2 requests at once, 5 in all, 3 rows, 4 inputs; a removal may die anywhere |
| `uploads` | Is processing started once and with an object, and is a removed video purged of all it had? | 3 requests, 2 at once, 2 slots, 2 multipart uploads, 1 put, 1 run of the retention, 1 of: dying request, failing purge, failing listing, refused abort, kept key, dying worker; plans of 0 to 200 bytes |
| `auth` | Does a change end older links, spare its own sessions, and reach every check within the cache's lifetime? | 2 processes, 2 requests at once, 4 in all, 2 links, 2 changes, 2 ticks, both lifetimes 1 |

*Why the bounds are enough.* The ledger's cases are a charge, a refund, a grant
and a second charge of one subject, with another subject of the same user in
between; five rows hold them, and the proofs cover the rest. Three connections
are two that contend and one that arrives late. A period of two months has every
kind of month: the order's own, an anniversary, and the boundary with the next
period. Two slots and one video or render give every pair of overlapping
executions; two attempts have a retried and a last one; `MaxStalls` 1 has a
reclaim (a give-up, which takes two, comes only with a lost lock, which
`ProcessingEnds` excepts). Three requests of an upload are two overlapping sessions
or completions and a removal. One old secret without the prefix and a new one
with it have every key that the code may have to try: a `whsec_` secret used as its
text has both keys too and adds only another name for the first. Three errors let two runs fail and a third be retried.
Three versions of a lineage have a first, a removed middle one and a newest; two
multipart uploads are the stale one and the one that replaced it; two password
changes let a check or a link lie before, between and after them; two checkouts
or more would be independent copies of one. Three words are one before a
moment's bound, one at it and one after it; three picks are one, a more complete
duplicate of it and a third. Files of up to 200 bytes against
parts of 3-byte "MiB" cross every threshold of the plan many times. Counters stop at
`MaxRuns`, `LastMonth`, `MaxEntries`, `MaxRenders`, `MaxRequests`, `MaxTime`,
`MaxLinks`, `MaxChanges`, `MaxUploads`, `MaxOrders`, `MaxCheckouts` and
`MaxWire`; `MaxRuns` 4 is above what the bounded requests can reach, so it never
cuts a behaviour short (`RoomForRuns`; that this is enough is part of
`TypeOKHolds`). All other bounds are fields of `Bound` or `MaxFaults`, one
per kind of fault or request. Every safety property is also proved for all of
them, under the hypotheses in section 5.

Two restrictions are more than bounds. In `render_lineage` removals do not
overlap other requests (`RemovesAlone`), and in `render` no lock is lost
(`lostLocks` 0); section 6 says what happens otherwise. `video_user` lets every call
of a stage fail up to the enqueue of the next one, and no worker die (`Calm`).

Some properties name what they do not promise, because the code does not keep it:
`ReadyIsPaid` a refund that a retry overtook, `FailedIsRefunded` of renders a worker
that died and a refund that failed, `RenderingEnds` a job whose failure could not be
written down, `ProcessingEnds` a lost lock (and, by its bound, a second failing call,
which could be the record of the last attempt), `QueuedHasSource` a source that the
retention took, `PurgeIsComplete` what was written after the removal and what the
store refused to remove, `NewestIsLatest` a lineage whose removal died. Section 6
describes each.

*Deadlock* is not checked in runs whose system may rest: a full ledger, a
stopped clock, a processed video, a purged upload.

### Fairness

* `LedgerTransactions`: strong fairness of each open transaction's statements.
  PostgreSQL queues the waiters of a row lock, so a statement enabled again and
  again is executed. Beginning a transaction and losing one owe nothing.
* `PolarBilling`: weak fairness of requests that have arrived and of the job,
  which the cron starts again every hour on each instance. Polar and the clock
  owe nothing.
* `Purchases`: weak fairness of sending, since Polar retries what got no 2xx,
  and of handling a delivery that arrived. The number of late and unanswered
  deliveries is bounded. Buying, renewing and rotating secrets owe nothing.
* `VideoPipeline`, `RenderPipeline`: weak fairness of each slot's execution, of
  taking jobs, of the stalled-job check of dead slots (every 30 s), of the
  requests in progress and of the janitor (a loop in every worker). Faults,
  users, and losing an enqueue owe nothing.
* `UploadSession`: the same for slots, the stalled-job check and the janitor's
  purges. The browser and the requests, which may die, owe nothing.

### What the violation shows

`polar_lost_order` checks a sentence of the controller's comment ("answers 202
for everything it has durably handled"): the claim commits before the grant, so
that after a crash in between the redelivery is taken for a duplicate.

## 5. The proofs

Every theorem holds for all values of the constants under the module's named
assumptions, and under the hypotheses it states. Each module proves an
inductive invariant, stated as its last lines say, by one lemma per action or
group of actions, and the properties from it.

**CreditLedgerProofs** (`CreditAssumption`). `TypesHold`, `BalanceIsExplained`,
`NeverChargedTwice`, `NumberingIsUnique`, `RefundsRestore`,
`LedgerImplementsAccount`. That the next charge number is free
(`KeysAreUnique`) needs that the numbers in use are at most the count
(`Numbered`), and that a refund finds the row it looks up needs that all numbers
up to the count are in use (`ChargesRecorded`). That both buckets stay
non-negative after a refund (`TypeOK`) needs that a charge's deltas are never
positive (`ChargesTake`). `LedgerInv` is the conjunction. The lemmas go from
counting rows (`CountAppend`), to what writing any row does (`WriteAppends`,
`WriteCounts`, `WritePreserves`, `WriteNumbers`, `WriteSettles`), to one lemma
per operation (`ChargeKeeps`, `RefundKeeps`, `GrantKeeps`).

**LedgerTransactionsProofs.** `ReadIsCurrentHolds` and
`TransactionsImplementLedger`. The row lock is the argument: whoever has read a
balance holds its row, so nobody else commits to it, so what was read is still
the balance, and what was planned from it is still what the whole operation
would write (`PlansHold`). Every step but a commit with a row is a stutter.
`CommittedLedgerIsSound` carries CreditLedger's invariants over: when work costs
at least one credit and the share is one (`CreditHypothesis`), the committed rows
and balances of interleaved, interrupted transactions have all of them.

**VideoPipelineProofs** (`VideoAssumption`). `ShapedHolds` is the typing of rows,
jobs, executions and requests under every fault, with what an execution must
still have at each step (`Remembers`). `ReadyIsPaidHolds` has two cases. For a video
that nobody retries (`Bound.requests = 0`) it holds under every fault: a failed
video stays failed, and only a failed one is refunded (`PaidInv`). With retries it
assumes `Calm`: as long as no refund came late, an analysis past its charge and a
video that was delivered have their credits taken (`CreditsInv`), because the only
execution that could give them back is the one that failed the video, and a refund
while it is not failed any more is a late one. The others assume `Calm`, too: no worker dies, no lock is lost,
and a job that did its work is not failed for its record. `CalmInv` then says
that there is one job whose turn it is (`Current`: a stage's job until the next
stage's is queued), that what waits or works is that job (`OwnerInv`), that a run
has at most one transcription job (`KnownInv`), and so that whatever an execution
has read or written still stands (`WorkInv`) and an analysis is of the active
transcript (`MomentsInv`). The hard steps are a retry, which makes another job the
current one and so needs that nobody works on a video that is FAILED or READY
(`NobodyWhenDone`), and an enqueue, which ends one stage's turn and begins the
next one's (`CalmEnqueue`). From it follow `MomentsMatchTranscriptHolds`,
`CompletedStaysHolds` and, if refunds do not fail, `FailedIsRefundedHolds`. Runs
and analyses are counted by the requests that were made (`CountsInv`) and
transcript versions by runs (`VersionsInv`: `next_transcript_version` is at most one
above a version of an earlier run), so that with `RoomForRuns` no number meets the
model's bound: `TypeOKHolds`. `ImplementsLifecycleHolds` needs besides that an
analysis about to make its video READY has published it (`PublishedInv`).

*What an analysis computes* (`MomentsAssumption`: the settings are any numbers,
the transcripts any sequences of words, the picks and proposals any sequences
too). `MomentsAreSoundHolds`, from one theorem per algorithm:

* `NormalizedAreTimed`: counting those before it gives every place of a strict
  order to exactly one element (`Places`), so that `Sorted` sorts; cutting each
  word where the next begins then leaves none over another.
* `SegmentsAreRead`: the grouping's invariant says what the first k words have
  become (`Grouped`; the same of a provider's segments, whose words are taken in
  order), so that segments begin and end with words, in order (`Sound`); the
  windows step by no more than their size until the last segment has begun.
* `RefineIsNatural`: each step of `refine` stays among the segments (`SnappedIn` to
  `TrimIn`), a cut ends with a word or at the greatest length, and a roll moves a
  bound into no word that it was not in (`RollsIn`, `RollsOut`).
* `DedupeIsDistinct`, `DedupeIsNatural`: one step of `dedupe` keeps what is kept
  distinct (`KeepStep`), and a widened candidate, whose bounds are each those of a
  natural one, natural (`KeepNatural`).
* `AnalysisIsSound` puts them together, for any picks.

The library's induction theorems take an operator, which the provers cannot
instantiate. `Counting` states induction over sets instead: a set of numbers that
has 0, and with each number the next, has all, because the least number outside it
would follow one inside it. A fold is unfolded with it once per step operator
(`GroupFolds`, `CoverFolds`, `KeepFolds`, `RemainFolds`): the function that
`MapThenFoldSet` chooses exists, and it gives the accumulators one after another.

**RenderPipelineProofs.** `CompletedIsStoredHolds` under every fault. With no
lock lost, a first read that works and a record of finished work that works,
whoever works on a render has the job of its current attempt and nobody else has
(`WorkersInv`); from it `FailedIsRefundedHolds` and `RenderImplementsLifecycle`. The
hypotheses are needed (section 6).

**RenderLineageProofs.** `VersionsAreConsecutiveHolds`: the unique index rejects
a taken version, and a new one is at most one above the count because every
number up to the count is taken (`VersionsFill`, by minimality of the first free
one). `SnapshotIsRenderableHolds`: by the chain from the parent's snapshot; a
request in progress goes on from a clip that was checked (`CreatesSoundly`).
`NewestIsLatestHolds` does need that a removal overlaps no other request
(`RemovesAlone`; section 6). `PromotionInv`: a lineage with no removal under way
has the flag on its newest render (`LatestIsNewest`), a creation about to insert
has unset every flagged row or its version is taken (`UnsetsAll`), and each step
of a removal leaves the flag where the next one looks for it (`RemovalReached`); one
that dies leaves its lineage `orphaned`, until a creation flags its own row or a
later removal promotes.

**UploadSessionProofs.** `EveryFileHasAPlan` and `EveryPlanFitsHolds`, from the
bounds of rounded-up division. `PlanFitsHolds`: the signed parts of an open
upload are those of its plan, which a later session does not change while the
upload is open (`PlanInv`). `QueuedHasSourceHolds`, `PurgeIsCompleteHolds`,
`UploadEndsOnceHolds`: `WaysAreSound` says that what a completion saw is there, or
has been taken by the retention, and what each step of a purge has already
removed; a removed video never comes back, so that what appears behind the purge is
late.

**AuthSessionsProofs.** `CheckIsFreshHolds` needs that a lookup overtaken by a
change leaves an entry that expires `Ttl` after that change (`CacheExpires`,
`LookupsAreFresh`); `ChangeEndsLinksHolds` that a change has listed, when it
commits, all links there were when it began (`SpendsAll`);
`CurrentPasswordHoldsAlways` that no session is signed before its own change
(`SessionsFollow`).

**BillingProofs**, webhooks and the annual job (`DatesAssumption`, `NoneIsApart`).
`NoMonthTwiceHolds`, under every fault: a key in the ledger is of a month that has
begun in a period that Polar sold (`SoundEvents`, `SoundKeys`), and two keys of one
subscription differ in their month, so that there are no more keys than months.
`AnsweredIsGrantedHolds` by `AnsweringInv`, that a claimed order is granted or in
the hands of the request that claimed it; its hypotheses are that requests fail
only before the claim commits (`FailsAt`; `polar_lost_order` shows why) and that
orders carry our user id (`OrderMetadata`; an order that must be matched through a
subscription not yet seen is dropped). `CalendarCountsMonthsHolds`: clamping a day
to its month's length is monotonic, so that a date is due exactly when its month
is. Purchases: `BoughtIsGrantedHolds`, under the hypothesis that no product
is configured for two plans (`ProductsTellPlansApart`): what Polar tells is what
happened (`Faithful`), so a grant, whether by metadata or projection, goes to
the buyer. (Its statement names `Shop!BoughtIsGranted`, Purchases' property as the
proofs instantiate it.)

Only model-checked: every liveness property (`EveryTransactionEnds`,
`DueMonthsAreGranted`, `RenderingEnds`, `RemovedIsPurged`, `PaidIsCredited`,
`ProcessingEnds`), because liveness under fairness and ENABLED are out of the
prover's reach. That the annual job and the webhooks hold with
statements interleaved rests on `TransactionsImplementLedger` and `CommittedLedgerIsSound`.

## 6. What was seen while modelling

Behaviour that the models contain and that a reader of the code may not expect.
The properties above are stated around it; nothing here is among the passing
runs' claims.

*Billing*

* After a unique violation PostgreSQL refuses every further statement of the
  transaction, so the `findOne` meant to read the balance row back raises 25P02
  and the grant throws (`billing.service.ts:61`).
* An annual month missed just before a renewal is not made up for: the job only
  looks at the current period.

*Videos*

* `fail_video` commits FAILED, then refunds. A retry in between finds its charge
  still open, does not pay, and is refunded under way: the video may be delivered
  with its credits given back (`base.py:164`, against `docs/billing.md:51`,
  "Retrying refunded work charges it again"). `ReadyIsPaid` excepts this refund and no
  other (`lateRefunds`); without the exception TLC finds it violated. If the worker dies between the two, the redelivered job
  sees FAILED and returns: no one refunds (`base.py:150`).
* A redelivered ingest job computes its transcript version from the transcripts
  as they are now, and may add a second transcription job (`ingest.py:37`,
  against `docs/pipeline.md:32`).
* The janitor re-adds QUEUED videos only, so a later stage's retry whose enqueue
  is lost stays (`videos.service.ts:355`, against `docs/runbook.md:30`).
* An analysis that outlives its own failure may supersede the moments of a later
  run (`db.py:136`); two executions of a transcription job, after a lost lock,
  may put a COMPLETED row back to PROCESSING (`transcription.py:52`); a lost claim
  makes the second execution complete the job, after which a transient failure
  of the first is not retried (`ingest.py:44`, hence the exception in
  `ProcessingEnds`).
* `job_finished("completed")` is inside the processor's error handling. If it
  fails for the last attempt, the video is failed and refunded although its next
  stage is already queued, which then finds FAILED and does nothing
  (`base.py:216`).
* A job out of stalls fails without `on_failure`, and the janitor's add of the
  same id then does nothing until the failed job is dropped. The same holds of a
  job, also a render's, whose last attempt fails in `job_started` or `job_finished`
  (`base.py:212`, `base.py:234`), or whose FAILED transition fails and is logged
  (`base.py:248`).
* A moment cut at the greatest length may end inside its last word, because the
  pre-roll counts against the maximum (`refine.py:99`); two kept moments become
  alike when one is widened after they were compared (`scoring.py:45`). A line of
  words without length is made to last an instant, and if a longer word starts
  together with it, a moment that ends with the line ends in that word
  (`normalize.py:103`). `Natural` and `Distinct` except exactly these; the last
  was found by the proof of `RefineIsNatural`, which failed without it.

*Renders*

* A retry between FAILED and the refund goes unpaid, as for videos
  (`render.py:120`, `renders.service.ts:302`); a worker that dies there, or a refund that fails,
  leaves the charge (the exceptions in `FailedIsRefunded`).
* After a lost lock a slow execution writes PREPARING over COMPLETED
  (`render.py:159`, against the table in `state-machine.ts:58`).
* The redelivered job of an earlier attempt, if its own reads fail for good,
  fails the attempt that is running (`render.py:117`).
* Two identical requests may both find no render to reuse and make two versions
  (`renders.service.ts:156`). A removal that overlaps another request may leave
  a lineage with no latest version, or two (`renders.service.ts:332`); one that dies
  before it promotes leaves none until the next version.

*Uploads*

* Two sessions of one video may overlap: the loser's multipart upload stays open
  until the purge, which lists all. Abort errors are passed over, and a purged
  row is not looked at again. Bytes put through a URL that is still valid after
  the purge stay.
* A file found too large fails the video from any status that may fail, also
  one another completion has queued meanwhile (`videos.service.ts:297`).
* The source retention takes the source of any video that is old enough, whatever
  its status (`db.py:363`). A completion that has just seen the object then queues the
  video, whose probe finds nothing; and a video marked expired before its upload was
  completed stays marked, so that it is processed but cannot be rendered
  (`renders.service.ts:64`).
* Neither a purge nor the retention looks at the errors that the store reports for
  single keys (`W/storage.py:84`): the row is marked and the object stays, in a
  removed video for good.
* `completeUpload` does not compare the parts it is told with the plan, nor the
  object with the declared size (`videos.service.ts:292`): a file with parts missing
  is queued, and it is the probe's to refuse.
* The cleanup job's id is fixed per video, so that a purge that used up its
  attempts is blocked for as long as the failed job is kept.

*Accounts*

* Two concurrent redemptions of one link both succeed (`tokens.ts:28`); two
  concurrent reset requests leave two live links (`auth.service.ts:152`).
  `ChangeEndsLinks` is therefore about the links there were when a change began.
* A login that checked the old password before a change and is signed after it
  stays valid; of two concurrent changes the later commit may carry the earlier
  stamp. The check lets requests through when the database does not answer.

## 7. Not modelled

* Media, speech, model and vision calls: a call that succeeds or fails. Prompts
  and the weights of scores: inputs of `Moments`.
* Caption layout, framing and FFmpeg's arguments: they keep no state and decide
  nothing that another part reads.
* Events and mail: best effort, no state depends on them. Configuration, health,
  metrics, DTO validation, serializers, error texts: wiring and output.
* Deletion of removed or expired render outputs by the janitor
  (`cleanup.py:61`): objects nobody can reach any more.
* Reads, renaming and listing requests, which change no state that a property
  looks at.
* The width of integers: `integer` holds 2^31 credits, far above what plans can
  grant, and sizes are below 2^53.
