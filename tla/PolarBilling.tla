---------------------------- MODULE PolarBilling ----------------------------
(***************************************************************************)
(* How paid time becomes credits: Polar's webhook deliveries, handled by   *)
(* any number of concurrent requests, and the annual-allowance job, run by *)
(* every API instance.  Time is counted in months; a grant is one whole    *)
(* transaction (LedgerTransactions), identified by its idempotency key.    *)
(*                                                                         *)
(* Polar itself is external: a subscription starts, renews, changes plan   *)
(* or is cancelled, something may be bought without one, and each of these *)
(* leaves events in its outbox until one delivery of the event is answered *)
(* 2xx.  Deliveries come in any order, more than once, and at the same     *)
(* time.                                                                   *)
(***************************************************************************)
EXTENDS Calendar, FiniteSets

CONSTANTS Subs,           \* Polar subscriptions, one user each
          PeriodOf,       \* months one order of a subscription pays for (12 or 1)
          Handlers,       \* concurrent webhook requests
          Instances,      \* API processes, each running the annual job
          OrderMetadata,  \* whether an order may carry our user id: a subset of BOOLEAN
          FailsAt,        \* where a webhook request may die or fail: a set of pcs
          LastMonth,      \* bound: the clock stops here
          MaxResends,     \* bound: orders sent again under a new webhook-id, and orders of no month
          MaxFaults,      \* bound: crashes of a handler or a job, and failed transactions
          None

ASSUME BillingAssumption == /\ PeriodOf \in [Subs -> Nat \ {0}] /\ None \notin Subs
                            /\ OrderMetadata \subseteq BOOLEAN
                            /\ {LastMonth, MaxResends, MaxFaults} \subseteq Nat

VARIABLES now,       \* the month it is
          polar,     \* polar[s]: the subscription as Polar has it, or None
          outbox,    \* events Polar still has to deliver
          sent,      \* webhook-ids used so far
          claimed,   \* processed_webhooks: the webhook-ids recorded
          row,       \* subscriptions: our projection of polar[s], or None
          granted,   \* the grants' idempotency keys in credit_ledger_entries
          handler,   \* what each webhook request is doing
          job,       \* the grants each instance's running job still has to make
          resends, faults

(* Mutant of OrderKey: one key per delivery, not per order.                *)
OrderKeyByDelivery(e) ==
    [sub |-> e.sub, start |-> e.start, month |-> 0, reason |-> e.id]

world == <<now, polar, outbox, sent, resends>>
vars == <<now, polar, outbox, sent, claimed, row, granted, handler, job, resends, faults>>

OrderKey(e) == [sub |-> e.sub, start |-> e.start, month |-> 0, reason |-> e.reason]
AllowanceKey(s, start, m) == [sub |-> s, start |-> start, month |-> m, reason |-> "allowance"]

-----------------------------------------------------------------------------
(* Polar (external).                                                       *)

OrderPaid(s, start, reason, id, carriesUser) ==
    [type |-> "order.paid", id |-> id, sub |-> s, start |-> start, reason |-> reason,
     carriesUser |-> carriesUser]

(* A row of subscriptions, as far as the annual job depends on it.         *)
Subscription == [status : {"active", "canceled"}, start : Nat]

Polar == [status : {"active", "canceled"}, start : Nat, first : Nat]

ASSUME NoneIsApart == None \notin Subscription \cup Polar \cup {"purchase", "subscription_cycle"}

Snapshot(sub) == [status |-> sub.status, start |-> sub.start]

SubscriptionEvent(s, sub, id) ==
    [type |-> "subscription", id |-> id, sub |-> s, snapshot |-> Snapshot(sub)]

(* A change of a subscription, with its event and perhaps a paid order.    *)
Changed(s, sub, reason) ==
    /\ polar' = [polar EXCEPT ![s] = sub]
    /\ IF reason = None
       THEN /\ outbox' = outbox \cup {SubscriptionEvent(s, sub, sent + 1)}
            /\ sent' = sent + 1
       ELSE /\ \E carriesUser \in OrderMetadata :
                  outbox' = outbox \cup {SubscriptionEvent(s, sub, sent + 1),
                                OrderPaid(s, sub.start, reason, sent + 2, carriesUser)}
            /\ sent' = sent + 2
    /\ UNCHANGED <<now, claimed, row, granted, handler, job, resends, faults>>

Subscribe(s) ==
    /\ polar[s] = None
    /\ Changed(s, [status |-> "active", start |-> now, first |-> now], "purchase")

(* The next period starts where the last one ended, however late the
   payment is.                                                             *)
Renew(s) ==
    /\ polar[s] # None
    /\ polar[s].status = "active"
    /\ now >= polar[s].start + PeriodOf[s]
    /\ Changed(s, [polar[s] EXCEPT !.start = @ + PeriodOf[s]], "subscription_cycle")

(* An order that pays for no month: with it there is no change of the
   subscription that our projection tells.                                 *)
OrderedBesides(s, start, reason) ==
    /\ resends < MaxResends
    /\ \E carriesUser \in OrderMetadata :
          outbox' = outbox \cup {OrderPaid(s, start, reason, sent + 1, carriesUser)}
    /\ sent' = sent + 1
    /\ resends' = resends + 1
    /\ UNCHANGED <<now, polar, claimed, row, granted, handler, job, faults>>

(* A mid-cycle plan change is prorated: an order, but no new month.        *)
ChangePlan(s) ==
    /\ polar[s] # None
    /\ polar[s].status = "active"
    /\ OrderedBesides(s, polar[s].start, "subscription_update")

(* A one-off purchase is a paid order without a subscription.              *)
BuyOnce == OrderedBesides(None, now, "purchase")

Cancel(s) ==
    /\ polar[s] # None
    /\ polar[s].status = "active"
    /\ Changed(s, [polar[s] EXCEPT !.status = "canceled"], None)

(* The same order again, under another webhook-id.                         *)
Resend(e) ==
    /\ e.type = "order.paid"
    /\ resends < MaxResends
    /\ outbox' = outbox \cup {[e EXCEPT !.id = sent + 1]}
    /\ sent' = sent + 1
    /\ resends' = resends + 1
    /\ UNCHANGED <<now, polar, claimed, row, granted, handler, job, faults>>

Tick ==
    /\ now < LastMonth
    /\ now' = now + 1
    /\ UNCHANGED <<polar, outbox, sent, claimed, row, granted, handler, job, resends, faults>>

-----------------------------------------------------------------------------
(* A webhook request (polar-webhook.controller.ts).                        *)

Step(h, pc) == handler' = [handler EXCEPT ![h].pc = pc]

Resting == [pc |-> "idle", event |-> None]

(* 202: Polar will not deliver this webhook-id again.                      *)
Answer(h) ==
    /\ outbox' = {e \in outbox : e.id # handler[h].event.id}
    /\ handler' = [handler EXCEPT ![h] = Resting]
    /\ UNCHANGED <<now, polar, sent, resends>>

Deliver(h, e) ==
    /\ handler[h].pc = "idle"
    /\ e \in outbox
    /\ handler' = [handler EXCEPT ![h] = [pc |-> "exists", event |-> e]]
    /\ UNCHANGED <<world, claimed, row, granted, job, faults>>

(* Mutant of GrantsAllowance: the first order earns nothing.               *)
GrantsRenewalsOnly(e) == e.sub # None /\ e.reason = "subscription_cycle"

(* claimWebhook's lookup.                                                  *)
LookUpClaim(h) ==
    /\ handler[h].pc = "exists"
    /\ IF handler[h].event.id \in claimed
       THEN Answer(h)
       ELSE Step(h, "claim") /\ UNCHANGED world
    /\ UNCHANGED <<claimed, row, granted, job, faults>>

GrantsAllowance(e) == e.sub # None /\ e.reason \in {"purchase", "subscription_cycle"}

(* claimWebhook's insert, committed on its own; a unique violation means
   another request was first.                                              *)
Claim(h) ==
    LET e == handler[h].event IN
    /\ handler[h].pc = "claim"
    /\ claimed' = claimed \cup {e.id}
    /\ IF e.id \in claimed \/ (e.type = "order.paid" /\ ~ GrantsAllowance(e))
       THEN Answer(h)
       ELSE Step(h, IF e.type = "order.paid" THEN "match" ELSE "upsert") /\ UNCHANGED world
    /\ UNCHANGED <<row, granted, job, faults>>

(* userIdForOrder: the order's metadata, else the projection.              *)
MatchUser(h) ==
    LET e == handler[h].event IN
    /\ handler[h].pc = "match"
    /\ IF e.carriesUser \/ row[e.sub] # None
       THEN Step(h, "grant") /\ UNCHANGED world
       ELSE Answer(h)
    /\ UNCHANGED <<claimed, row, granted, job, faults>>

GrantOrder(h) ==
    /\ handler[h].pc = "grant"
    /\ granted' = granted \cup {OrderKey(handler[h].event)}
    /\ Answer(h)
    /\ UNCHANGED <<claimed, row, job, faults>>

(* Mutant of UpsertSubscription: the event is stored, not the subscription. *)
UpsertEvent(h) ==
    /\ handler[h].pc = "upsert"
    /\ row' = [row EXCEPT ![handler[h].event.sub] = handler[h].event]
    /\ Answer(h)
    /\ UNCHANGED <<claimed, granted, job, faults>>

(* upsertSubscription: the last delivery handled wins.                     *)
UpsertSubscription(h) ==
    /\ handler[h].pc = "upsert"
    /\ row' = [row EXCEPT ![handler[h].event.sub] = handler[h].event.snapshot]
    /\ Answer(h)
    /\ UNCHANGED <<claimed, granted, job, faults>>

(* The process dies or its transaction fails: no 2xx, Polar will retry.    *)
HandlerFails(h) ==
    /\ handler[h].pc \in FailsAt
    /\ faults < MaxFaults
    /\ faults' = faults + 1
    /\ handler' = [handler EXCEPT ![h] = Resting]
    /\ UNCHANGED <<world, claimed, row, granted, job>>

Request(h) == \/ LookUpClaim(h) \/ Claim(h) \/ MatchUser(h)
              \/ GrantOrder(h) \/ UpsertSubscription(h)

-----------------------------------------------------------------------------
(* The annual job (annual-allowance.scheduler.ts).                         *)

(* Mutants of DueAnnualMonths: off by one at the end of the period, and at
   the anniversary.                                                        *)
DueToPeriodEnd(s, start) == {m \in 1 .. PeriodOf[s] : start + m <= now}
DueAfterAnniversary(s, start) == {m \in 1 .. PeriodOf[s] - 1 : start + m < now}

(* dueAnnualMonths: months 1 .. Period - 1 of the paid period whose
   anniversary has passed.  Month 0 is the paid order's.                   *)
DueAnnualMonths(s, start) ==
    {m \in 1 .. PeriodOf[s] - 1 : start + m <= now}

(* grantDue reads the active annual subscriptions once, and the time once. *)
StartJob(i) ==
    LET due == UNION {{AllowanceKey(s, row[s].start, m) : m \in DueAnnualMonths(s, row[s].start)} :
                          s \in {x \in Subs : /\ row[x] # None
                                              /\ row[x].status = "active"
                                              /\ PeriodOf[x] > 1}}
    IN
    /\ job[i] = {}
    /\ due # {}
    /\ job' = [job EXCEPT ![i] = due]
    /\ UNCHANGED <<world, claimed, row, granted, handler, faults>>

(* The earliest month of a subscription goes first.                        *)
GrantMonth(i) ==
    \E key \in job[i] :
       /\ \A other \in job[i] : other.sub = key.sub => key.month <= other.month
       /\ granted' = granted \cup {key}
       /\ job' = [job EXCEPT ![i] = @ \ {key}]
       /\ UNCHANGED <<world, claimed, row, handler, faults>>

(* One subscription's failed grant skips the rest of that subscription.    *)
GrantMonthFails(i) ==
    \E key \in job[i] :
       /\ faults < MaxFaults
       /\ faults' = faults + 1
       /\ job' = [job EXCEPT ![i] = {other \in @ : other.sub # key.sub}]
       /\ UNCHANGED <<world, claimed, row, granted, handler>>

JobCrashes(i) ==
    /\ job[i] # {}
    /\ faults < MaxFaults
    /\ faults' = faults + 1
    /\ job' = [job EXCEPT ![i] = {}]
    /\ UNCHANGED <<world, claimed, row, granted, handler>>

-----------------------------------------------------------------------------
Init == /\ now = 0
        /\ polar = [s \in Subs |-> None]
        /\ outbox = {}
        /\ sent = 0
        /\ claimed = {}
        /\ row = [s \in Subs |-> None]
        /\ granted = {}
        /\ handler = [h \in Handlers |-> Resting]
        /\ job = [i \in Instances |-> {}]
        /\ resends = 0
        /\ faults = 0

Next == \/ Tick \/ BuyOnce
        \/ \E s \in Subs : Subscribe(s) \/ Renew(s) \/ ChangePlan(s) \/ Cancel(s)
        \/ \E e \in outbox : Resend(e)
        \/ \E h \in Handlers : \/ \E e \in outbox : Deliver(h, e)
                               \/ Request(h)
                               \/ HandlerFails(h)
        \/ \E i \in Instances : \/ StartJob(i) \/ GrantMonth(i)
                                \/ GrantMonthFails(i) \/ JobCrashes(i)

Spec == Init /\ [][Next]_vars

(* The cron fires again and again and a running job goes on; requests that
   have arrived go on too.  Polar's own changes and its deliveries are under
   no fairness.                                                            *)
FairSpec == /\ Spec
            /\ \A h \in Handlers : WF_vars(Request(h))
            /\ \A i \in Instances : WF_vars(StartJob(i)) /\ WF_vars(GrantMonth(i))

-----------------------------------------------------------------------------
(* Properties.                                                             *)

TypeOK ==
    /\ now \in 0 .. LastMonth
    /\ \A s \in Subs :
          /\ polar[s] # None => Snapshot(polar[s]) \in Subscription /\ polar[s].first \in Nat
          /\ row[s] # None => row[s] \in Subscription
    /\ \A e \in outbox : e.sub \in Subs \cup {None} /\ e.id \in 1 .. sent
    /\ claimed \subseteq 1 .. sent
    /\ \A h \in Handlers :
          handler[h].pc \in {"idle", "exists", "claim", "match", "grant", "upsert"}

(* The months of paid time that have begun.                                *)
MonthsBegun(s) ==
    IF polar[s] = None THEN 0
    ELSE LET paidUntil == polar[s].start + PeriodOf[s]
         IN  IF now < paidUntil THEN now + 1 - polar[s].first
             ELSE paidUntil - polar[s].first

(* Nobody is granted more months than they paid for and have entered:
   however often orders and events are delivered, in whatever order, and
   however many instances run the job, also across a renewal; and a purchase
   without a subscription grants none.                                     *)
NoMonthTwice ==
    /\ \A s \in Subs : Cardinality({key \in granted : key.sub = s}) <= MonthsBegun(s)
    /\ \A key \in granted : key.sub # None

(* polar-webhook.controller.ts:23-24: "Polar retries anything that is not
   2xx, so this answers 202 for everything it has durably handled".  An order
   that earns a month and has been answered has been granted, or a request
   is still at it.                                                         *)
Answered(s, start) == /\ polar[s] # None
                      /\ start \in {polar[s].start, polar[s].first}
                      /\ ~ \E e \in outbox : /\ e.type = "order.paid"
                                             /\ e.sub = s /\ e.start = start
                                             /\ e.reason # "subscription_update"

AnsweredIsGranted ==
    \A s \in Subs : \A start \in 0 .. now :
       Answered(s, start) =>
          \/ \E key \in granted : key.sub = s /\ key.start = start /\ key.month = 0
          \/ \E h \in Handlers : /\ handler[h].pc \in {"match", "grant"}
                                 /\ handler[h].event.sub = s
                                 /\ handler[h].event.start = start

(* annual-allowance.scheduler.ts:15-19: "otherwise an annual subscriber's
   anniversaries would drift later every year".  The months that the job
   takes from dates are the whole months counted here, on whatever day the
   subscription began, and also after a renewal.                           *)
CalendarCountsMonths ==
    /\ EveryDueIsCounted
    /\ \A s \in Subs : row[s] # None =>
          \A date \in FirstDays :
             LET at(month) == AddCalendarMonths(date, month)
                 start == row[s].start
             IN  DueMonths(at(start), at(start + PeriodOf[s]), at(now), PeriodOf[s])
                    = DueAnnualMonths(s, start)

(* A month that is due by our projection is granted in the end, unless the
   projection moves to another period or status first: the job's failures
   and crashes only delay it.                                              *)
DueMonthsAreGranted ==
    \A s \in Subs : \A start \in 0 .. LastMonth : \A m \in 1 .. PeriodOf[s] - 1 :
       (row[s] = [status |-> "active", start |-> start] /\ start + m <= now)
          ~> \/ AllowanceKey(s, start, m) \in granted
             \/ row[s] # [status |-> "active", start |-> start]

-----------------------------------------------------------------------------
(* The inductive invariant behind TypeOK and NoMonthTwice: events, rows and
   keys are about periods that the subscription has had, an order's reason
   says which of them is the first, and a key is about a month that began.  *)

OrderEvent == [type : {"order.paid"}, id : Nat, sub : Subs \cup {None}, start : Nat, carriesUser : OrderMetadata,
               reason : {"purchase", "subscription_cycle", "subscription_update"}]
ChangeEvent == [type : {"subscription"}, id : Nat, sub : Subs, snapshot : Subscription]
Webhook == [pc : {"idle", "exists", "claim", "match", "grant", "upsert"},
            event : OrderEvent \cup ChangeEvent \cup {None}]
Key == [sub : Subs, start : Nat, month : Nat, reason : {"purchase", "subscription_cycle", "allowance"}]

Starts(s) == IF polar[s] = None THEN {}
             ELSE {start \in polar[s].first .. polar[s].start :
                      \E k \in 0 .. now : start = polar[s].first + k * PeriodOf[s]}

ReasonOf(s, start) == IF start = polar[s].first THEN "purchase" ELSE "subscription_cycle"

SoundEvents ==
    {e \in OrderEvent \cup ChangeEvent :
        /\ e.id \in 1 .. sent
        /\ e.type = "order.paid" /\ e.sub # None =>
                                   /\ e.start \in Starts(e.sub)
                                   /\ e.reason \in {ReasonOf(e.sub, e.start), "subscription_update"}
        /\ e.type = "subscription" => e.snapshot.start \in Starts(e.sub)}

SoundKeys ==
    {key \in Key :
        /\ key.start \in Starts(key.sub)
        /\ key.month < PeriodOf[key.sub] /\ key.start + key.month <= now
        /\ key.reason = IF key.month = 0 THEN ReasonOf(key.sub, key.start) ELSE "allowance"}

Earns(e) == e \in OrderEvent /\ GrantsAllowance(e)

BillingInv ==
    /\ now \in 0 .. LastMonth /\ sent \in Nat
    /\ polar \in [Subs -> Polar \cup {None}]
    /\ row \in [Subs -> Subscription \cup {None}]
    /\ \A s \in Subs : /\ polar[s] # None => polar[s].start \in Starts(s) /\ polar[s].start <= now
                       /\ row[s] # None => row[s].start \in Starts(s)
    /\ outbox \subseteq SoundEvents /\ claimed \subseteq 1 .. sent
    /\ handler \in [Handlers -> Webhook]
    /\ \A h \in Handlers :
          /\ handler[h].pc # "idle" => handler[h].event \in SoundEvents
          /\ handler[h].pc \in {"match", "grant"} => Earns(handler[h].event)
          /\ handler[h].pc = "upsert" => handler[h].event \in ChangeEvent
    /\ granted \subseteq SoundKeys /\ job \in [Instances -> SUBSET SoundKeys]

(* The one behind AnsweredIsGranted: a webhook-id is one event's, and a
   claimed order that earns a month is granted or in hand.                  *)

Events == outbox \cup {handler[h].event : h \in {x \in Handlers : handler[x].pc # "idle"}}

Settled(s, start) ==
    \/ \E key \in granted : key.sub = s /\ key.start = start /\ key.month = 0
    \/ \E h \in Handlers : /\ handler[h].pc \in {"match", "grant"}
                           /\ handler[h].event.sub = s /\ handler[h].event.start = start

Ordered(s, start) == \E e \in outbox : Earns(e) /\ e.sub = s /\ e.start = start

AnsweringInv ==
    /\ \A e, f \in Events : e.id = f.id => e = f
    /\ \A e \in Events : Earns(e) /\ e.id \in claimed => Settled(e.sub, e.start)
    /\ \A s \in Subs : polar[s] # None =>
          \A start \in {polar[s].first, polar[s].start} : Ordered(s, start) \/ Settled(s, start)
=============================================================================
