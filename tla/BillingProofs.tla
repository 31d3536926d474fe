---------------------------- MODULE BillingProofs ----------------------------
(***************************************************************************)
(* Theorems about the two modules of the Polar integration.                *)
(*                                                                         *)
(* PolarBilling, for any subscriptions and periods, any number of webhook  *)
(* requests and of API instances running the job, and any bounds:          *)
(* everything rests on BillingInv, what the events, the rows and the keys  *)
(* say is about periods that the subscription has had.                     *)
(*                                                                         *)
(* Purchases, instantiated as Shop, for any number of users, products on   *)
(* sale, checkouts, renewals, product changes, secrets and lost or late    *)
(* deliveries: credits go to whoever paid, in the size of the plan that    *)
(* was bought.                                                             *)
(***************************************************************************)
EXTENDS PolarBilling, FiniteSetTheorems, TLAPS

CONSTANTS Users, Configured, OtherProducts, OneOffs, Vintage, MaxCheckouts, MaxOrders, MaxWire, MaxLosses

VARIABLES checkouts, orders, products, events, wire, signing, secret, receipts, rows, ledger, losses

Shop == INSTANCE Purchases WITH MaxFaults <- MaxLosses, outbox <- events, claimed <- receipts,
                                faults <- losses

-----------------------------------------------------------------------------
(* A subscription keeps its first period and only moves on, and the clock
   and the webhook-ids only grow.                                          *)
WorldGrows ==
    /\ now' \in Nat /\ now' >= now /\ sent' \in Nat /\ sent' >= sent
    /\ polar' \in [Subs -> Polar \cup {None}]
    /\ \A s \in Subs : polar[s] # None => /\ polar'[s] # None
                                          /\ polar'[s].first = polar[s].first
                                          /\ polar'[s].start >= polar[s].start

LEMMA PeriodIsPositive ==
    ASSUME NEW s \in Subs
    PROVE  PeriodOf[s] \in Nat /\ PeriodOf[s] > 0
BY BillingAssumption, SMT

LEMMA TimesPositive ==
    ASSUME NEW k \in Nat, NEW p \in Nat, p > 0
    PROVE  k * p \in Nat /\ k * p >= k
<1>1. k * p = k + k * (p - 1)
  BY SMT
<1>2. k * (p - 1) >= 0
  BY SMT
<1>. QED  BY <1>1, <1>2, SMT

LEMMA OnceMore ==
    ASSUME NEW k \in Nat, NEW p \in Nat
    PROVE  (k + 1) * p = k * p + p
BY SMT

LEMMA PolarOf ==
    ASSUME polar \in [Subs -> Polar \cup {None}], NEW s \in Subs, polar[s] # None
    PROVE  /\ polar[s] \in Polar /\ polar[s].start \in Nat /\ polar[s].first \in Nat
           /\ polar[s].status \in {"active", "canceled"}
BY DEF Polar

LEMMA StartsGrow ==
    ASSUME BillingInv, WorldGrows, NEW s \in Subs
    PROVE  /\ Starts(s) \subseteq Starts(s)'
           /\ \A start \in Starts(s) : ReasonOf(s, start)' = ReasonOf(s, start)
<1>1. CASE polar[s] = None
  BY <1>1 DEF Starts
<1>2. CASE polar[s] # None
  <2>1. /\ now \in Nat /\ now' \in Nat /\ now' >= now
        /\ polar[s] \in Polar /\ polar'[s] \in Polar /\ polar'[s] # None
        /\ polar'[s].first = polar[s].first /\ polar'[s].start >= polar[s].start
    BY <1>2, BillingAssumption DEF BillingInv, WorldGrows
  <2>2. /\ polar[s].first \in Nat /\ polar[s].start \in Nat /\ polar'[s].start \in Nat
    BY <2>1 DEF Polar
  <2>3. \A start \in Starts(s) : ReasonOf(s, start)' = ReasonOf(s, start)
    BY <2>1 DEF ReasonOf
  <2>4. ASSUME NEW start \in Starts(s)
        PROVE  start \in Starts(s)'
    <3>1. PICK k \in 0 .. now : start = polar[s].first + k * PeriodOf[s]
      BY <1>2 DEF Starts
    <3>2. k \in 0 .. now'
      BY <2>1
    <3>3. start \in polar[s].first .. polar[s].start
      BY <1>2 DEF Starts
    <3>4. start \in polar'[s].first .. polar'[s].start
      BY <3>3, <2>1, <2>2
    <3>. QED  BY <2>1, <3>1, <3>2, <3>4 DEF Starts
  <2>. QED  BY <2>3, <2>4
<1>. QED  BY <1>1, <1>2

LEMMA EventsStaySound ==
    ASSUME BillingInv, WorldGrows
    PROVE  SoundEvents \subseteq SoundEvents'
<1>. SUFFICES ASSUME NEW e \in SoundEvents
              PROVE  e \in SoundEvents'
  OBVIOUS
<1>1. /\ e \in OrderEvent \cup ChangeEvent /\ e.sub \in Subs \cup {None}
      /\ e.type = "subscription" => e.sub \in Subs
  BY DEF SoundEvents, OrderEvent, ChangeEvent
<1>2. e.id \in 1 .. sent'
  BY DEF SoundEvents, BillingInv, WorldGrows
<1>3. e.sub \in Subs =>
      /\ Starts(e.sub) \subseteq Starts(e.sub)'
      /\ \A start \in Starts(e.sub) : ReasonOf(e.sub, start)' = ReasonOf(e.sub, start)
  BY <1>1, StartsGrow
<1>. QED  BY <1>1, <1>2, <1>3 DEF SoundEvents

LEMMA KeysStaySound ==
    ASSUME BillingInv, WorldGrows
    PROVE  SoundKeys \subseteq SoundKeys'
<1>. SUFFICES ASSUME NEW key \in SoundKeys
              PROVE  key \in SoundKeys'
  OBVIOUS
<1>1. key \in Key /\ key.sub \in Subs /\ key.start \in Nat /\ key.month \in Nat
  BY DEF SoundKeys, Key
<1>2. key.start + key.month <= now'
  BY <1>1, BillingAssumption DEF SoundKeys, BillingInv, WorldGrows
<1>3. /\ Starts(key.sub) \subseteq Starts(key.sub)'
      /\ \A start \in Starts(key.sub) : ReasonOf(key.sub, start)' = ReasonOf(key.sub, start)
  BY <1>1, StartsGrow
<1>. QED  BY <1>1, <1>2, <1>3 DEF SoundKeys

-----------------------------------------------------------------------------
(* What Polar does.                                                        *)

LEMMA WorldStep ==
    ASSUME BillingInv, WorldGrows, now' <= LastMonth,
           UNCHANGED <<claimed, row, granted, handler, job>>,
           outbox' \subseteq SoundEvents',
           \A s \in Subs : polar'[s] # None => polar'[s].start \in Starts(s)' /\ polar'[s].start <= now'
    PROVE  BillingInv'
<1>1. SoundEvents \subseteq SoundEvents' /\ SoundKeys \subseteq SoundKeys'
  BY EventsStaySound, KeysStaySound
<1>2. now' \in 0 .. LastMonth /\ sent' \in Nat /\ polar' \in [Subs -> Polar \cup {None}]
  BY BillingAssumption DEF WorldGrows
<1>3. row' \in [Subs -> Subscription \cup {None}]
  BY DEF BillingInv
<1>4. \A s \in Subs : /\ polar'[s] # None => polar'[s].start \in Starts(s)' /\ polar'[s].start <= now'
                      /\ row'[s] # None => row'[s].start \in Starts(s)'
  BY StartsGrow DEF BillingInv
<1>5. claimed' \subseteq 1 .. sent'
  BY DEF BillingInv, WorldGrows
<1>6. /\ handler' \in [Handlers -> Webhook]
      /\ \A h \in Handlers :
            /\ handler'[h].pc # "idle" => handler'[h].event \in SoundEvents'
            /\ handler'[h].pc \in {"match", "grant"} => Earns(handler[h].event)'
            /\ handler'[h].pc = "upsert" => handler'[h].event \in ChangeEvent
  BY <1>1 DEF BillingInv, Earns, GrantsAllowance
<1>7. granted' \subseteq SoundKeys' /\ job' \in [Instances -> SUBSET SoundKeys']
  BY <1>1 DEF BillingInv
<1>. QED  BY <1>2, <1>3, <1>4, <1>5, <1>6, <1>7 DEF BillingInv

LEMMA TickStep == BillingInv /\ Tick => BillingInv'
<1>. SUFFICES ASSUME BillingInv, Tick
              PROVE  BillingInv'
  OBVIOUS
<1>1. WorldGrows /\ now' <= LastMonth
  BY BillingAssumption, PolarOf DEF Tick, BillingInv, WorldGrows
<1>2. outbox' \subseteq SoundEvents'
  BY <1>1, EventsStaySound DEF Tick, BillingInv
<1>3. \A s \in Subs : polar'[s] # None => polar'[s].start \in Starts(s)' /\ polar'[s].start <= now'
  <2>. SUFFICES ASSUME NEW s \in Subs, polar'[s] # None
                PROVE  polar'[s].start \in Starts(s)' /\ polar'[s].start <= now'
    OBVIOUS
  <2>1. polar[s] # None /\ polar'[s] = polar[s]
    BY DEF Tick
  <2>2. polar[s].start \in Starts(s) /\ polar[s].start <= now /\ polar[s].start \in Nat
    BY <2>1, PolarOf DEF BillingInv
  <2>. QED  BY <1>1, <2>1, <2>2, StartsGrow, BillingAssumption DEF BillingInv, Tick
<1>. QED  BY <1>1, <1>2, <1>3, WorldStep DEF Tick

LEMMA ChangedStep ==
    ASSUME BillingInv, NEW s \in Subs, NEW sub \in Polar, NEW reason, Changed(s, sub, reason),
           sub.start <= now, sub.start >= sub.first,
           \E k \in 0 .. now : sub.start = sub.first + k * PeriodOf[s],
           polar[s] # None => sub.first = polar[s].first /\ sub.start >= polar[s].start,
           reason # None => reason = IF sub.start = sub.first THEN "purchase" ELSE "subscription_cycle"
    PROVE  BillingInv'
<1>1. now \in Nat /\ now' = now /\ sent \in Nat
  BY BillingAssumption DEF BillingInv, Changed
<1>2. polar' = [polar EXCEPT ![s] = sub] /\ polar' \in [Subs -> Polar \cup {None}] /\ polar'[s] = sub
  BY DEF BillingInv, Changed
<1>3. sent' \in {sent + 1, sent + 2}
  BY DEF Changed
<1>4. sub # None
  BY NoneIsApart
<1>5. WorldGrows
  <2>. SUFFICES ASSUME NEW x \in Subs, polar[x] # None
                PROVE  polar'[x] # None /\ polar'[x].first = polar[x].first /\ polar'[x].start >= polar[x].start
    BY <1>1, <1>2, <1>3 DEF WorldGrows
  <2>1. CASE x = s
    BY <2>1, <1>2, <1>4
  <2>2. CASE x # s
    BY <2>2, <1>2, PolarOf DEF BillingInv
  <2>. QED  BY <2>1, <2>2
<1>6. sub.start \in Nat /\ sub.first \in Nat
  BY DEF Polar
<1>7. sub.start \in Starts(s)'
  BY <1>1, <1>2, <1>4, <1>6 DEF Starts
<1>8. \A x \in Subs : polar'[x] # None => polar'[x].start \in Starts(x)' /\ polar'[x].start <= now'
  <2>. SUFFICES ASSUME NEW x \in Subs, polar'[x] # None, x # s
                PROVE  polar'[x].start \in Starts(x)' /\ polar'[x].start <= now'
    BY <1>1, <1>2, <1>7
  <2>1. polar'[x] = polar[x]
    BY <1>2 DEF BillingInv
  <2>. QED  BY <2>1, <1>1, <1>5, StartsGrow DEF BillingInv
<1>9. outbox \subseteq SoundEvents'
  BY <1>5, EventsStaySound DEF BillingInv
<1>10. SubscriptionEvent(s, sub, sent + 1) \in SoundEvents'
  <2>1. sent + 1 \in 1 .. sent'
    BY <1>1, <1>3
  <2>. QED  BY <2>1, <1>1, <1>3, <1>7, <1>6
            DEF SubscriptionEvent, Snapshot, SoundEvents, ChangeEvent, Subscription, Polar
<1>11. CASE reason = None
  <2>1. outbox' = outbox \cup {SubscriptionEvent(s, sub, sent + 1)}
    BY <1>11 DEF Changed
  <2>2. outbox' \subseteq SoundEvents'
    BY <2>1, <1>9, <1>10
  <2>. QED  BY <2>2, <1>1, <1>5, <1>8, WorldStep, BillingAssumption DEF Changed, BillingInv
<1>12. CASE reason # None
  <2>1. PICK carriesUser \in OrderMetadata :
           outbox' = outbox \cup {SubscriptionEvent(s, sub, sent + 1),
                                  OrderPaid(s, sub.start, reason, sent + 2, carriesUser)}
    BY <1>12 DEF Changed
  <2>2. sent + 2 \in 1 .. sent'
    BY <1>1, <1>12 DEF Changed
  <2>3. reason = ReasonOf(s, sub.start)' /\ reason \in {"purchase", "subscription_cycle"}
    BY <1>2, <1>12 DEF ReasonOf
  <2>4. OrderPaid(s, sub.start, reason, sent + 2, carriesUser) \in SoundEvents'
    BY <2>2, <2>3, <1>1, <1>6, <1>7 DEF OrderPaid, SoundEvents, OrderEvent
  <2>5. outbox' \subseteq SoundEvents'
    BY <2>1, <2>4, <1>9, <1>10
  <2>. QED  BY <2>5, <1>1, <1>5, <1>8, WorldStep, BillingAssumption DEF Changed, BillingInv
<1>. QED  BY <1>11, <1>12

LEMMA SubscribeStep == ASSUME BillingInv, NEW s \in Subs, Subscribe(s) PROVE BillingInv'
<1>. DEFINE sub == [status |-> "active", start |-> now, first |-> now]
<1>1. now \in Nat
  BY BillingAssumption DEF BillingInv
<1>2. sub \in Polar /\ sub.start = now /\ sub.first = now
  BY <1>1 DEF Polar
<1>3. Changed(s, sub, "purchase") /\ polar[s] = None
  BY DEF Subscribe
<1>4. \E k \in 0 .. now : sub.start = sub.first + k * PeriodOf[s]
  <2>1. sub.start = sub.first + 0 * PeriodOf[s]
    BY <1>1, <1>2, PeriodIsPositive
  <2>. QED  BY <2>1, <1>1
<1>. HIDE DEF sub
<1>. QED  BY <1>1, <1>2, <1>3, <1>4, ChangedStep

LEMMA RenewStep == ASSUME BillingInv, NEW s \in Subs, Renew(s) PROVE BillingInv'
<1>. DEFINE sub == [polar[s] EXCEPT !.start = @ + PeriodOf[s]]
<1>1. now \in Nat /\ PeriodOf[s] \in Nat /\ PeriodOf[s] > 0
  BY BillingAssumption, PeriodIsPositive DEF BillingInv
<1>2. polar[s] # None /\ now >= polar[s].start + PeriodOf[s] /\ Changed(s, sub, "subscription_cycle")
  BY DEF Renew
<1>3. polar[s] \in Polar /\ polar[s].start \in Nat /\ polar[s].first \in Nat
  BY <1>2, PolarOf DEF BillingInv
<1>4. sub \in Polar /\ sub.start = polar[s].start + PeriodOf[s] /\ sub.first = polar[s].first
  BY <1>1, <1>3 DEF Polar
<1>5. polar[s].start \in Starts(s)
  BY <1>2 DEF BillingInv
<1>6. PICK k \in 0 .. now : polar[s].start = polar[s].first + k * PeriodOf[s]
  BY <1>2, <1>5 DEF Starts
<1>7. polar[s].start >= polar[s].first
  BY <1>2, <1>3, <1>5 DEF Starts
<1>8. sub.start = sub.first + (k + 1) * PeriodOf[s] /\ k + 1 \in Nat
  BY <1>1, <1>3, <1>4, <1>6, OnceMore
<1>9. (k + 1) * PeriodOf[s] >= k + 1 /\ (k + 1) * PeriodOf[s] \in Nat
  BY <1>1, <1>8, TimesPositive
<1>10. k + 1 \in 0 .. now
  BY <1>1, <1>2, <1>3, <1>4, <1>8, <1>9
<1>11. /\ sub.start <= now /\ sub.start >= polar[s].start /\ sub.start > sub.first
  BY <1>1, <1>2, <1>3, <1>4, <1>7
<1>. HIDE DEF sub
<1>. QED  BY <1>1, <1>2, <1>3, <1>4, <1>8, <1>10, <1>11, ChangedStep DEF Polar

LEMMA CancelStep == ASSUME BillingInv, NEW s \in Subs, Cancel(s) PROVE BillingInv'
<1>. DEFINE sub == [polar[s] EXCEPT !.status = "canceled"]
<1>1. polar[s] # None /\ Changed(s, sub, None)
  BY DEF Cancel
<1>2. polar[s] \in Polar /\ polar[s].start \in Nat /\ polar[s].first \in Nat
  BY <1>1, PolarOf DEF BillingInv
<1>3. sub \in Polar /\ sub.start = polar[s].start /\ sub.first = polar[s].first
  BY <1>2 DEF Polar
<1>4. polar[s].start \in Starts(s) /\ polar[s].start <= now
  BY <1>1 DEF BillingInv
<1>5. /\ \E k \in 0 .. now : polar[s].start = polar[s].first + k * PeriodOf[s]
      /\ polar[s].start >= polar[s].first
  BY <1>1, <1>2, <1>4 DEF Starts
<1>. HIDE DEF sub
<1>. QED  BY <1>1, <1>2, <1>3, <1>4, <1>5, ChangedStep

LEMMA BesidesStep ==
    ASSUME BillingInv, NEW s \in Subs \cup {None}, NEW start \in Nat,
           NEW reason \in {"purchase", "subscription_cycle", "subscription_update"},
           OrderedBesides(s, start, reason),
           s # None => start \in Starts(s) /\ reason = "subscription_update"
    PROVE  BillingInv'
<1>1. polar' = polar /\ now' = now /\ sent' = sent + 1
  BY DEF OrderedBesides
<1>2. now \in Nat /\ sent \in Nat /\ now <= LastMonth
  BY BillingAssumption DEF BillingInv
<1>3. WorldGrows
  BY <1>1, <1>2, PolarOf DEF WorldGrows, BillingInv
<1>4. PICK carriesUser \in OrderMetadata :
         outbox' = outbox \cup {OrderPaid(s, start, reason, sent + 1, carriesUser)}
  BY DEF OrderedBesides
<1>5. s # None => start \in Starts(s)'
  BY <1>3, StartsGrow
<1>6. OrderPaid(s, start, reason, sent + 1, carriesUser) \in SoundEvents'
  BY <1>1, <1>2, <1>5 DEF OrderPaid, SoundEvents, OrderEvent
<1>7. outbox' \subseteq SoundEvents'
  BY <1>3, <1>4, <1>6, EventsStaySound DEF BillingInv
<1>8. \A x \in Subs : polar'[x] # None => polar'[x].start \in Starts(x)' /\ polar'[x].start <= now'
  BY <1>1, <1>3, StartsGrow DEF BillingInv
<1>. QED  BY <1>1, <1>2, <1>3, <1>7, <1>8, WorldStep DEF OrderedBesides

LEMMA ChangePlanStep == ASSUME BillingInv, NEW s \in Subs, ChangePlan(s) PROVE BillingInv'
<1>1. polar[s] # None /\ OrderedBesides(s, polar[s].start, "subscription_update")
  BY DEF ChangePlan
<1>2. polar[s].start \in Nat /\ polar[s].start \in Starts(s)
  BY <1>1, PolarOf DEF BillingInv
<1>. QED  BY <1>1, <1>2, BesidesStep

LEMMA BuyOnceStep == ASSUME BillingInv, BuyOnce PROVE BillingInv'
<1>1. now \in Nat /\ OrderedBesides(None, now, "purchase")
  BY BillingAssumption DEF BuyOnce, BillingInv
<1>. QED  BY <1>1, BesidesStep

LEMMA ResendStep == ASSUME BillingInv, NEW e \in outbox, Resend(e) PROVE BillingInv'
<1>1. polar' = polar /\ now' = now /\ sent' = sent + 1 /\ outbox' = outbox \cup {[e EXCEPT !.id = sent + 1]}
  BY DEF Resend
<1>2. now \in Nat /\ sent \in Nat /\ now <= LastMonth
  BY BillingAssumption DEF BillingInv
<1>3. WorldGrows
  BY <1>1, <1>2, PolarOf DEF WorldGrows, BillingInv
<1>4. e \in SoundEvents /\ e \in SoundEvents'
  BY <1>3, EventsStaySound DEF BillingInv
<1>5. e \in OrderEvent
  BY <1>4 DEF SoundEvents, ChangeEvent, Resend
<1>6. [e EXCEPT !.id = sent + 1] \in OrderEvent
  BY <1>2, <1>5 DEF OrderEvent
<1>7. [e EXCEPT !.id = sent + 1] \in SoundEvents'
  <2>. PICK f : f = [e EXCEPT !.id = sent + 1]
    OBVIOUS
  <2>1. f.id = sent + 1 /\ f.type = e.type /\ f.sub = e.sub /\ f.start = e.start /\ f.reason = e.reason
    BY <1>5 DEF OrderEvent
  <2>2. f \in OrderEvent /\ f.type = "order.paid"
    BY <1>6 DEF OrderEvent
  <2>3. f.id \in 1 .. sent'
    BY <1>1, <1>2, <2>1
  <2>4. f.sub # None => f.start \in Starts(f.sub)' /\ f.reason \in {ReasonOf(f.sub, f.start)', "subscription_update"}
    BY <1>4, <1>5, <2>1 DEF SoundEvents, OrderEvent
  <2>5. f \in SoundEvents'
    BY <2>2, <2>3, <2>4 DEF SoundEvents
  <2>. QED  BY <2>5
<1>8. outbox' \subseteq SoundEvents'
  BY <1>1, <1>3, <1>7, EventsStaySound DEF BillingInv
<1>9. \A x \in Subs : polar'[x] # None => polar'[x].start \in Starts(x)' /\ polar'[x].start <= now'
  BY <1>1, <1>3, StartsGrow DEF BillingInv
<1>. QED  BY <1>1, <1>2, <1>3, <1>8, <1>9, WorldStep DEF Resend

-----------------------------------------------------------------------------
(* What a request and the job do.                                          *)

LEMMA SameWorld ==
    ASSUME UNCHANGED <<now, polar, sent>>
    PROVE  /\ SoundEvents' = SoundEvents /\ SoundKeys' = SoundKeys
           /\ \A s \in Subs : Starts(s)' = Starts(s)
BY DEF SoundEvents, SoundKeys, Starts, ReasonOf

LEMMA HandlerStep ==
    ASSUME BillingInv, UNCHANGED <<now, polar, sent, job>>,
           outbox' \subseteq outbox, claimed' \subseteq 1 .. sent,
           row' \in [Subs -> Subscription \cup {None}],
           \A s \in Subs : row'[s] # None => row'[s].start \in Starts(s),
           granted' \subseteq SoundKeys,
           NEW h \in Handlers, NEW w \in Webhook, handler' = [handler EXCEPT ![h] = w],
           w.pc # "idle" => w.event \in SoundEvents,
           w.pc \in {"match", "grant"} => Earns(w.event),
           w.pc = "upsert" => w.event \in ChangeEvent
    PROVE  BillingInv'
<1>1. /\ SoundEvents' = SoundEvents /\ SoundKeys' = SoundKeys
      /\ \A s \in Subs : Starts(s)' = Starts(s)
  BY SameWorld
<1>2. handler' \in [Handlers -> Webhook]
  BY DEF BillingInv
<1>3. \A x \in Handlers :
         /\ handler'[x].pc # "idle" => handler'[x].event \in SoundEvents
         /\ handler'[x].pc \in {"match", "grant"} => handler'[x].event \in OrderEvent
         /\ handler'[x].pc \in {"match", "grant"} =>
               /\ handler'[x].event.reason \in {"purchase", "subscription_cycle"}
               /\ handler'[x].event.sub # None
         /\ handler'[x].pc = "upsert" => handler'[x].event \in ChangeEvent
  BY DEF BillingInv, Earns, GrantsAllowance
<1>4. \A x \in Handlers :
         /\ handler'[x].pc # "idle" => handler'[x].event \in SoundEvents'
         /\ handler'[x].pc \in {"match", "grant"} => Earns(handler[x].event)'
         /\ handler'[x].pc = "upsert" => handler'[x].event \in ChangeEvent
  BY <1>1, <1>3 DEF Earns, GrantsAllowance
<1>5. outbox' \subseteq SoundEvents' /\ claimed' \subseteq 1 .. sent'
  BY <1>1 DEF BillingInv
<1>6. \A s \in Subs : /\ polar'[s] # None => polar'[s].start \in Starts(s)' /\ polar'[s].start <= now'
                      /\ row'[s] # None => row'[s].start \in Starts(s)'
  BY <1>1 DEF BillingInv
<1>7. granted' \subseteq SoundKeys' /\ job' \in [Instances -> SUBSET SoundKeys']
  BY <1>1 DEF BillingInv
<1>. QED  BY <1>2, <1>4, <1>5, <1>6, <1>7 DEF BillingInv

LEMMA RestingIsAWebhook == Resting \in Webhook /\ Resting.pc = "idle"
BY DEF Resting, Webhook

(* A request whose event stays and whose pc moves.                         *)
LEMMA MovedHandler ==
    ASSUME BillingInv, NEW h \in Handlers, NEW pc \in {"claim", "match", "grant", "upsert"},
           handler[h].pc # "idle", Step(h, pc)
    PROVE  \E w \in Webhook : /\ handler' = [handler EXCEPT ![h] = w]
                              /\ w.pc = pc /\ w.event = handler[h].event /\ w.event \in SoundEvents
<1>1. handler[h] \in Webhook /\ handler[h].event \in SoundEvents
  BY DEF BillingInv
<1>2. PICK w : w = [handler[h] EXCEPT !.pc = pc]
  OBVIOUS
<1>3. w \in Webhook /\ w.pc = pc /\ w.event = handler[h].event
  BY <1>1, <1>2 DEF Webhook
<1>4. handler' = [handler EXCEPT ![h] = w]
  BY <1>2 DEF Step, BillingInv
<1>. QED  BY <1>1, <1>3, <1>4

LEMMA AnswerStep ==
    ASSUME BillingInv, NEW h \in Handlers, Answer(h), UNCHANGED job, claimed' \subseteq 1 .. sent,
           row' \in [Subs -> Subscription \cup {None}],
           \A s \in Subs : row'[s] # None => row'[s].start \in Starts(s),
           granted' \subseteq SoundKeys
    PROVE  BillingInv'
<1>1. UNCHANGED <<now, polar, sent>> /\ outbox' \subseteq outbox
  BY DEF Answer
<1>2. handler' = [handler EXCEPT ![h] = Resting]
  BY DEF Answer
<1>. QED  BY <1>1, <1>2, RestingIsAWebhook, HandlerStep

LEMMA RowIsSound ==
    ASSUME BillingInv
    PROVE  /\ row \in [Subs -> Subscription \cup {None}]
           /\ \A s \in Subs : row[s] # None => row[s].start \in Starts(s)
BY DEF BillingInv

LEMMA DeliverStep ==
    ASSUME BillingInv, NEW h \in Handlers, NEW e \in outbox, Deliver(h, e)
    PROVE  BillingInv'
<1>1. UNCHANGED <<now, polar, sent, job, outbox, claimed, row, granted>>
  BY DEF Deliver, world
<1>2. PICK w : w = [pc |-> "exists", event |-> e]
  OBVIOUS
<1>3. e \in SoundEvents
  BY DEF BillingInv
<1>4. w \in Webhook /\ w.pc = "exists" /\ w.event = e
  BY <1>2, <1>3 DEF Webhook, SoundEvents
<1>5. handler' = [handler EXCEPT ![h] = w]
  BY <1>2 DEF Deliver
<1>. QED  BY <1>1, <1>3, <1>4, <1>5, RowIsSound, HandlerStep DEF BillingInv

LEMMA LookUpClaimStep ==
    ASSUME BillingInv, NEW h \in Handlers, LookUpClaim(h)
    PROVE  BillingInv'
<1>1. UNCHANGED <<claimed, row, granted, job>> /\ handler[h].pc = "exists"
  BY DEF LookUpClaim
<1>2. claimed' \subseteq 1 .. sent /\ granted' \subseteq SoundKeys
  BY <1>1 DEF BillingInv
<1>3. CASE handler[h].event.id \in claimed
  BY <1>1, <1>2, <1>3, RowIsSound, AnswerStep DEF LookUpClaim
<1>4. CASE handler[h].event.id \notin claimed
  <2>1. Step(h, "claim") /\ UNCHANGED world
    BY <1>4 DEF LookUpClaim
  <2>2. PICK w \in Webhook : /\ handler' = [handler EXCEPT ![h] = w]
                             /\ w.pc = "claim" /\ w.event = handler[h].event /\ w.event \in SoundEvents
    BY <1>1, <2>1, MovedHandler
  <2>. QED  BY <1>1, <1>2, <2>1, <2>2, RowIsSound, HandlerStep DEF world
<1>. QED  BY <1>3, <1>4

LEMMA ClaimStep ==
    ASSUME BillingInv, NEW h \in Handlers, Claim(h)
    PROVE  BillingInv'
<1>. DEFINE e == handler[h].event
<1>1. UNCHANGED <<row, granted, job>> /\ handler[h].pc = "claim" /\ claimed' = claimed \cup {e.id}
  BY DEF Claim
<1>2. e \in SoundEvents
  BY <1>1 DEF BillingInv
<1>3. claimed' \subseteq 1 .. sent /\ granted' \subseteq SoundKeys
  BY <1>1, <1>2 DEF BillingInv, SoundEvents
<1>4. CASE e.id \in claimed \/ (e.type = "order.paid" /\ ~ GrantsAllowance(e))
  BY <1>1, <1>3, <1>4, RowIsSound, AnswerStep DEF Claim
<1>5. CASE ~ (e.id \in claimed \/ (e.type = "order.paid" /\ ~ GrantsAllowance(e)))
  <2>1. PICK pc : pc = IF e.type = "order.paid" THEN "match" ELSE "upsert"
    OBVIOUS
  <2>2. Step(h, pc) /\ UNCHANGED world /\ pc \in {"match", "upsert"}
    BY <1>5, <2>1 DEF Claim
  <2>3. PICK w \in Webhook : /\ handler' = [handler EXCEPT ![h] = w]
                             /\ w.pc = pc /\ w.event = e /\ w.event \in SoundEvents
    BY <1>1, <2>2, MovedHandler
  <2>4. pc = "match" => Earns(w.event)
    BY <1>2, <1>5, <2>1, <2>3 DEF Earns, SoundEvents, ChangeEvent, GrantsAllowance
  <2>5. pc = "upsert" => w.event \in ChangeEvent
    BY <1>2, <2>1, <2>3 DEF SoundEvents, OrderEvent
  <2>. QED  BY <1>1, <1>3, <2>2, <2>3, <2>4, <2>5, RowIsSound, HandlerStep DEF world
<1>. QED  BY <1>4, <1>5

LEMMA MatchUserStep ==
    ASSUME BillingInv, NEW h \in Handlers, MatchUser(h)
    PROVE  BillingInv'
<1>. DEFINE e == handler[h].event
<1>1. UNCHANGED <<claimed, row, granted, job>> /\ handler[h].pc = "match"
  BY DEF MatchUser
<1>2. claimed' \subseteq 1 .. sent /\ granted' \subseteq SoundKeys /\ Earns(e)
  BY <1>1 DEF BillingInv
<1>3. CASE e.carriesUser \/ row[e.sub] # None
  <2>1. Step(h, "grant") /\ UNCHANGED world
    BY <1>3 DEF MatchUser
  <2>2. PICK w \in Webhook : /\ handler' = [handler EXCEPT ![h] = w]
                             /\ w.pc = "grant" /\ w.event = e /\ w.event \in SoundEvents
    BY <1>1, <2>1, MovedHandler
  <2>3. Earns(w.event)
    BY <1>2, <2>2
  <2>. QED  BY <1>1, <1>2, <2>1, <2>2, <2>3, RowIsSound, HandlerStep DEF world
<1>4. CASE ~ (e.carriesUser \/ row[e.sub] # None)
  BY <1>1, <1>2, <1>4, RowIsSound, AnswerStep DEF MatchUser
<1>. QED  BY <1>3, <1>4

(* The key of an order that earns a month is that month's.                 *)
LEMMA OrderKeyIsSound ==
    ASSUME BillingInv, NEW e \in SoundEvents, Earns(e)
    PROVE  OrderKey(e) \in SoundKeys
<1>1. /\ e \in OrderEvent /\ e.sub \in Subs /\ e.start \in Nat /\ e.start \in Starts(e.sub)
      /\ e.reason = ReasonOf(e.sub, e.start) /\ e.reason \in {"purchase", "subscription_cycle"}
  BY DEF Earns, GrantsAllowance, SoundEvents, OrderEvent
<1>2. PeriodOf[e.sub] > 0
  BY <1>1, PeriodIsPositive
<1>3. e.start + 0 <= now
  <2>1. polar[e.sub] # None
    BY <1>1 DEF Starts
  <2>2. polar[e.sub].start \in Nat /\ polar[e.sub].start <= now /\ now \in Nat
    BY <1>1, <2>1, PolarOf, BillingAssumption DEF BillingInv
  <2>3. e.start <= polar[e.sub].start
    BY <1>1, <2>1, PolarOf DEF Starts, BillingInv
  <2>. QED  BY <1>1, <2>2, <2>3
<1>4. PICK key : key = OrderKey(e)
  OBVIOUS
<1>5. key = [sub |-> e.sub, start |-> e.start, month |-> 0, reason |-> e.reason]
  BY <1>4 DEF OrderKey
<1>6. key \in Key
  BY <1>1, <1>5 DEF Key
<1>. QED  BY <1>1, <1>2, <1>3, <1>4, <1>5, <1>6 DEF SoundKeys

LEMMA GrantOrderStep ==
    ASSUME BillingInv, NEW h \in Handlers, GrantOrder(h)
    PROVE  BillingInv'
<1>1. handler[h].event \in SoundEvents /\ Earns(handler[h].event)
  BY DEF BillingInv, GrantOrder
<1>2. OrderKey(handler[h].event) \in SoundKeys
  BY <1>1, OrderKeyIsSound
<1>3. granted' \subseteq SoundKeys /\ claimed' \subseteq 1 .. sent
  BY <1>2 DEF BillingInv, GrantOrder
<1>. QED  BY <1>3, RowIsSound, AnswerStep DEF GrantOrder

LEMMA UpsertSubscriptionStep ==
    ASSUME BillingInv, NEW h \in Handlers, UpsertSubscription(h)
    PROVE  BillingInv'
<1>. DEFINE e == handler[h].event
<1>1. e \in SoundEvents /\ e \in ChangeEvent
  BY DEF BillingInv, UpsertSubscription
<1>2. e.sub \in Subs /\ e.snapshot \in Subscription /\ e.snapshot.start \in Starts(e.sub)
  BY <1>1 DEF SoundEvents, ChangeEvent
<1>3. row' = [row EXCEPT ![e.sub] = e.snapshot]
  BY DEF UpsertSubscription
<1>4. /\ row' \in [Subs -> Subscription \cup {None}]
      /\ \A s \in Subs : row'[s] # None => row'[s].start \in Starts(s)
  BY <1>2, <1>3, RowIsSound
<1>5. granted' \subseteq SoundKeys /\ claimed' \subseteq 1 .. sent
  BY DEF BillingInv, UpsertSubscription
<1>. QED  BY <1>4, <1>5, AnswerStep DEF UpsertSubscription

LEMMA HandlerFailsStep ==
    ASSUME BillingInv, NEW h \in Handlers, HandlerFails(h)
    PROVE  BillingInv'
<1>1. UNCHANGED <<now, polar, sent, job, outbox, claimed, row, granted>>
  BY DEF HandlerFails, world
<1>2. handler' = [handler EXCEPT ![h] = Resting]
  BY DEF HandlerFails
<1>. QED  BY <1>1, <1>2, RestingIsAWebhook, RowIsSound, HandlerStep DEF BillingInv

LEMMA JobStep ==
    ASSUME BillingInv, UNCHANGED <<world, claimed, row, handler>>,
           granted' \subseteq SoundKeys, job' \in [Instances -> SUBSET SoundKeys]
    PROVE  BillingInv'
<1>1. /\ SoundEvents' = SoundEvents /\ SoundKeys' = SoundKeys
      /\ \A s \in Subs : Starts(s)' = Starts(s)
  BY SameWorld DEF world
<1>2. \A h \in Handlers : /\ handler'[h].pc # "idle" => handler'[h].event \in SoundEvents'
                          /\ handler'[h].pc \in {"match", "grant"} => Earns(handler[h].event)'
                          /\ handler'[h].pc = "upsert" => handler'[h].event \in ChangeEvent
  BY <1>1 DEF BillingInv, Earns, GrantsAllowance
<1>3. \A s \in Subs : /\ polar'[s] # None => polar'[s].start \in Starts(s)' /\ polar'[s].start <= now'
                      /\ row'[s] # None => row'[s].start \in Starts(s)'
  BY <1>1 DEF BillingInv, world
<1>. QED  BY <1>1, <1>2, <1>3 DEF BillingInv, world

LEMMA AllowanceKeyIsSound ==
    ASSUME BillingInv, NEW s \in Subs, row[s] # None, NEW m \in DueAnnualMonths(s, row[s].start)
    PROVE  AllowanceKey(s, row[s].start, m) \in SoundKeys
<1>1. row[s].start \in Starts(s) /\ row[s].start \in Nat
  BY DEF BillingInv, Subscription
<1>2. m \in Nat /\ m > 0 /\ m < PeriodOf[s] /\ row[s].start + m <= now
  BY PeriodIsPositive DEF DueAnnualMonths
<1>3. PICK key : key = AllowanceKey(s, row[s].start, m)
  OBVIOUS
<1>4. key = [sub |-> s, start |-> row[s].start, month |-> m, reason |-> "allowance"]
  BY <1>3 DEF AllowanceKey
<1>5. key \in Key
  BY <1>1, <1>2, <1>4 DEF Key
<1>. QED  BY <1>1, <1>2, <1>3, <1>4, <1>5 DEF SoundKeys

LEMMA StartJobStep ==
    ASSUME BillingInv, NEW i \in Instances, StartJob(i)
    PROVE  BillingInv'
<1>. DEFINE due == UNION {{AllowanceKey(s, row[s].start, m) : m \in DueAnnualMonths(s, row[s].start)} :
                             s \in {x \in Subs : /\ row[x] # None
                                                 /\ row[x].status = "active"
                                                 /\ PeriodOf[x] > 1}}
<1>1. due \subseteq SoundKeys
  BY AllowanceKeyIsSound
<1>2. job' = [job EXCEPT ![i] = due] /\ UNCHANGED <<world, claimed, row, granted, handler>>
  BY DEF StartJob
<1>. HIDE DEF due
<1>3. granted' \subseteq SoundKeys /\ job' \in [Instances -> SUBSET SoundKeys]
  BY <1>1, <1>2 DEF BillingInv
<1>. QED  BY <1>2, <1>3, JobStep

LEMMA GrantMonthStep ==
    ASSUME BillingInv, NEW i \in Instances, GrantMonth(i)
    PROVE  BillingInv'
<1>1. PICK key \in job[i] : granted' = granted \cup {key} /\ job' = [job EXCEPT ![i] = @ \ {key}]
  BY DEF GrantMonth
<1>2. granted' \subseteq SoundKeys /\ job' \in [Instances -> SUBSET SoundKeys]
  BY <1>1 DEF BillingInv
<1>. QED  BY <1>2, JobStep DEF GrantMonth

LEMMA GrantMonthFailsStep ==
    ASSUME BillingInv, NEW i \in Instances, GrantMonthFails(i)
    PROVE  BillingInv'
<1>1. PICK key \in job[i] : job' = [job EXCEPT ![i] = {other \in @ : other.sub # key.sub}]
  BY DEF GrantMonthFails
<1>2. granted' \subseteq SoundKeys /\ job' \in [Instances -> SUBSET SoundKeys]
  BY <1>1 DEF BillingInv, GrantMonthFails
<1>. QED  BY <1>2, JobStep DEF GrantMonthFails

LEMMA JobCrashesStep ==
    ASSUME BillingInv, NEW i \in Instances, JobCrashes(i)
    PROVE  BillingInv'
<1>1. granted' \subseteq SoundKeys /\ job' \in [Instances -> SUBSET SoundKeys]
  BY DEF BillingInv, JobCrashes
<1>. QED  BY <1>1, JobStep DEF JobCrashes

-----------------------------------------------------------------------------
LEMMA BillingInit == Init => BillingInv
<1>. SUFFICES ASSUME Init
              PROVE  BillingInv
  OBVIOUS
<1>1. now \in 0 .. LastMonth
  BY BillingAssumption DEF Init
<1>2. /\ handler \in [Handlers -> Webhook]
      /\ \A h \in Handlers : handler[h].pc = "idle"
  BY RestingIsAWebhook DEF Init
<1>. QED  BY <1>1, <1>2 DEF Init, BillingInv

LEMMA BillingStep == BillingInv /\ [Next]_vars => BillingInv'
<1>. SUFFICES ASSUME BillingInv, [Next]_vars
              PROVE  BillingInv'
  OBVIOUS
<1>1. CASE Tick \/ BuyOnce
  BY <1>1, TickStep, BuyOnceStep
<1>2. ASSUME NEW s \in Subs, Subscribe(s) \/ Renew(s) \/ ChangePlan(s) \/ Cancel(s)
      PROVE  BillingInv'
  BY <1>2, SubscribeStep, RenewStep, ChangePlanStep, CancelStep
<1>3. ASSUME NEW e \in outbox, Resend(e)
      PROVE  BillingInv'
  BY <1>3, ResendStep
<1>4. ASSUME NEW h \in Handlers, (\E e \in outbox : Deliver(h, e)) \/ Request(h) \/ HandlerFails(h)
      PROVE  BillingInv'
  BY <1>4, DeliverStep, LookUpClaimStep, ClaimStep, MatchUserStep, GrantOrderStep,
     UpsertSubscriptionStep, HandlerFailsStep DEF Request
<1>5. ASSUME NEW i \in Instances, StartJob(i) \/ GrantMonth(i) \/ GrantMonthFails(i) \/ JobCrashes(i)
      PROVE  BillingInv'
  BY <1>5, StartJobStep, GrantMonthStep, GrantMonthFailsStep, JobCrashesStep
<1>6. CASE UNCHANGED vars
  <2>1. UNCHANGED <<world, claimed, row, granted, handler, job>>
    BY <1>6 DEF vars, world
  <2>. QED  BY <2>1, JobStep DEF BillingInv
<1>. QED  BY <1>1, <1>2, <1>3, <1>4, <1>5, <1>6 DEF Next

(* Every event, row and key of the billing code is about a period that its
   subscription has had and a month of it that has begun: the inductive
   invariant (polar-webhook.controller.ts, annual-allowance.scheduler.ts).  *)
THEOREM BillingInvHolds == Spec => []BillingInv
BY BillingInit, BillingStep, PTL DEF Spec

(* What the handlers and the job store has its type, and no delivery or
   claim is of a webhook-id that Polar has not used.                        *)
THEOREM TypeOKHolds == Spec => []TypeOK
<1>1. BillingInv => TypeOK
  <2>. SUFFICES ASSUME BillingInv
                PROVE  TypeOK
    OBVIOUS
  <2>1. \A s \in Subs : /\ polar[s] # None => Snapshot(polar[s]) \in Subscription /\ polar[s].first \in Nat
                        /\ row[s] # None => row[s] \in Subscription
    BY DEF BillingInv, Polar, Snapshot, Subscription
  <2>2. \A e \in outbox : e.sub \in Subs \cup {None} /\ e.id \in 1 .. sent
    BY DEF BillingInv, SoundEvents, OrderEvent, ChangeEvent
  <2>3. \A h \in Handlers : handler[h].pc \in {"idle", "exists", "claim", "match", "grant", "upsert"}
    BY DEF BillingInv, Webhook
  <2>. QED  BY <2>1, <2>2, <2>3 DEF BillingInv, TypeOK
<1>. QED  BY <1>1, BillingInvHolds, PTL

-----------------------------------------------------------------------------
(* The months of all periods, numbered from the first one's beginning, are
   told apart by period and month.                                         *)
LEMMA LaterPeriodLaterMonth ==
    ASSUME NEW k \in Nat, NEW l \in Nat, NEW p \in Nat, k < l
    PROVE  k * p + p <= l * p
<1>1. PICK d \in Nat : l = k + 1 + d
  <2>1. l - k - 1 \in Nat /\ l = k + 1 + (l - k - 1)
    OBVIOUS
  <2>. QED  BY <2>1
<1>2. l * p = k * p + p + d * p
  BY <1>1, SMT
<1>3. d * p \in Nat /\ k * p \in Nat
  BY SMT
<1>. QED  BY <1>2, <1>3, SMT

LEMMA MonthsAreApart ==
    ASSUME NEW k \in Nat, NEW l \in Nat, NEW p \in Nat, NEW m \in Nat, NEW n \in Nat,
           m < p, n < p, k * p + m = l * p + n
    PROVE  k = l /\ m = n
<1>1. k * p \in Nat /\ l * p \in Nat
  BY SMT
<1>2. ~ k < l
  BY <1>1, LaterPeriodLaterMonth
<1>3. ~ l < k
  BY <1>1, LaterPeriodLaterMonth
<1>. QED  BY <1>1, <1>2, <1>3

(* Which month of the subscription a key is for.                           *)
MonthOf(key) == key.start + key.month - polar[key.sub].first

LEMMA MonthOfIsOne ==
    ASSUME BillingInv, NEW key \in SoundKeys
    PROVE  /\ key.sub \in Subs /\ key.start \in Nat /\ key.month \in Nat
           /\ polar[key.sub] # None /\ MonthOf(key) \in 0 .. MonthsBegun(key.sub) - 1
<1>1. /\ key.sub \in Subs /\ key.start \in Nat /\ key.month \in Nat /\ key.start \in Starts(key.sub)
      /\ key.month < PeriodOf[key.sub] /\ key.start + key.month <= now
  BY DEF SoundKeys, Key
<1>2. polar[key.sub] # None
  BY <1>1 DEF Starts
<1>3. /\ polar[key.sub].start \in Nat /\ polar[key.sub].first \in Nat /\ now \in Nat
      /\ PeriodOf[key.sub] \in Nat
  BY <1>1, <1>2, PolarOf, BillingAssumption DEF BillingInv
<1>4. polar[key.sub].first <= key.start /\ key.start <= polar[key.sub].start
  BY <1>1, <1>2, <1>3 DEF Starts
<1>. QED  BY <1>1, <1>2, <1>3, <1>4 DEF MonthOf, MonthsBegun

LEMMA OneKeyPerMonth ==
    ASSUME BillingInv, NEW key \in SoundKeys, NEW other \in SoundKeys,
           key.sub = other.sub, MonthOf(key) = MonthOf(other)
    PROVE  key = other
<1>. DEFINE s == key.sub
<1>1. /\ s \in Subs /\ polar[s] # None /\ key.start \in Nat /\ key.month \in Nat
      /\ other.start \in Nat /\ other.month \in Nat
  BY MonthOfIsOne
<1>2. /\ key.start \in Starts(s) /\ other.start \in Starts(s)
      /\ key.month < PeriodOf[s] /\ other.month < PeriodOf[s]
  BY DEF SoundKeys
<1>3. PICK k \in 0 .. now : key.start = polar[s].first + k * PeriodOf[s]
  BY <1>1, <1>2 DEF Starts
<1>4. PICK l \in 0 .. now : other.start = polar[s].first + l * PeriodOf[s]
  BY <1>1, <1>2 DEF Starts
<1>5. /\ k \in Nat /\ l \in Nat /\ PeriodOf[s] \in Nat /\ polar[s].first \in Nat
  BY <1>1, PolarOf, PeriodIsPositive, BillingAssumption DEF BillingInv
<1>6. k * PeriodOf[s] \in Nat /\ l * PeriodOf[s] \in Nat
  BY <1>5, SMT
<1>7. k * PeriodOf[s] + key.month = l * PeriodOf[s] + other.month
  <2>1. key.start + key.month - polar[s].first = other.start + other.month - polar[s].first
    BY DEF MonthOf
  <2>2. key.start + key.month = other.start + other.month
    BY <2>1, <1>1, <1>5
  <2>. QED  BY <2>2, <1>1, <1>3, <1>4, <1>5, <1>6
<1>8. k = l /\ key.month = other.month
  <2>1. PICK p \in Nat : p = PeriodOf[s]
    BY <1>5
  <2>2. PICK m \in Nat : m = key.month
    BY <1>1
  <2>3. PICK n \in Nat : n = other.month
    BY <1>1
  <2>4. m < p /\ n < p /\ k * p + m = l * p + n
    BY <1>2, <1>7, <2>1, <2>2, <2>3, Zenon
  <2>5. k \in Nat /\ l \in Nat
    BY <1>5
  <2>6. k = l /\ m = n
    BY <2>4, <2>5, MonthsAreApart
  <2>. QED  BY <2>2, <2>3, <2>6
<1>9. key.start = other.start
  BY <1>3, <1>4, <1>8
<1>10. key.reason = other.reason
  BY <1>8, <1>9 DEF SoundKeys
<1>11. key \in Key /\ other \in Key
  BY DEF SoundKeys
<1>. QED  BY <1>8, <1>9, <1>10, <1>11 DEF Key

(* Nobody is granted more months than they paid for and have entered: for
   any number of concurrent deliveries and of instances running the job.
   The grants of a subscription are told apart by their month, and there are
   only so many months (polar-webhook.controller.ts, annual-allowance
   .scheduler.ts).                                                         *)
THEOREM NoMonthTwiceHolds == Spec => []NoMonthTwice
<1>0. ASSUME BillingInv, NEW key \in granted PROVE key.sub # None
  <2>1. key \in SoundKeys
    BY <1>0 DEF BillingInv
  <2>2. key.sub \in Subs
    BY <2>1 DEF SoundKeys, Key
  <2>. QED  BY <2>2, BillingAssumption
<1>1. BillingInv => NoMonthTwice
  <2>. SUFFICES ASSUME BillingInv, NEW s \in Subs
                PROVE  Cardinality({key \in granted : key.sub = s}) <= MonthsBegun(s)
    BY <1>0 DEF NoMonthTwice
  <2>. DEFINE keys == {key \in granted : key.sub = s}
              months == 0 .. MonthsBegun(s) - 1
              month == [key \in keys |-> MonthOf(key)]
  <2>1. \A key \in keys : key \in SoundKeys /\ key.sub = s
    BY DEF BillingInv
  <2>2. MonthsBegun(s) \in Nat
    <3>1. CASE polar[s] = None
      BY <3>1 DEF MonthsBegun
    <3>2. CASE polar[s] # None
      <4>1. /\ polar[s].start \in Nat /\ polar[s].first \in Nat /\ now \in Nat
            /\ PeriodOf[s] \in Nat /\ PeriodOf[s] > 0 /\ polar[s].start <= now
        BY <3>2, PolarOf, PeriodIsPositive, BillingAssumption DEF BillingInv
      <4>2. polar[s].first <= polar[s].start
        <5>1. polar[s].start \in Starts(s)
          BY <3>2 DEF BillingInv
        <5>. QED  BY <5>1, <3>2, <4>1 DEF Starts
      <4>. QED  BY <3>2, <4>1, <4>2 DEF MonthsBegun
    <3>. QED  BY <3>1, <3>2
  <2>3. month \in [keys -> months]
    BY <2>1, MonthOfIsOne
  <2>4. \A key, other \in keys : month[key] = month[other] => key = other
    BY <2>1, OneKeyPerMonth
  <2>5. month \in Injection(keys, months)
    BY <2>3, <2>4 DEF Injection, IsInjective
  <2>6. IsFiniteSet(months) /\ Cardinality(months) = MonthsBegun(s)
    BY <2>2, FS_Interval
  <2>. HIDE DEF keys, months, month
  <2>7. Cardinality(keys) <= Cardinality(months)
    BY <2>5, <2>6, FS_Injection
  <2>. QED  BY <2>6, <2>7 DEF keys
<1>. QED  BY <1>1, BillingInvHolds, PTL

-----------------------------------------------------------------------------
(* An order that is claimed stays in hand until it is granted.             *)
InHand(h) == handler[h].pc \in {"match", "grant"}

HandsOn ==
    /\ granted \subseteq granted'
    /\ \A h \in Handlers : InHand(h) =>
          \/ InHand(h)' /\ handler'[h].event = handler[h].event
          \/ OrderKey(handler[h].event) \in granted'

LEMMA SettledStays ==
    ASSUME HandsOn, NEW s, NEW start, Settled(s, start)
    PROVE  Settled(s, start)'
<1>1. CASE \E key \in granted : key.sub = s /\ key.start = start /\ key.month = 0
  BY <1>1 DEF HandsOn, Settled
<1>2. CASE \E h \in Handlers : InHand(h) /\ handler[h].event.sub = s /\ handler[h].event.start = start
  <2>1. PICK h \in Handlers : InHand(h) /\ handler[h].event.sub = s /\ handler[h].event.start = start
    BY <1>2
  <2>2. CASE InHand(h)' /\ handler'[h].event = handler[h].event
    BY <2>1, <2>2 DEF Settled, InHand
  <2>3. CASE OrderKey(handler[h].event) \in granted'
    BY <2>1, <2>3 DEF Settled, OrderKey
  <2>. QED  BY <2>1, <2>2, <2>3 DEF HandsOn
<1>. QED  BY <1>1, <1>2 DEF Settled, InHand

LEMMA EventsAreSound ==
    ASSUME BillingInv, NEW e \in Events
    PROVE  e \in SoundEvents /\ e.id \in 1 .. sent
BY DEF BillingInv, Events, SoundEvents

(* A first or current period that was not there before has its order among
   the new events.                                                         *)
OrdersFor(new) ==
    \A s \in Subs : polar'[s] # None => \A start \in {polar'[s].first, polar'[s].start} :
       \/ polar[s] # None /\ start \in {polar[s].first, polar[s].start}
       \/ \E e \in new : Earns(e) /\ e.sub = s /\ e.start = start

(* Polar adds events under webhook-ids of their own, and an order whenever
   a period begins.                                                        *)
LEMMA NewEvents ==
    ASSUME BillingInv, AnsweringInv, UNCHANGED <<claimed, granted, handler>>,
           NEW new, outbox' = outbox \cup new,
           \A e \in new : e.id \in Nat /\ e.id > sent,
           \A e, f \in new : e.id = f.id => e = f, OrdersFor(new)
    PROVE  AnsweringInv'
<1>1. Events' = Events \cup new
  BY DEF Events
<1>2. HandsOn
  BY DEF HandsOn, InHand
<1>3. \A e \in Events : e.id \in 1 .. sent
  BY EventsAreSound
<1>4. sent \in Nat /\ claimed \subseteq 1 .. sent
  BY DEF BillingInv
<1>5. \A e, f \in Events' : e.id = f.id => e = f
  <2>1. \A e, f \in Events : e.id = f.id => e = f
    BY DEF AnsweringInv
  <2>2. \A e \in Events, f \in new : e.id # f.id
    BY <1>3, <1>4
  <2>. QED  BY <1>1, <2>1, <2>2
<1>6. ASSUME NEW e \in Events', Earns(e), e.id \in claimed'
      PROVE  Settled(e.sub, e.start)'
  <2>1. e \in Events
    BY <1>1, <1>4, <1>6
  <2>2. Settled(e.sub, e.start)
    BY <2>1, <1>6 DEF AnsweringInv
  <2>. QED  BY <2>2, <1>2, SettledStays
<1>7. ASSUME NEW s \in Subs, polar'[s] # None, NEW start \in {polar'[s].first, polar'[s].start}
      PROVE  Ordered(s, start)' \/ Settled(s, start)'
  <2>1. CASE polar[s] # None /\ start \in {polar[s].first, polar[s].start}
    <3>1. Ordered(s, start) \/ Settled(s, start)
      BY <2>1 DEF AnsweringInv
    <3>2. CASE Ordered(s, start)
      BY <3>2 DEF Ordered, Earns, GrantsAllowance
    <3>3. CASE Settled(s, start)
      BY <3>3, <1>2, SettledStays
    <3>. QED  BY <3>1, <3>2, <3>3
  <2>2. CASE \E e \in new : Earns(e) /\ e.sub = s /\ e.start = start
    BY <2>2 DEF Ordered, Earns, GrantsAllowance
  <2>. QED  BY <1>7, <2>1, <2>2 DEF OrdersFor
<1>8. \A e \in Events' : Earns(e)' /\ e.id \in claimed' => Settled(e.sub, e.start)'
  BY <1>6 DEF Earns, GrantsAllowance
<1>. QED  BY <1>5, <1>7, <1>8 DEF AnsweringInv

(* A request takes no event in hand that is not there, and leaves no order
   behind that earns a month and is not settled.                           *)
LEMMA Answering ==
    ASSUME AnsweringInv, HandsOn, UNCHANGED polar, Events' \subseteq Events,
           \A e \in Events : Earns(e) /\ e.id \in claimed' /\ e.id \notin claimed
                                => Settled(e.sub, e.start)',
           \A e \in outbox : Earns(e) /\ e \notin outbox' => Settled(e.sub, e.start)'
    PROVE  AnsweringInv'
<1>1. \A e, f \in Events' : e.id = f.id => e = f
  BY DEF AnsweringInv
<1>2. ASSUME NEW e \in Events', Earns(e), e.id \in claimed'
      PROVE  Settled(e.sub, e.start)'
  <2>1. CASE e.id \in claimed
    <3>1. Settled(e.sub, e.start)
      BY <1>2, <2>1 DEF AnsweringInv
    <3>. QED  BY <3>1, SettledStays
  <2>2. CASE e.id \notin claimed
    BY <1>2, <2>2
  <2>. QED  BY <2>1, <2>2
<1>3. \A e \in Events' : Earns(e)' /\ e.id \in claimed' => Settled(e.sub, e.start)'
  BY <1>2 DEF Earns, GrantsAllowance
<1>4. ASSUME NEW s \in Subs, polar'[s] # None, NEW start \in {polar'[s].first, polar'[s].start}
      PROVE  Ordered(s, start)' \/ Settled(s, start)'
  <2>1. Ordered(s, start) \/ Settled(s, start)
    BY <1>4 DEF AnsweringInv
  <2>2. CASE Ordered(s, start)
    <3>1. PICK e \in outbox : Earns(e) /\ e.sub = s /\ e.start = start
      BY <2>2 DEF Ordered
    <3>2. CASE e \in outbox'
      BY <3>1, <3>2 DEF Ordered, Earns, GrantsAllowance
    <3>3. CASE e \notin outbox'
      BY <3>1, <3>3
    <3>. QED  BY <3>2, <3>3
  <2>3. CASE Settled(s, start)
    BY <2>3, SettledStays
  <2>. QED  BY <2>1, <2>2, <2>3
<1>. QED  BY <1>1, <1>3, <1>4 DEF AnsweringInv

(* The events after a step of one request.                                 *)
LEMMA EventsAfter ==
    ASSUME BillingInv, NEW h \in Handlers, NEW w \in Webhook,
           handler' = [handler EXCEPT ![h] = w], outbox' \subseteq outbox,
           w.pc # "idle" => w.event \in Events
    PROVE  Events' \subseteq Events
<1>1. ASSUME NEW x \in Handlers, handler'[x].pc # "idle"
      PROVE  handler'[x].event \in Events
  BY <1>1 DEF BillingInv, Events
<1>. QED  BY <1>1 DEF Events

(* A request that was not at a grant leaves everything else in hand.       *)
LEMMA OthersInHand ==
    ASSUME BillingInv, NEW h \in Handlers, NEW w, handler' = [handler EXCEPT ![h] = w],
           granted \subseteq granted',
           \/ ~ InHand(h)
           \/ w.pc \in {"match", "grant"} /\ w.event = handler[h].event
           \/ OrderKey(handler[h].event) \in granted'
    PROVE  HandsOn
<1>. SUFFICES ASSUME NEW x \in Handlers, InHand(x)
              PROVE  \/ InHand(x)' /\ handler'[x].event = handler[x].event
                     \/ OrderKey(handler[x].event) \in granted'
  BY DEF HandsOn
<1>1. CASE x = h
  BY <1>1 DEF InHand, BillingInv
<1>2. CASE x # h
  BY <1>2 DEF InHand, BillingInv
<1>. QED  BY <1>1, <1>2

(* Only the events with the answered webhook-id leave the outbox.          *)
LEMMA AnsweredOnly ==
    ASSUME AnsweringInv, NEW h \in Handlers, handler[h].pc # "idle", Answer(h),
           NEW e \in outbox, e \notin outbox'
    PROVE  e = handler[h].event
<1>1. e \in Events /\ handler[h].event \in Events
  BY DEF Events
<1>2. e.id = handler[h].event.id
  BY DEF Answer
<1>. QED  BY <1>1, <1>2 DEF AnsweringInv

(* Answering an event that earns nothing, or whose month is settled.       *)
LEMMA AnswerKeeps ==
    ASSUME BillingInv, AnsweringInv, NEW h \in Handlers, handler[h].pc # "idle", Answer(h),
           granted \subseteq granted',
           claimed' \in {claimed, claimed \cup {handler[h].event.id}},
           ~ InHand(h) \/ OrderKey(handler[h].event) \in granted',
           \A e \in Events : e = handler[h].event /\ Earns(e) => Settled(e.sub, e.start)'
    PROVE  AnsweringInv'
<1>1. /\ handler' = [handler EXCEPT ![h] = Resting]
      /\ outbox' \subseteq outbox /\ UNCHANGED polar
  BY DEF Answer
<1>2. HandsOn
  BY <1>1, OthersInHand
<1>3. Events' \subseteq Events
  BY <1>1, RestingIsAWebhook, EventsAfter
<1>4. handler[h].event \in Events /\ \A e \in outbox : e \in Events
  BY DEF Events
<1>5. \A e \in Events : Earns(e) /\ e.id \in claimed' /\ e.id \notin claimed => Settled(e.sub, e.start)'
  BY <1>4 DEF AnsweringInv
<1>6. \A e \in outbox : Earns(e) /\ e \notin outbox' => Settled(e.sub, e.start)'
  BY <1>4, AnsweredOnly
<1>. QED  BY <1>1, <1>2, <1>3, <1>5, <1>6, Answering

LEMMA DeliverAnswers ==
    ASSUME BillingInv, AnsweringInv, NEW h \in Handlers, NEW e \in outbox, Deliver(h, e)
    PROVE  AnsweringInv'
<1>1. UNCHANGED <<polar, outbox, claimed, granted>> /\ handler[h].pc = "idle"
  BY DEF Deliver, world
<1>2. PICK w : w = [pc |-> "exists", event |-> e]
  OBVIOUS
<1>3. e \in Events /\ e \in SoundEvents
  BY DEF Events, BillingInv
<1>4. w \in Webhook /\ w.event = e
  BY <1>2, <1>3 DEF Webhook, SoundEvents
<1>5. handler' = [handler EXCEPT ![h] = w]
  BY <1>2 DEF Deliver
<1>6. HandsOn
  BY <1>1, <1>5, OthersInHand DEF InHand
<1>7. Events' \subseteq Events
  BY <1>1, <1>3, <1>4, <1>5, EventsAfter
<1>. QED  BY <1>1, <1>6, <1>7, Answering

LEMMA LookUpClaimAnswers ==
    ASSUME BillingInv, AnsweringInv, NEW h \in Handlers, LookUpClaim(h)
    PROVE  AnsweringInv'
<1>1. UNCHANGED <<claimed, row, granted, job>> /\ handler[h].pc = "exists"
  BY DEF LookUpClaim
<1>2. CASE handler[h].event.id \in claimed
  <2>1. Answer(h) /\ ~ InHand(h)
    BY <1>1, <1>2 DEF LookUpClaim, InHand
  <2>2. UNCHANGED handler \/ handler' = [handler EXCEPT ![h] = Resting]
    BY <2>1 DEF Answer
  <2>3. HandsOn
    BY <1>1, <2>1, <2>2, OthersInHand DEF HandsOn, Answer
  <2>4. ASSUME NEW e \in Events, e = handler[h].event, Earns(e)
        PROVE  Settled(e.sub, e.start)'
    <3>1. Settled(e.sub, e.start)
      BY <1>2, <2>4 DEF AnsweringInv
    <3>. QED  BY <2>3, <3>1, SettledStays
  <2>. QED  BY <1>1, <2>1, <2>4, AnswerKeeps
<1>3. CASE handler[h].event.id \notin claimed
  <2>1. Step(h, "claim") /\ UNCHANGED world
    BY <1>3 DEF LookUpClaim
  <2>2. PICK w \in Webhook : /\ handler' = [handler EXCEPT ![h] = w]
                             /\ w.pc = "claim" /\ w.event = handler[h].event /\ w.event \in SoundEvents
    BY <1>1, <2>1, MovedHandler
  <2>3. HandsOn
    BY <1>1, <2>2, OthersInHand DEF InHand
  <2>4. Events' \subseteq Events
    BY <1>1, <2>1, <2>2, EventsAfter DEF Events, world
  <2>. QED  BY <1>1, <2>1, <2>3, <2>4, Answering DEF world
<1>. QED  BY <1>2, <1>3

LEMMA ClaimAnswers ==
    ASSUME BillingInv, AnsweringInv, NEW h \in Handlers, Claim(h)
    PROVE  AnsweringInv'
<1>1. /\ UNCHANGED <<row, granted, job>> /\ handler[h].pc = "claim" /\ ~ InHand(h)
      /\ claimed' = claimed \cup {handler[h].event.id}
  BY DEF Claim, InHand
<1>2. PICK e : e = handler[h].event
  OBVIOUS
<1>3. e \in Events /\ e \in SoundEvents
  BY <1>1, <1>2 DEF BillingInv, Events
<1>4. CASE e.id \in claimed \/ (e.type = "order.paid" /\ ~ GrantsAllowance(e))
  <2>1. Answer(h)
    BY <1>2, <1>4 DEF Claim
  <2>2. HandsOn
    BY <1>1, <2>1, OthersInHand DEF Answer
  <2>3. Earns(e) => Settled(e.sub, e.start)'
    <3>. SUFFICES ASSUME Earns(e)
                  PROVE  Settled(e.sub, e.start)'
      OBVIOUS
    <3>1. e.id \in claimed
      BY <1>4 DEF Earns
    <3>2. Settled(e.sub, e.start)
      BY <1>3, <3>1 DEF AnsweringInv
    <3>. QED  BY <2>2, <3>2, SettledStays
  <2>. QED  BY <1>1, <1>2, <2>1, <2>3, AnswerKeeps
<1>5. CASE ~ (e.id \in claimed \/ (e.type = "order.paid" /\ ~ GrantsAllowance(e)))
  <2>1. PICK pc : pc = IF e.type = "order.paid" THEN "match" ELSE "upsert"
    OBVIOUS
  <2>2. Step(h, pc) /\ UNCHANGED world /\ pc \in {"match", "upsert"}
    BY <1>2, <1>5, <2>1 DEF Claim
  <2>3. PICK w \in Webhook : /\ handler' = [handler EXCEPT ![h] = w]
                             /\ w.pc = pc /\ w.event = handler[h].event /\ w.event \in SoundEvents
    BY <1>1, <2>2, MovedHandler
  <2>4. HandsOn
    BY <1>1, <2>3, OthersInHand
  <2>5. Events' \subseteq Events
    BY <1>2, <1>3, <2>2, <2>3, EventsAfter DEF world
  <2>6. ASSUME NEW f \in Events, Earns(f), f.id \in claimed', f.id \notin claimed
        PROVE  Settled(f.sub, f.start)'
    <3>1. f = e
      BY <1>1, <1>2, <1>3, <2>6 DEF AnsweringInv
    <3>2. pc = "match"
      BY <2>1, <2>6, <3>1 DEF Earns, OrderEvent
    <3>3. handler'[h] = w
      BY <2>3 DEF BillingInv
    <3>. QED  BY <1>2, <2>3, <3>1, <3>2, <3>3 DEF Settled
  <2>. QED  BY <1>1, <2>2, <2>4, <2>5, <2>6, Answering DEF world
<1>. QED  BY <1>4, <1>5

LEMMA MatchUserAnswers ==
    ASSUME BillingInv, AnsweringInv, FALSE \notin OrderMetadata, NEW h \in Handlers, MatchUser(h)
    PROVE  AnsweringInv'
<1>1. UNCHANGED <<claimed, row, granted, job>> /\ handler[h].pc = "match"
  BY DEF MatchUser
<1>2. handler[h].event.carriesUser
  BY <1>1, BillingAssumption DEF BillingInv, Earns, OrderEvent
<1>3. Step(h, "grant") /\ UNCHANGED world
  BY <1>2 DEF MatchUser
<1>4. PICK w \in Webhook : /\ handler' = [handler EXCEPT ![h] = w]
                           /\ w.pc = "grant" /\ w.event = handler[h].event /\ w.event \in SoundEvents
  BY <1>1, <1>3, MovedHandler
<1>5. HandsOn
  BY <1>1, <1>4, OthersInHand
<1>6. Events' \subseteq Events
  BY <1>1, <1>3, <1>4, EventsAfter DEF Events, world
<1>. QED  BY <1>1, <1>3, <1>5, <1>6, Answering DEF world

LEMMA GrantOrderAnswers ==
    ASSUME BillingInv, AnsweringInv, NEW h \in Handlers, GrantOrder(h)
    PROVE  AnsweringInv'
<1>1. /\ handler[h].pc = "grant" /\ UNCHANGED claimed /\ Answer(h)
      /\ granted' = granted \cup {OrderKey(handler[h].event)}
  BY DEF GrantOrder
<1>2. \A e \in Events : e = handler[h].event /\ Earns(e) => Settled(e.sub, e.start)'
  <2>. SUFFICES ASSUME NEW e \in Events, e = handler[h].event
                PROVE  Settled(e.sub, e.start)'
    OBVIOUS
  <2>1. PICK key : key = OrderKey(e)
    OBVIOUS
  <2>2. key.sub = e.sub /\ key.start = e.start /\ key.month = 0
    BY <2>1 DEF OrderKey
  <2>3. key \in granted'
    BY <1>1, <2>1
  <2>. QED  BY <2>2, <2>3 DEF Settled
<1>. QED  BY <1>1, <1>2, AnswerKeeps

LEMMA UpsertSubscriptionAnswers ==
    ASSUME BillingInv, AnsweringInv, NEW h \in Handlers, UpsertSubscription(h)
    PROVE  AnsweringInv'
<1>1. handler[h].pc = "upsert" /\ UNCHANGED <<claimed, granted>> /\ Answer(h)
  BY DEF UpsertSubscription
<1>2. handler[h].event \in ChangeEvent
  BY <1>1 DEF BillingInv
<1>3. ~ InHand(h)
  BY <1>1 DEF InHand
<1>4. \A e \in Events : e = handler[h].event => ~ Earns(e)
  BY <1>2 DEF Earns, OrderEvent, ChangeEvent
<1>. QED  BY <1>1, <1>3, <1>4, AnswerKeeps

LEMMA HandlerFailsAnswers ==
    ASSUME BillingInv, AnsweringInv, FailsAt \subseteq {"exists", "claim"},
           NEW h \in Handlers, HandlerFails(h)
    PROVE  AnsweringInv'
<1>1. UNCHANGED <<polar, outbox, claimed, granted>> /\ handler' = [handler EXCEPT ![h] = Resting]
  BY DEF HandlerFails, world
<1>2. ~ InHand(h)
  BY DEF HandlerFails, InHand
<1>3. HandsOn
  BY <1>1, <1>2, OthersInHand
<1>4. Events' \subseteq Events
  BY <1>1, RestingIsAWebhook, EventsAfter
<1>. QED  BY <1>1, <1>3, <1>4, Answering

LEMMA JobAnswers ==
    ASSUME AnsweringInv, UNCHANGED <<polar, outbox, claimed, handler>>, granted \subseteq granted'
    PROVE  AnsweringInv'
<1>1. HandsOn
  BY DEF HandsOn, InHand
<1>2. Events' = Events
  BY DEF Events
<1>. QED  BY <1>1, <1>2, Answering

LEMMA ChangedAnswers ==
    ASSUME BillingInv, AnsweringInv, NEW s \in Subs, NEW sub \in Polar, NEW reason,
           Changed(s, sub, reason),
           reason \in {"purchase", "subscription_cycle", None},
           \/ reason = None /\ polar[s] # None /\ sub.start = polar[s].start
           \/ reason # None /\ polar[s] # None
           \/ reason # None /\ sub.start = sub.first,
           polar[s] # None => sub.first = polar[s].first
    PROVE  AnsweringInv'
<1>1. sent \in Nat /\ UNCHANGED <<claimed, granted, handler>> /\ polar' = [polar EXCEPT ![s] = sub]
  BY DEF BillingInv, Changed
<1>2. PICK change : change = SubscriptionEvent(s, sub, sent + 1)
  OBVIOUS
<1>3. change.id = sent + 1
  BY <1>2 DEF SubscriptionEvent
<1>4. CASE reason = None
  <2>1. outbox' = outbox \cup {change}
    BY <1>2, <1>4 DEF Changed
  <2>2. PICK new : new = {change}
    OBVIOUS
  <2>3. OrdersFor(new)
    BY <1>1, <1>4 DEF BillingInv, OrdersFor
  <2>4. outbox' = outbox \cup new /\ \A e \in new : e.id \in Nat /\ e.id > sent
    BY <1>1, <1>3, <2>1, <2>2
  <2>5. \A e, f \in new : e.id = f.id => e = f
    BY <2>2
  <2>. QED  BY <1>1, <2>3, <2>4, <2>5, NewEvents
<1>5. CASE reason # None
  <2>1. PICK carriesUser \in OrderMetadata :
           outbox' = outbox \cup {SubscriptionEvent(s, sub, sent + 1),
                                  OrderPaid(s, sub.start, reason, sent + 2, carriesUser)}
    BY <1>5 DEF Changed
  <2>2. PICK order : order = OrderPaid(s, sub.start, reason, sent + 2, carriesUser)
    OBVIOUS
  <2>3. outbox' = outbox \cup {change, order}
    BY <1>2, <2>1, <2>2
  <2>4. order.id = sent + 2 /\ order.sub = s /\ order.start = sub.start
    BY <2>2 DEF OrderPaid
  <2>5. Earns(order)
    BY <1>1, <1>5, <2>2, BillingAssumption DEF OrderPaid, Earns, GrantsAllowance, OrderEvent, Polar
  <2>. PICK new : new = {change, order}
    OBVIOUS
  <2>6. OrdersFor(new)
    <3>. SUFFICES ASSUME NEW x \in Subs, polar'[x] # None,
                         NEW start \in {polar'[x].first, polar'[x].start}
                  PROVE  \/ polar[x] # None /\ start \in {polar[x].first, polar[x].start}
                         \/ Earns(order) /\ order.sub = x /\ order.start = start
      BY DEF OrdersFor
    <3>1. CASE x = s
      <4>1. polar'[x] = sub
        BY <3>1, <1>1 DEF BillingInv
      <4>. QED  BY <3>1, <4>1, <1>5, <2>4, <2>5
    <3>2. CASE x # s
      BY <3>2, <1>1 DEF BillingInv
    <3>. QED  BY <3>1, <3>2
  <2>7. outbox' = outbox \cup new /\ \A e \in new : e.id \in Nat /\ e.id > sent
    BY <1>1, <1>3, <2>3, <2>4
  <2>8. \A e, f \in new : e.id = f.id => e = f
    BY <1>1, <1>3, <2>4
  <2>. QED  BY <1>1, <2>6, <2>7, <2>8, NewEvents
<1>. QED  BY <1>4, <1>5

LEMMA BesidesAnswers ==
    ASSUME BillingInv, AnsweringInv, NEW s, NEW start, NEW reason, OrderedBesides(s, start, reason)
    PROVE  AnsweringInv'
<1>1. UNCHANGED <<polar, claimed, granted, handler>> /\ sent \in Nat
  BY DEF OrderedBesides, BillingInv
<1>2. PICK carriesUser \in OrderMetadata :
         outbox' = outbox \cup {OrderPaid(s, start, reason, sent + 1, carriesUser)}
  BY DEF OrderedBesides
<1>3. PICK order : order = OrderPaid(s, start, reason, sent + 1, carriesUser)
  OBVIOUS
<1>4. order.id = sent + 1 /\ outbox' = outbox \cup {order}
  BY <1>2, <1>3 DEF OrderPaid
<1>5. PICK new : new = {order}
  OBVIOUS
<1>6. outbox' = outbox \cup new /\ \A e \in new : e.id \in Nat /\ e.id > sent
  BY <1>1, <1>4, <1>5
<1>7. \A e, f \in new : e.id = f.id => e = f
  BY <1>5
<1>8. OrdersFor(new)
  BY <1>1 DEF OrdersFor
<1>. QED  BY <1>1, <1>6, <1>7, <1>8, NewEvents

LEMMA PolarAnswers ==
    ASSUME BillingInv, AnsweringInv, NEW s \in Subs,
           Subscribe(s) \/ Renew(s) \/ ChangePlan(s) \/ Cancel(s)
    PROVE  AnsweringInv'
<1>1. CASE Subscribe(s)
  <2>1. PICK sub : sub = [status |-> "active", start |-> now, first |-> now]
    OBVIOUS
  <2>2. sub \in Polar /\ sub.start = sub.first
    BY <2>1, BillingAssumption DEF Polar, BillingInv
  <2>3. Changed(s, sub, "purchase") /\ polar[s] = None
    BY <1>1, <2>1 DEF Subscribe
  <2>. QED  BY <2>2, <2>3, NoneIsApart, ChangedAnswers
<1>2. CASE Renew(s)
  <2>1. PICK sub : sub = [polar[s] EXCEPT !.start = @ + PeriodOf[s]]
    OBVIOUS
  <2>2. Changed(s, sub, "subscription_cycle") /\ polar[s] # None
    BY <1>2, <2>1 DEF Renew
  <2>3. sub \in Polar /\ sub.first = polar[s].first
    BY <2>1, <2>2, PolarOf, PeriodIsPositive DEF Polar, BillingInv
  <2>. QED  BY <2>2, <2>3, NoneIsApart, ChangedAnswers
<1>3. CASE Cancel(s)
  <2>1. PICK sub : sub = [polar[s] EXCEPT !.status = "canceled"]
    OBVIOUS
  <2>2. Changed(s, sub, None) /\ polar[s] # None
    BY <1>3, <2>1 DEF Cancel
  <2>3. sub \in Polar /\ sub.first = polar[s].first /\ sub.start = polar[s].start
    BY <2>1, <2>2, PolarOf DEF Polar, BillingInv
  <2>. QED  BY <2>2, <2>3, ChangedAnswers
<1>4. CASE ChangePlan(s)
  BY <1>4, BesidesAnswers DEF ChangePlan
<1>. QED  BY <1>1, <1>2, <1>3, <1>4

LEMMA ResendAnswers ==
    ASSUME BillingInv, AnsweringInv, NEW e \in outbox, Resend(e)
    PROVE  AnsweringInv'
<1>1. UNCHANGED <<polar, claimed, granted, handler>> /\ sent \in Nat
  BY DEF Resend, BillingInv
<1>2. PICK again : again = [e EXCEPT !.id = sent + 1]
  OBVIOUS
<1>3. outbox' = outbox \cup {again}
  BY <1>2 DEF Resend
<1>4. e \in OrderEvent
  BY DEF Resend, BillingInv, SoundEvents, ChangeEvent
<1>5. again.id = sent + 1
  BY <1>2, <1>4 DEF OrderEvent
<1>6. PICK new : new = {again}
  OBVIOUS
<1>7. outbox' = outbox \cup new /\ \A f \in new : f.id \in Nat /\ f.id > sent
  BY <1>1, <1>3, <1>5, <1>6
<1>8. \A f, g \in new : f.id = g.id => f = g
  BY <1>6
<1>9. OrdersFor(new)
  BY <1>1 DEF OrdersFor
<1>. QED  BY <1>1, <1>7, <1>8, <1>9, NewEvents

LEMMA AnsweringStep ==
    ASSUME FailsAt \subseteq {"exists", "claim"}, FALSE \notin OrderMetadata
    PROVE  BillingInv /\ AnsweringInv /\ [Next]_vars => AnsweringInv'
<1>. SUFFICES ASSUME BillingInv, AnsweringInv, [Next]_vars
              PROVE  AnsweringInv'
  OBVIOUS
<1>1. CASE Tick \/ BuyOnce
  BY <1>1, JobAnswers, BesidesAnswers DEF Tick, BuyOnce
<1>2. ASSUME NEW s \in Subs, Subscribe(s) \/ Renew(s) \/ ChangePlan(s) \/ Cancel(s)
      PROVE  AnsweringInv'
  BY <1>2, PolarAnswers
<1>3. ASSUME NEW e \in outbox, Resend(e)
      PROVE  AnsweringInv'
  BY <1>3, ResendAnswers
<1>4. ASSUME NEW h \in Handlers, (\E e \in outbox : Deliver(h, e)) \/ Request(h) \/ HandlerFails(h)
      PROVE  AnsweringInv'
  BY <1>4, DeliverAnswers, LookUpClaimAnswers, ClaimAnswers, MatchUserAnswers, GrantOrderAnswers,
     UpsertSubscriptionAnswers, HandlerFailsAnswers DEF Request
<1>5. ASSUME NEW i \in Instances, StartJob(i) \/ GrantMonth(i) \/ GrantMonthFails(i) \/ JobCrashes(i)
      PROVE  AnsweringInv'
  <2>1. UNCHANGED <<polar, outbox, claimed, handler>> /\ granted \subseteq granted'
    BY <1>5 DEF StartJob, GrantMonth, GrantMonthFails, JobCrashes, world
  <2>. QED  BY <2>1, JobAnswers
<1>6. CASE UNCHANGED vars
  BY <1>6, JobAnswers DEF vars
<1>. QED  BY <1>1, <1>2, <1>3, <1>4, <1>5, <1>6 DEF Next

LEMMA AnsweringInit == Init => AnsweringInv
BY DEF Init, AnsweringInv, Events, Resting

(* polar-webhook.controller.ts:23-24: 202 "for everything it has durably
   handled".  An order that earns a month and has been answered is granted
   or in hand, if no request fails once its claim is committed and every
   order carries our user id: without either hypothesis it does not hold.  *)
THEOREM AnsweredIsGrantedHolds ==
    ASSUME FailsAt \subseteq {"exists", "claim"}, FALSE \notin OrderMetadata
    PROVE  Spec => []AnsweredIsGranted
<1>1. Spec => []AnsweringInv
  BY BillingInvHolds, AnsweringInit, AnsweringStep, PTL DEF Spec
<1>2. BillingInv /\ AnsweringInv => AnsweredIsGranted
  <2>. SUFFICES ASSUME AnsweringInv, BillingInv, NEW s \in Subs, NEW start \in 0 .. now, Answered(s, start)
                PROVE  Settled(s, start)
    BY DEF AnsweredIsGranted, Settled
  <2>1. Ordered(s, start) \/ Settled(s, start)
    BY DEF Answered, AnsweringInv
  <2>2. ~ Ordered(s, start)
    BY DEF Answered, Ordered, Earns, GrantsAllowance, OrderEvent
  <2>. QED  BY <2>1, <2>2
<1>. QED  BY <1>1, <1>2, BillingInvHolds, PTL

-----------------------------------------------------------------------------
(* Dates.  A month has a number, counted from year 0; of two dates the one
   in the later month is the later, and the day decides within a month.    *)
Day == [year : Nat, month : 0 .. 11, day : 1 .. 31]
Index(date) == 12 * date.year + date.month
Last(date) == DaysIn(date.year, date.month)

LEMMA MonthOfYear ==
    ASSUME NEW n \in Nat
    PROVE  n \div 12 \in Nat /\ n % 12 \in 0 .. 11 /\ 12 * (n \div 12) + (n % 12) = n
BY SMT

LEMMA YearsApart ==
    ASSUME NEW x \in Nat, NEW y \in Nat, NEW u \in 0 .. 11, NEW v \in 0 .. 11, 12 * x + u = 12 * y + v
    PROVE  x = y /\ u = v
BY SMT

LEMMA DaysInType ==
    ASSUME NEW year, NEW month
    PROVE  DaysIn(year, month) \in 28 .. 31
BY DEF DaysIn

LEMMA DateIsADay ==
    ASSUME NEW date \in Dates(Nat)
    PROVE  date \in Day /\ date.day <= Last(date)
BY DEF Dates, Day, Last

LEMMA DayOf ==
    ASSUME NEW date \in Day
    PROVE  /\ date.year \in Nat /\ date.month \in Nat /\ date.month < 12 /\ date.day \in Nat
           /\ Index(date) \in Nat /\ Last(date) \in 28 .. 31
BY DaysInType DEF Day, Index, Last

LEMMA SameMonth ==
    ASSUME NEW a \in Day, NEW b \in Day, Index(a) = Index(b)
    PROVE  a.year = b.year /\ a.month = b.month /\ Last(a) = Last(b)
<1>1. a.year = b.year /\ a.month = b.month
  <2>1. a.year \in Nat /\ b.year \in Nat /\ a.month \in 0 .. 11 /\ b.month \in 0 .. 11
    BY DEF Day
  <2>2. 12 * a.year + a.month = 12 * b.year + b.month
    BY DEF Index
  <2>. QED  BY <2>1, <2>2, YearsApart
<1>. QED  BY <1>1 DEF Last

LEMMA BeforeByIndex ==
    ASSUME NEW a \in Day, NEW b \in Day
    PROVE  Before(a, b) <=> Index(a) < Index(b) \/ (Index(a) = Index(b) /\ a.day < b.day)
BY DayOf DEF Before, Index

(* Adding k months is adding k to the month's number; the day is kept, or
   is the last one of the month.                                           *)
LEMMA AddedMonths ==
    ASSUME NEW date \in Day, NEW k \in Nat
    PROVE  /\ AddCalendarMonths(date, k) \in Day
           /\ Index(AddCalendarMonths(date, k)) = Index(date) + k
           /\ AddCalendarMonths(date, k).day =
                 IF date.day < Last(AddCalendarMonths(date, k)) THEN date.day
                 ELSE Last(AddCalendarMonths(date, k))
<1>. DEFINE month == date.month + k
            year == date.year + month \div 12
<1>1. PICK last : last = DaysIn(year, month % 12)
  OBVIOUS
<1>2. PICK added : added = AddCalendarMonths(date, k)
  OBVIOUS
<1>3. added = [year |-> year, month |-> month % 12, day |-> IF date.day < last THEN date.day ELSE last]
  BY <1>1, <1>2 DEF AddCalendarMonths
<1>4. date.year \in Nat /\ date.month \in Nat /\ date.day \in 1 .. 31 /\ month \in Nat
  BY DEF Day
<1>5. month \div 12 \in Nat /\ month % 12 \in 0 .. 11 /\ 12 * (month \div 12) + (month % 12) = month
  <2>. HIDE DEF month
  <2>. QED  BY <1>4, MonthOfYear
<1>6. last \in 28 .. 31
  BY <1>1, DaysInType
<1>7. PICK carry \in Nat : carry = month \div 12
  BY <1>5
<1>8. PICK rest \in 0 .. 11 : rest = month % 12
  BY <1>5
<1>9. added.year = date.year + carry /\ added.month = rest
  BY <1>3, <1>7, <1>8
<1>10. added \in Day
  <2>1. added = [year |-> date.year + carry, month |-> rest, day |-> IF date.day < last THEN date.day ELSE last]
    BY <1>3, <1>7, <1>8, Zenon
  <2>. QED  BY <2>1, <1>4, <1>6 DEF Day
<1>11. Index(added) = Index(date) + k
  <2>1. 12 * carry + rest = date.month + k
    BY <1>5, <1>7, <1>8
  <2>. QED  BY <1>4, <1>9, <2>1 DEF Index
<1>12. Last(added) = last /\ added.day = IF date.day < last THEN date.day ELSE last
  BY <1>1, <1>3 DEF Last
<1>. QED  BY <1>2, <1>12, <1>10, <1>11

(* An anniversary has come when that many months have passed.              *)
LEMMA AnniversaryHasCome ==
    ASSUME NEW start \in Day, NEW today \in Day, today.day <= Last(today), NEW k \in Nat
    PROVE  ~ Before(today, AddCalendarMonths(start, k)) <=> k <= MonthsSince(start, today)
<1>1. PICK anniversary : anniversary = AddCalendarMonths(start, k)
  OBVIOUS
<1>2. /\ anniversary \in Day /\ Index(anniversary) = Index(start) + k
      /\ anniversary.day = IF start.day < Last(anniversary) THEN start.day ELSE Last(anniversary)
  BY <1>1, AddedMonths
<1>3. /\ Index(start) \in Nat /\ Index(today) \in Nat
      /\ start.day \in Nat /\ today.day \in Nat /\ Last(today) \in Nat
  BY DayOf
<1>4. MonthsSince(start, today) = Index(today) - Index(start)
         - (IF today.day >= start.day \/ today.day = Last(today) THEN 0 ELSE 1)
  BY DayOf DEF MonthsSince, Index, Last
<1>5. Before(today, anniversary) <=>
         \/ Index(today) < Index(start) + k
         \/ Index(today) = Index(start) + k /\ today.day < anniversary.day
  BY <1>2, BeforeByIndex
<1>6. CASE Index(today) = Index(start) + k
  <2>1. Last(anniversary) = Last(today)
    BY <1>2, <1>6, SameMonth
  <2>. QED  BY <1>1, <1>2, <1>3, <1>4, <1>5, <1>6, <2>1
<1>7. CASE Index(today) # Index(start) + k
  BY <1>1, <1>3, <1>4, <1>5, <1>7
<1>. QED  BY <1>6, <1>7

(* annual-allowance.scheduler.ts, dueAnnualMonths: between any two of the
   start dates, a month is due exactly if it has passed.                   *)
LEMMA EveryDueIsCountedHolds == EveryDueIsCounted
<1>. SUFFICES ASSUME NEW start \in StartDates, NEW date \in StartDates,
                     Before(date, AddCalendarMonths(start, 12))
              PROVE  DueMonths(start, AddCalendarMonths(start, 12), date, 12) = 1 .. MonthsSince(start, date)
  BY DEF EveryDueIsCounted
<1>1. start \in Day /\ date \in Day /\ date.day <= Last(date)
  BY DatesAssumption, DateIsADay
<1>2. MonthsSince(start, date) \in Int
  BY <1>1 DEF MonthsSince, Day
<1>3. MonthsSince(start, date) < 12
  <2>1. ~ 12 <= MonthsSince(start, date)
    BY <1>1, AnniversaryHasCome
  <2>. QED  BY <1>2, <2>1
<1>4. ASSUME NEW k \in 1 .. 11
      PROVE  /\ ~ Before(date, AddCalendarMonths(start, k)) <=> k <= MonthsSince(start, date)
             /\ Before(AddCalendarMonths(start, k), AddCalendarMonths(start, 12))
  <2>1. ~ Before(date, AddCalendarMonths(start, k)) <=> k <= MonthsSince(start, date)
    BY <1>1, AnniversaryHasCome
  <2>2. /\ AddCalendarMonths(start, k) \in Day /\ AddCalendarMonths(start, 12) \in Day
        /\ Index(AddCalendarMonths(start, k)) = Index(start) + k
        /\ Index(AddCalendarMonths(start, 12)) = Index(start) + 12
    BY <1>1, AddedMonths
  <2>3. Index(start) + k < Index(start) + 12
    BY <1>1, DayOf
  <2>. QED  BY <2>1, <2>2, <2>3, BeforeByIndex
<1>5. DueMonths(start, AddCalendarMonths(start, 12), date, 12)
         = {m \in 1 .. 11 : \A k \in 1 .. m : k <= MonthsSince(start, date)}
  BY <1>4 DEF DueMonths
<1>6. PICK passed \in Int : passed = MonthsSince(start, date)
  BY <1>2
<1>7. {m \in 1 .. 11 : \A k \in 1 .. m : k <= passed} = 1 .. passed
  <2>1. ASSUME NEW m \in 1 .. 11, \A k \in 1 .. m : k <= passed
        PROVE  m \in 1 .. passed
    BY <2>1, m \in 1 .. m
  <2>2. ASSUME NEW m \in 1 .. passed
        PROVE  m \in 1 .. 11 /\ \A k \in 1 .. m : k <= passed
    BY <1>3, <1>6
  <2>. QED  BY <2>1, <2>2
<1>. QED  BY <1>5, <1>6, <1>7

LEMMA PeriodsCountMonths ==
    ASSUME NEW date \in Day, NEW start \in Nat, NEW today \in Nat, NEW period \in Nat, period > 0
    PROVE  DueMonths(AddCalendarMonths(date, start), AddCalendarMonths(date, start + period),
                     AddCalendarMonths(date, today), period)
              = {m \in 1 .. period - 1 : start + m <= today}
<1>1. PICK from : from = AddCalendarMonths(date, start)
  OBVIOUS
<1>2. PICK end : end = AddCalendarMonths(date, start + period)
  OBVIOUS
<1>3. PICK now1 : now1 = AddCalendarMonths(date, today)
  OBVIOUS
<1>4. /\ from \in Day /\ Index(from) = Index(date) + start
      /\ from.day = IF date.day < Last(from) THEN date.day ELSE Last(from)
  BY <1>1, AddedMonths
<1>5. end \in Day /\ Index(end) = Index(date) + (start + period)
  BY <1>2, AddedMonths
<1>6. /\ now1 \in Day /\ Index(now1) = Index(date) + today
      /\ now1.day = IF date.day < Last(now1) THEN date.day ELSE Last(now1)
  BY <1>3, AddedMonths
<1>7. ASSUME NEW k \in 1 .. period - 1
      PROVE  /\ ~ Before(now1, AddCalendarMonths(from, k)) <=> start + k <= today
             /\ Before(AddCalendarMonths(from, k), end)
  <2>1. PICK anniversary : anniversary = AddCalendarMonths(from, k)
    OBVIOUS
  <2>2. /\ anniversary \in Day /\ Index(anniversary) = Index(from) + k
        /\ anniversary.day = IF from.day < Last(anniversary) THEN from.day ELSE Last(anniversary)
    BY <1>4, <2>1, AddedMonths
  <2>3. /\ Index(date) \in Nat /\ date.day \in Nat /\ from.day \in Nat /\ now1.day \in Nat
        /\ Last(from) \in Nat /\ Last(now1) \in Nat /\ anniversary.day \in Nat
    BY <1>4, <1>6, <2>2, DayOf
  <2>4. Before(now1, anniversary) <=>
           Index(now1) < Index(anniversary)
           \/ (Index(now1) = Index(anniversary) /\ now1.day < anniversary.day)
    BY <1>6, <2>2, BeforeByIndex
  <2>5. Index(now1) = Index(anniversary) => ~ now1.day < anniversary.day
    <3>. SUFFICES ASSUME Index(now1) = Index(anniversary)
                  PROVE  ~ now1.day < anniversary.day
      OBVIOUS
    <3>1. Last(now1) = Last(anniversary)
      BY <1>6, <2>2, SameMonth
    <3>. QED  BY <1>4, <1>6, <2>2, <2>3, <3>1
  <2>6. ~ Before(now1, anniversary) <=> start + k <= today
    BY <1>4, <1>6, <2>2, <2>3, <2>4, <2>5
  <2>7. Before(anniversary, end)
    <3>1. Index(anniversary) < Index(end)
      BY <1>4, <1>5, <2>2, <2>3
    <3>. QED  BY <1>5, <2>2, <3>1, BeforeByIndex
  <2>. QED  BY <2>1, <2>6, <2>7
<1>8. DueMonths(from, end, now1, period)
         = {m \in 1 .. period - 1 : \A k \in 1 .. m : start + k <= today}
  BY <1>7 DEF DueMonths
<1>. QED  BY <1>1, <1>2, <1>3, <1>8

(* annual-allowance.scheduler.ts:15-19: the months that the job takes from
   dates are the whole months counted here, for a period of any length that
   begins on any day, also the last of a month, and after any renewal.     *)
THEOREM CalendarCountsMonthsHolds == Spec => []CalendarCountsMonths
<1>1. BillingInv => CalendarCountsMonths
  <2>. SUFFICES ASSUME BillingInv, NEW s \in Subs, row[s] # None, NEW date \in FirstDays
                PROVE  DueMonths(AddCalendarMonths(date, row[s].start),
                                 AddCalendarMonths(date, row[s].start + PeriodOf[s]),
                                 AddCalendarMonths(date, now), PeriodOf[s])
                          = DueAnnualMonths(s, row[s].start)
    BY EveryDueIsCountedHolds DEF CalendarCountsMonths
  <2>1. row[s].start \in Nat /\ now \in Nat
    BY BillingAssumption DEF BillingInv, Subscription
  <2>2. date \in Day
    BY DatesAssumption, DateIsADay
  <2>3. PICK period : period = PeriodOf[s]
    OBVIOUS
  <2>4. PICK start : start = row[s].start
    OBVIOUS
  <2>5. PICK today : today = now
    OBVIOUS
  <2>6. start \in Nat /\ today \in Nat /\ period \in Nat /\ period > 0
    BY <2>1, <2>3, <2>4, <2>5, PeriodIsPositive
  <2>7. DueMonths(AddCalendarMonths(date, start), AddCalendarMonths(date, start + period),
                  AddCalendarMonths(date, today), period)
           = {m \in 1 .. period - 1 : start + m <= today}
    BY <2>2, <2>6, PeriodsCountMonths
  <2>. QED  BY <2>3, <2>4, <2>5, <2>7 DEF DueAnnualMonths
<1>. QED  BY <1>1, BillingInvHolds, PTL

-----------------------------------------------------------------------------
(* Purchases.                                                              *)

(* A step keeps what is known when checkouts that began stay as they are,
   orders are only added, and new events and rows are faithful.            *)
LEMMA PurchaseFrame ==
    ASSUME Shop!PurchasesInv,
           checkouts' \in [Shop!Checkouts -> Shop!Checkout],
           \A c \in Shop!Checkouts : Shop!Started(c) => checkouts'[c] = checkouts[c],
           \A c \in Shop!Checkouts : Shop!Started(c)' /\ ~ Shop!Started(c) =>
              /\ checkouts'[c].plan \in Shop!PaidPlans /\ checkouts'[c].product # None
              /\ \E interval \in Shop!Intervals : Configured[checkouts'[c].plan][interval] = checkouts'[c].product,
           products' \in [Shop!Checkouts -> Shop!Products],
           \A c \in Shop!Checkouts : products'[c] # None => products[c] # None \/ Shop!Started(c),
           rows' \in [Shop!Checkouts -> Shop!Subscription],
           \A c \in Shop!Checkouts : rows'[c].user = rows[c].user \/ rows'[c].user = checkouts'[c].user,
           orders \subseteq orders',
           \A e \in Shop!Events' : e \in Shop!Events \/ Shop!Faithful(e)',
           \A entry \in ledger' : entry \in ledger \/ Shop!Bought(entry)'
    PROVE  Shop!PurchasesInv'
<1>1. ASSUME NEW c, Shop!Started(c) PROVE Shop!Started(c)' /\ checkouts'[c] = checkouts[c]
  BY <1>1 DEF Shop!Started
<1>2. ASSUME NEW e \in Shop!Events PROVE Shop!Faithful(e)'
  <2>1. Shop!Faithful(e)
    BY DEF Shop!PurchasesInv
  <2>2. e.sub # 0 => Shop!Started(e.sub)' /\ checkouts'[e.sub] = checkouts[e.sub]
    BY <1>1, <2>1 DEF Shop!Faithful
  <2>. QED BY <2>1, <2>2 DEF Shop!Faithful
<1>3. ASSUME NEW entry \in ledger PROVE Shop!Bought(entry)'
  <2>1. Shop!Bought(entry)
    BY DEF Shop!PurchasesInv
  <2>2. entry.checkout # 0 => Shop!Started(entry.checkout)' /\ checkouts'[entry.checkout] = checkouts[entry.checkout]
    BY <1>1, <2>1 DEF Shop!Bought
  <2>. QED BY <2>1, <2>2 DEF Shop!Bought
<1>4. ASSUME NEW c \in Shop!Checkouts, Shop!Started(c)'
      PROVE  /\ checkouts'[c].plan \in Shop!PaidPlans /\ checkouts'[c].product # None
             /\ \E interval \in Shop!Intervals : Configured[checkouts'[c].plan][interval] = checkouts'[c].product
  BY <1>1, <1>4 DEF Shop!PurchasesInv
<1>5. ASSUME NEW c \in Shop!Checkouts PROVE rows'[c].user \in {None, checkouts'[c].user}
  <2>1. rows[c].user \in {None, checkouts[c].user}
    BY DEF Shop!PurchasesInv
  <2>2. checkouts[c].user = None \/ checkouts'[c].user = checkouts[c].user
    BY DEF Shop!Started
  <2>. QED BY <2>1, <2>2
<1>6. ASSUME NEW c \in Shop!Checkouts, products'[c] # None PROVE Shop!Started(c)'
  BY <1>1, <1>6 DEF Shop!PurchasesInv
<1>. QED BY <1>2, <1>3, <1>4, <1>5, <1>6 DEF Shop!PurchasesInv

(* A plan that planForProduct finds is on sale as that product.            *)
LEMMA PlansAreOnSale ==
    ASSUME NEW product, Shop!PlanForProduct(product) # None
    PROVE  /\ Shop!PlanForProduct(product) \in Shop!PaidPlans
           /\ \E interval \in Shop!Intervals : Configured[Shop!PlanForProduct(product)][interval] = product
<1> DEFINE Sold(plan) == \E interval \in Shop!Intervals : Configured[plan][interval] = product
<1>1. CASE product # None /\ \E plan \in Shop!PaidPlans : Sold(plan)
  <2>1. Shop!PlanForProduct(product) = CHOOSE plan \in Shop!PaidPlans : Sold(plan)
    BY <1>1 DEF Shop!PlanForProduct
  <2> HIDE DEF Sold
  <2>2. Shop!PlanForProduct(product) \in Shop!PaidPlans /\ Sold(Shop!PlanForProduct(product))
    BY <1>1, <2>1
  <2>. QED BY <2>2 DEF Sold
<1>2. CASE ~ (product # None /\ \E plan \in Shop!PaidPlans : Sold(plan))
  <2>1. Shop!PlanForProduct(product) = None
    BY <1>2 DEF Shop!PlanForProduct
  <2>. QED BY <1>2, <2>1
<1>. QED BY <1>1, <1>2

-----------------------------------------------------------------------------
(* Polar's steps.                                                          *)

LEMMA CheckoutStarts ==
    ASSUME Shop!PurchasesInv, NEW u \in Users, Shop!StartCheckout(u)
    PROVE  Shop!PurchasesInv'
<1>1. PICK plan \in Shop!PaidPlans, interval \in Shop!Intervals, c \in Shop!Checkouts :
         /\ Shop!ProductForPlan(plan, interval) # None
         /\ checkouts[c].user = None
         /\ checkouts' = [checkouts EXCEPT ![c] = [user |-> u, plan |-> plan,
                                                  product |-> Shop!ProductForPlan(plan, interval)]]
         /\ UNCHANGED <<orders, products, events, wire, Shop!keys, Shop!ours, losses>>
  BY DEF Shop!StartCheckout
<1> DEFINE checkout == [user |-> u, plan |-> plan, product |-> Shop!ProductForPlan(plan, interval)]
<1>2. checkout \in Shop!Checkout
  BY DEF Shop!Checkout, Shop!Products, Shop!OnSale, Shop!ProductForPlan
<1>3. /\ checkout.plan \in Shop!PaidPlans /\ checkout.product # None
      /\ Configured[checkout.plan][interval] = checkout.product
  BY <1>1 DEF Shop!ProductForPlan
<1> HIDE DEF checkout
<1>4. checkouts' = [checkouts EXCEPT ![c] = checkout] /\ checkouts \in [Shop!Checkouts -> Shop!Checkout]
  BY <1>1 DEF checkout, Shop!PurchasesInv
<1>5. \A d \in Shop!Checkouts : d # c => checkouts'[d] = checkouts[d]
  BY <1>4
<1>6. checkouts'[c] = checkout
  BY <1>4
<1>7. \A d \in Shop!Checkouts : Shop!Started(d) => checkouts'[d] = checkouts[d]
  BY <1>1, <1>5 DEF Shop!Started
<1>8. \A d \in Shop!Checkouts : Shop!Started(d)' /\ ~ Shop!Started(d) => d = c
  BY <1>5 DEF Shop!Started
<1>. QED BY <1>1, <1>2, <1>3, <1>4, <1>6, <1>7, <1>8, PurchaseFrame DEF Shop!PurchasesInv, Shop!ours, Shop!Events

LEMMA Ordering ==
    ASSUME NEW c, Shop!Started(c), UNCHANGED checkouts, NEW product, NEW reason,
           reason = "purchase" => product = checkouts[c].product,
           NEW metadata \in {None, checkouts[c].user},
           NEW others \in SUBSET {Shop!SubscriptionEvent(c, product)},
           Shop!Ordered(Shop!Order(c, product, reason), metadata, others)
    PROVE  orders \subseteq orders' /\ \A e \in events' : e \in events \/ Shop!Faithful(e)'
<1> DEFINE n == Shop!Cardinality(orders) + 1
           o == [id |-> n, buyer |-> checkouts[c].user, sub |-> c, product |-> product, reason |-> reason]
           event == [id |-> <<"order", n>>, sub |-> c, product |-> product, metadata |-> metadata,
                     order |-> n, reason |-> reason]
<1>1. [Shop!Order(c, product, reason) EXCEPT !.id = n] = o
      /\ Shop!Order(c, product, reason).sub = c /\ Shop!Order(c, product, reason).product = product
      /\ Shop!Order(c, product, reason).reason = reason
  BY DEF Shop!Order
<1> HIDE DEF n
<1>2. orders' = orders \cup {o} /\ events' = events \cup others \cup {event}
  BY <1>1 DEF Shop!Ordered, n
<1>0. c # 0
  BY DEF Shop!Started, Shop!Checkouts
<1>3. ASSUME NEW new, new = event PROVE Shop!Faithful(new)'
  <2>1. /\ o.id = event.order /\ o.buyer = checkouts[event.sub].user
        /\ o.product = event.product /\ o.reason = event.reason /\ o.sub = event.sub /\ o \in orders'
    BY <1>2
  <2>2. /\ event.sub = c /\ event.metadata = metadata /\ event.reason = reason
        /\ event.product = product
    OBVIOUS
  <2> HIDE DEF event, o
  <2>. QED BY <1>0, <1>3, <2>1, <2>2 DEF Shop!Faithful, Shop!Started
<1>4. ASSUME NEW new, new = Shop!SubscriptionEvent(c, product) PROVE Shop!Faithful(new)'
  BY <1>0, <1>4 DEF Shop!Faithful, Shop!SubscriptionEvent, Shop!Started
<1> HIDE DEF event, o
<1>. QED BY <1>2, <1>3, <1>4

LEMMA PolarSells ==
    ASSUME Shop!PurchasesInv, NEW c \in Shop!Checkouts, Shop!Pay(c) \/ Shop!Renew(c) \/ Shop!ChangeProduct(c)
    PROVE  Shop!PurchasesInv'
<1>0. /\ checkouts \in [Shop!Checkouts -> Shop!Checkout] /\ products \in [Shop!Checkouts -> Shop!Products]
      /\ UNCHANGED <<checkouts, wire, Shop!ours>>
  BY DEF Shop!PurchasesInv, Shop!Pay, Shop!Renew, Shop!ChangeProduct
<1>1. CASE Shop!Pay(c)
  <2>1. Shop!Started(c)
    BY <1>1 DEF Shop!Pay, Shop!Started
  <2>2. orders \subseteq orders' /\ \A e \in events' : e \in events \/ Shop!Faithful(e)'
    BY <1>1, <2>1, Ordering DEF Shop!Pay
  <2>3. products' = [products EXCEPT ![c] = checkouts[c].product] /\ checkouts[c].product \in Shop!Products
    BY <1>0, <1>1 DEF Shop!Pay, Shop!Checkout
  <2>4. products' \in [Shop!Checkouts -> Shop!Products]
        /\ \A d \in Shop!Checkouts : products'[d] # None => products[d] # None \/ Shop!Started(d)
    BY <1>0, <2>1, <2>3
  <2>. QED BY <1>0, <2>2, <2>4, PurchaseFrame DEF Shop!PurchasesInv, Shop!Events, Shop!Started, Shop!ours
<1>2. CASE Shop!Renew(c)
  <2>1. Shop!Started(c)
    BY <1>2 DEF Shop!Renew, Shop!PurchasesInv
  <2>2. PICK metadata \in {checkouts[c].user, None} :
           Shop!Ordered(Shop!Order(c, products[c], "subscription_cycle"), metadata, {})
    BY <1>2 DEF Shop!Renew
  <2>3. orders \subseteq orders' /\ \A e \in events' : e \in events \/ Shop!Faithful(e)'
    BY <1>0, <2>1, <2>2, Ordering
  <2>. QED BY <1>0, <1>2, <2>3, PurchaseFrame DEF Shop!PurchasesInv, Shop!Events, Shop!Started, Shop!ours, Shop!Renew
<1>3. CASE Shop!ChangeProduct(c)
  <2>1. Shop!Started(c)
    BY <1>3 DEF Shop!ChangeProduct, Shop!PurchasesInv
  <2>2. PICK product \in Shop!OnSale :
           /\ products' = [products EXCEPT ![c] = product]
           /\ Shop!Ordered(Shop!Order(c, product, "subscription_update"), checkouts[c].user,
                      {Shop!SubscriptionEvent(c, product)})
    BY <1>3 DEF Shop!ChangeProduct
  <2>3. orders \subseteq orders' /\ \A e \in events' : e \in events \/ Shop!Faithful(e)'
    BY <1>0, <2>1, <2>2, Ordering
  <2>4. product \in Shop!Products
    BY DEF Shop!Products
  <2>5. products' \in [Shop!Checkouts -> Shop!Products]
        /\ \A d \in Shop!Checkouts : products'[d] # None => products[d] # None \/ Shop!Started(d)
    BY <1>0, <2>1, <2>2, <2>4
  <2>. QED BY <1>0, <2>3, <2>5, PurchaseFrame DEF Shop!PurchasesInv, Shop!Events, Shop!Started, Shop!ours
<1>. QED BY <1>1, <1>2, <1>3

LEMMA SoldOnce ==
    ASSUME Shop!PurchasesInv, NEW u \in Users, Shop!BuyOnce(u)
    PROVE  Shop!PurchasesInv'
<1>1. PICK product \in Shop!OnSale :
         Shop!Ordered([id |-> 0, buyer |-> u, sub |-> 0, product |-> product, reason |-> "purchase"], u, {})
  BY DEF Shop!BuyOnce
<1> DEFINE n == Shop!Cardinality(orders) + 1
           event == [id |-> <<"order", n>>, sub |-> 0, product |-> product, metadata |-> u,
                     order |-> n, reason |-> "purchase"]
<1>2. orders \subseteq orders' /\ events' = events \cup {event}
  BY <1>1 DEF Shop!Ordered
<1>3. event.sub = 0 /\ event.reason = "purchase"
  OBVIOUS
<1> HIDE DEF n, event
<1>4. ASSUME NEW new, new = event PROVE Shop!Faithful(new)'
  BY <1>3, <1>4 DEF Shop!Faithful
<1>5. UNCHANGED <<checkouts, products, wire, Shop!ours>>
  BY DEF Shop!BuyOnce
<1>6. \A e \in Shop!Events' : e \in Shop!Events \/ Shop!Faithful(e)'
  BY <1>2, <1>4, <1>5 DEF Shop!Events
<1>7. UNCHANGED <<checkouts, products, rows, ledger>>
  BY <1>5 DEF Shop!ours
<1>8. \A c : Shop!Started(c)' <=> Shop!Started(c)
  BY <1>7 DEF Shop!Started
<1>9. /\ checkouts \in [Shop!Checkouts -> Shop!Checkout] /\ products \in [Shop!Checkouts -> Shop!Products]
      /\ rows \in [Shop!Checkouts -> Shop!Subscription]
  BY DEF Shop!PurchasesInv
<1>. QED BY <1>2, <1>6, <1>7, <1>8, <1>9, PurchaseFrame

LEMMA Delivering ==
    ASSUME Shop!PurchasesInv, Shop!RotateSecret \/ Shop!DeploySecret \/ Shop!RetireSecret \/ Shop!Send \/ Shop!Delay
    PROVE  Shop!PurchasesInv'
<1>1. UNCHANGED <<Shop!polar, events, Shop!ours>>
  BY DEF Shop!RotateSecret, Shop!DeploySecret, Shop!RetireSecret, Shop!Send, Shop!Delay
<1>2. \A d \in wire' : d.event \in Shop!Events
  <2>1. CASE UNCHANGED wire
    BY <2>1 DEF Shop!Events
  <2>2. CASE Shop!Send
    BY <2>2 DEF Shop!Send, Shop!Events
  <2>3. CASE Shop!Delay
    <3>1. PICK d \in wire : wire' = (wire \ {d}) \cup {[d EXCEPT !.late = TRUE]}
      BY <2>3 DEF Shop!Delay
    <3>2. [d EXCEPT !.late = TRUE].event = d.event
      BY DEF Shop!Events
    <3>. QED BY <3>1, <3>2 DEF Shop!Events
  <2>. QED BY <2>1, <2>2, <2>3 DEF Shop!RotateSecret, Shop!DeploySecret, Shop!RetireSecret
<1>3. \A e \in Shop!Events' : e \in Shop!Events
  BY <1>1, <1>2 DEF Shop!Events
<1>. QED BY <1>1, <1>3, PurchaseFrame DEF Shop!PurchasesInv, Shop!polar, Shop!ours, Shop!Started

-----------------------------------------------------------------------------
(* The webhook's steps.                                                    *)

LEMMA OrderGrants ==
    ASSUME Shop!ProductsTellPlansApart, Shop!PurchasesInv, NEW e \in Shop!Events, e.reason # "none",
           Shop!OnOrderPaid(e), UNCHANGED <<checkouts, orders>>
    PROVE  \A entry \in ledger' : entry \in ledger \/ Shop!Bought(entry)'
<1> DEFINE plan == Shop!PlanForProduct(e.product)
           user == Shop!UserIdForOrder(e)
           entry == [order |-> e.order, user |-> user, amount |-> Shop!MonthlyCredits(plan),
                     checkout |-> IF e.reason = "purchase" THEN e.sub ELSE 0]
<1>1. \/ ledger' = ledger
      \/ Shop!GrantsAllowance(e) /\ plan # None /\ user # None /\ ledger' = ledger \cup {entry}
  <2>1. ledger' = IF Shop!GrantsAllowance(e) /\ plan # None /\ user # None THEN ledger \cup {entry} ELSE ledger
    BY Zenon DEF Shop!OnOrderPaid
  <2> HIDE DEF plan, user, entry
  <2>. QED BY <2>1
<1>2. ASSUME Shop!GrantsAllowance(e), plan # None, user # None PROVE Shop!Bought(entry)
  <2>1. Shop!Faithful(e)
    BY DEF Shop!PurchasesInv
  <2>0. e.sub # 0
    BY <1>2 DEF Shop!GrantsAllowance
  <2>2. user = checkouts[e.sub].user
    BY <1>2, <2>0, <2>1 DEF Shop!UserIdForOrder, Shop!Faithful, Shop!PurchasesInv, Shop!Started
  <2>3. plan \in Shop!PaidPlans /\ \E interval \in Shop!Intervals : Configured[plan][interval] = e.product
    BY <1>2, PlansAreOnSale
  <2>4. PICK interval \in Shop!Intervals : Configured[plan][interval] = e.product
    BY <2>3
  <2>5. PICK o \in orders : /\ o.id = e.order /\ o.buyer = checkouts[e.sub].user
                            /\ o.sub = e.sub /\ o.product = e.product /\ o.reason = e.reason
    BY <2>0, <2>1 DEF Shop!Faithful
  <2>6. e.reason # "subscription_update"
    BY <1>2 DEF Shop!GrantsAllowance
  <2>7. ASSUME e.reason = "purchase" PROVE plan = checkouts[e.sub].plan
    <3>1. e.sub \in Shop!Checkouts /\ Shop!Started(e.sub) /\ e.product = checkouts[e.sub].product
      BY <2>0, <2>1, <2>7 DEF Shop!Faithful, Shop!Started
    <3>2. /\ checkouts[e.sub].plan \in Shop!PaidPlans /\ checkouts[e.sub].product # None
          /\ \E another \in Shop!Intervals : Configured[checkouts[e.sub].plan][another] = checkouts[e.sub].product
      BY <3>1 DEF Shop!PurchasesInv
    <3> HIDE DEF plan
    <3>. QED BY <2>3, <2>4, <3>1, <3>2 DEF Shop!ProductsTellPlansApart
  <2>8. /\ entry.order = e.order /\ entry.user = user /\ entry.amount = Shop!MonthlyCredits(plan)
        /\ entry.checkout = IF e.reason = "purchase" THEN e.sub ELSE 0
    OBVIOUS
  <2>9. Shop!Started(e.sub)
    BY <2>0, <2>1 DEF Shop!Faithful
  <2> HIDE DEF plan, user, entry
  <2>10. entry.checkout # 0 => plan = checkouts[entry.checkout].plan /\ Shop!Started(entry.checkout)
    BY <2>7, <2>8, <2>9
  <2>. QED BY <2>0, <2>2, <2>3, <2>4, <2>5, <2>6, <2>8, <2>10 DEF Shop!Bought
<1>. QED BY <1>1, <1>2 DEF Shop!Bought, Shop!Started


LEMMA Handling ==
    ASSUME Shop!ProductsTellPlansApart, Shop!PurchasesInv, NEW e \in Shop!Events, Shop!Handle(e), UNCHANGED Shop!polar
    PROVE  /\ rows' \in [Shop!Checkouts -> Shop!Subscription]
           /\ \A c \in Shop!Checkouts : rows'[c].user = rows[c].user \/ rows'[c].user = checkouts'[c].user
           /\ \A entry \in ledger' : entry \in ledger \/ Shop!Bought(entry)'
<1>0. rows \in [Shop!Checkouts -> Shop!Subscription] /\ Shop!Faithful(e) /\ UNCHANGED <<checkouts, orders>>
  BY DEF Shop!PurchasesInv, Shop!polar
<1>1. CASE UNCHANGED <<rows, ledger>>
  BY <1>0, <1>1
<1>2. CASE e.reason # "none" /\ Shop!OnOrderPaid(e)
  <2>1. rows' = rows
    BY <1>2 DEF Shop!OnOrderPaid
  <2>. QED BY <1>0, <1>2, <2>1, OrderGrants
<1>3. CASE e.reason = "none" /\ Shop!OnSubscription(e)
  <2>0. e.sub # 0
    BY <1>0, <1>3 DEF Shop!Faithful
  <2> DEFINE plan == Shop!PlanForProduct(e.product)
             projection == [user |-> e.metadata, plan |-> plan]
  <2>1. ledger' = ledger
    BY <1>3 DEF Shop!OnSubscription
  <2>2. rows' = rows \/ (plan # None /\ rows' = [rows EXCEPT ![e.sub] = projection])
    BY <1>3 DEF Shop!OnSubscription
  <2>3. plan # None => projection \in Shop!Subscription
    <3>1. plan # None => plan \in Shop!PaidPlans
      BY PlansAreOnSale
    <3>2. e.metadata \in Users \cup {None}
      BY <1>0, <2>0 DEF Shop!Faithful, Shop!Started, Shop!PurchasesInv, Shop!Checkout
    <3>. QED BY <3>1, <3>2 DEF Shop!Subscription
  <2>4. projection.user \in {None, checkouts[e.sub].user} /\ e.sub \in Shop!Checkouts
    BY <1>0, <2>0 DEF Shop!Faithful, Shop!Started
  <2>5. projection.user = e.metadata
    OBVIOUS
  <2> HIDE DEF plan, projection
  <2>6. CASE rows' = rows
    BY <1>0, <2>1, <2>6
  <2>7. CASE plan # None /\ rows' = [rows EXCEPT ![e.sub] = projection] /\ projection.user # None
    BY <1>0, <2>1, <2>3, <2>4, <2>7
  <2>8. projection.user = None => rows' = rows
    BY <1>3, <2>5 DEF Shop!OnSubscription
  <2>. QED BY <2>2, <2>6, <2>7, <2>8
<1>. QED BY <1>1, <1>2, <1>3 DEF Shop!Handle

LEMMA Receiving ==
    ASSUME Shop!ProductsTellPlansApart, Shop!PurchasesInv, Shop!Receive \/ Shop!AnswerLost
    PROVE  Shop!PurchasesInv'
<1>1. UNCHANGED Shop!polar /\ UNCHANGED <<checkouts, orders, products>>
  BY DEF Shop!Receive, Shop!AnswerLost, Shop!polar
<1>2. PICK d \in wire : /\ wire' = wire \ {d} /\ events' \subseteq events
                        /\ Shop!Handle(d.event) \/ UNCHANGED Shop!ours
  <2>1. CASE Shop!Receive
    <3>1. PICK d \in wire :
             /\ wire' = wire \ {d}
             /\ \/ Shop!Handle(d.event) /\ events' = {e \in events : e.id # d.event.id}
                \/ UNCHANGED <<Shop!ours, events>>
      BY <2>1, Zenon DEF Shop!Receive
    <3>. QED BY <3>1
  <2>2. CASE Shop!AnswerLost
    BY <2>2 DEF Shop!AnswerLost
  <2>. QED BY <2>1, <2>2
<1>3. d.event \in Shop!Events /\ \A e \in Shop!Events' : e \in Shop!Events
  BY <1>2 DEF Shop!Events
<1>4. CASE Shop!Handle(d.event)
  BY <1>1, <1>2, <1>3, <1>4, Handling, PurchaseFrame DEF Shop!PurchasesInv, Shop!Started
<1>5. CASE UNCHANGED Shop!ours
  BY <1>1, <1>3, <1>5, PurchaseFrame DEF Shop!PurchasesInv, Shop!Started, Shop!ours
<1>. QED BY <1>2, <1>4, <1>5

(* What Polar tells us is faithful, and what we granted for it was bought. *)
THEOREM PurchasesInvHolds == ASSUME Shop!ProductsTellPlansApart PROVE Shop!Spec => []Shop!PurchasesInv
<1>1. Shop!Init => Shop!PurchasesInv
  <2> SUFFICES ASSUME Shop!Init PROVE Shop!PurchasesInv
    OBVIOUS
  <2>1. \A c : ~ Shop!Started(c)
    BY DEF Shop!Init, Shop!Started
  <2>2. /\ [user |-> None, plan |-> None, product |-> None] \in Shop!Checkout
        /\ [user |-> None, plan |-> None] \in Shop!Subscription
    BY DEF Shop!Checkout, Shop!Subscription, Shop!Products
  <2>. QED BY <2>1, <2>2 DEF Shop!Init, Shop!PurchasesInv, Shop!Events, Shop!Products
<1>2. Shop!PurchasesInv /\ [Shop!Next]_Shop!vars => Shop!PurchasesInv'
  <2> SUFFICES ASSUME Shop!PurchasesInv, [Shop!Next]_Shop!vars PROVE Shop!PurchasesInv'
    OBVIOUS
  <2>1. CASE UNCHANGED Shop!vars
    BY <2>1, PurchaseFrame DEF Shop!vars, Shop!polar, Shop!ours, Shop!PurchasesInv, Shop!Events, Shop!Started
  <2>. QED BY <2>1, CheckoutStarts, PolarSells, SoldOnce, Delivering, Receiving DEF Shop!Next
<1>. QED BY <1>1, <1>2, PTL DEF Shop!Spec

(* Every grant goes to the buyer of its order and is of the size of the plan
   whose product was ordered, for every price list that tells plans apart.   *)
THEOREM BoughtIsGrantedHolds == ASSUME Shop!ProductsTellPlansApart PROVE Shop!Spec => []Shop!BoughtIsGranted
<1>1. Shop!PurchasesInv => Shop!BoughtIsGranted
  BY DEF Shop!PurchasesInv, Shop!Bought, Shop!BoughtIsGranted
<1>. QED BY <1>1, PurchasesInvHolds, PTL
=============================================================================
