------------------------------ MODULE Purchases ------------------------------
(***************************************************************************)
(* From the pricing page to credits: a checkout for a plan                 *)
(* (billing.controller.ts, polar.service.ts), Polar's signed deliveries    *)
(* about it (verify-webhook.ts), the product that decides on the plan      *)
(* (product-plan-map.ts), the user that the credits go to                  *)
(* (polar-webhook.controller.ts), and the page that waits for them.        *)
(*                                                                         *)
(* A delivery is handled in one step; PolarBilling interleaves and crashes *)
(* the requests, and LedgerTransactions their statements.  Polar and the   *)
(* network are external: deliveries are late, lost or repeated, and the    *)
(* signing secret is rotated.                                              *)
(***************************************************************************)
EXTENDS Integers, Sequences, FiniteSets

CONSTANTS Users,
          Configured,    \* config.polar.products: Configured[plan][interval], or None
          OtherProducts, \* what Polar sells besides
          OneOffs,       \* bound: who buys which product without a subscription
          Vintage,       \* Vintage[s]: how the s-th webhook secret makes a key
          MaxCheckouts,  \* bound: checkouts
          MaxOrders,     \* bound: orders
          MaxWire,       \* bound: deliveries on their way at once
          MaxFaults,     \* bound: deliveries that are late or whose answer is lost
          None

Secrets == DOMAIN Vintage

(* A whsec_ secret that Polar decodes, one whose characters are the key, and
   a secret that is no whsec_ one.                                          *)
ASSUME VintageAssumption == Vintage \in Seq({"decoded", "literal", "plain"})

VARIABLES checkouts,  \* checkouts[c]: Polar's checkout c
          orders,     \* the paid orders: what was bought, and by whom
          products,   \* products[c]: the product of the subscription that c began, or None
          outbox,     \* events that Polar has no 2xx for
          wire,       \* deliveries on their way
          signing,    \* the secrets that Polar signs with
          secret,     \* config.polar.webhookSecret
          claimed,    \* processed_webhooks
          rows,       \* rows[c]: our projection of that subscription
          ledger,     \* credit_ledger_entries of the grants
          faults

polar == <<checkouts, orders, products>>
keys == <<signing, secret>>
ours == <<claimed, rows, ledger>>
vars == <<polar, outbox, wire, keys, ours, faults>>

Checkouts == 1 .. MaxCheckouts
PaidPlans == {"starter", "creator", "studio"}
Intervals == {"month", "year"}
MonthlyCredits(plan) == CASE plan = "starter" -> 100 [] plan = "creator" -> 300 [] plan = "studio" -> 1000

OnSale == OtherProducts \cup {Configured[plan][interval] : plan \in PaidPlans, interval \in Intervals}

ProductForPlan(plan, interval) == Configured[plan][interval]

(* Mutant of PlanForProduct: an unknown product becomes the first plan.    *)
PlanOrStarter(product) ==
    IF product # None /\ \E plan \in PaidPlans : \E interval \in Intervals : Configured[plan][interval] = product
    THEN CHOOSE plan \in PaidPlans : \E interval \in Intervals : Configured[plan][interval] = product
    ELSE "starter"

PlanForProduct(product) ==
    IF product # None /\ \E plan \in PaidPlans : \E interval \in Intervals : Configured[plan][interval] = product
    THEN CHOOSE plan \in PaidPlans : \E interval \in Intervals : Configured[plan][interval] = product
    ELSE None

-----------------------------------------------------------------------------
(* The user, and Polar.                                                    *)

(* A refusal of the plan or an error of Polar leaves nothing behind that a
   user could pay for.                                                     *)
StartCheckout(u) ==
    \E plan \in PaidPlans, interval \in Intervals, c \in Checkouts :
       /\ ProductForPlan(plan, interval) # None
       /\ checkouts[c].user = None /\ \A b \in 1 .. c - 1 : checkouts[b].user # None
       /\ checkouts' = [checkouts EXCEPT ![c] = [user |-> u, plan |-> plan,
                                                 product |-> ProductForPlan(plan, interval)]]
       /\ UNCHANGED <<orders, products, outbox, wire, keys, ours, faults>>

(* An order, with its event; metadata is the user id that Polar copied.    *)
Ordered(o, metadata, others) ==
    LET n == Cardinality(orders) + 1 IN
    /\ n <= MaxOrders
    /\ orders' = orders \cup {[o EXCEPT !.id = n]}
    /\ outbox' = outbox \cup others \cup
                 {[id |-> <<"order", n>>, sub |-> o.sub, product |-> o.product, metadata |-> metadata,
                   order |-> n, reason |-> o.reason]}

SubscriptionEvent(c, product) ==
    [id |-> <<"subscription", c, product>>, sub |-> c, product |-> product,
     metadata |-> checkouts[c].user, order |-> 0, reason |-> "none"]

Order(c, product, reason) ==
    [id |-> 0, buyer |-> checkouts[c].user, sub |-> c, product |-> product, reason |-> reason]

Pay(c) ==
    /\ checkouts[c].user # None /\ products[c] = None
    /\ products' = [products EXCEPT ![c] = checkouts[c].product]
    /\ Ordered(Order(c, checkouts[c].product, "purchase"), checkouts[c].user,
               {SubscriptionEvent(c, checkouts[c].product)})
    /\ UNCHANGED <<checkouts, wire, keys, ours, faults>>

Renew(c) ==
    /\ products[c] # None
    /\ \E metadata \in {checkouts[c].user, None} :
          Ordered(Order(c, products[c], "subscription_cycle"), metadata, {})
    /\ UNCHANGED <<checkouts, products, wire, keys, ours, faults>>

(* Something bought once: the order has no subscription.                   *)
BuyOnce(u) ==
    /\ \E product \in OnSale :
          /\ <<u, product>> \in OneOffs
          /\ Ordered([id |-> 0, buyer |-> u, sub |-> 0, product |-> product, reason |-> "purchase"], u, {})
    /\ UNCHANGED <<checkouts, products, wire, keys, ours, faults>>

(* The customer changes to another product, which is prorated.             *)
ChangeProduct(c) ==
    /\ products[c] # None
    /\ \E product \in OnSale :
          /\ product \notin {None, products[c]}
          /\ products' = [products EXCEPT ![c] = product]
          /\ Ordered(Order(c, product, "subscription_update"), checkouts[c].user,
                     {SubscriptionEvent(c, product)})
    /\ UNCHANGED <<checkouts, wire, keys, ours, faults>>

(* The next secret signs beside the old one until the API has been given it. *)
RotateSecret ==
    /\ signing = {secret} /\ secret + 1 \in Secrets
    /\ signing' = {secret, secret + 1}
    /\ UNCHANGED <<polar, outbox, wire, secret, ours, faults>>

DeploySecret ==
    /\ secret + 1 \in signing /\ secret' = secret + 1
    /\ UNCHANGED <<polar, outbox, wire, signing, ours, faults>>

RetireSecret ==
    /\ secret - 1 \in signing /\ secret \in signing /\ signing' = {secret}
    /\ UNCHANGED <<polar, outbox, wire, secret, ours, faults>>

SigningKey(s) == <<IF Vintage[s] = "decoded" THEN "decoded" ELSE "literal", s>>

Send ==
    /\ Cardinality(wire) < MaxWire
    /\ \E e \in outbox :
          /\ \A d \in wire : d.event.id # e.id
          /\ wire' = wire \cup {[event |-> e, late |-> FALSE,
                                 signatures |-> {SigningKey(s) : s \in signing}]}
    /\ UNCHANGED <<polar, outbox, keys, ours, faults>>

(* Beyond config.polar.webhookToleranceSec.                                *)
Delay ==
    /\ faults < MaxFaults /\ faults' = faults + 1
    /\ \E d \in wire : ~ d.late /\ wire' = (wire \ {d}) \cup {[d EXCEPT !.late = TRUE]}
    /\ UNCHANGED <<polar, outbox, keys, ours>>

-----------------------------------------------------------------------------
(* The webhook endpoint.                                                   *)

WebhookSigningKeys(s) == {<<"literal", s>>} \cup
                         (IF Vintage[s] = "plain" THEN {} ELSE {<<"decoded", s>>})

(* Mutant of VerifyWebhookSignature: the newer encoding only.              *)
VerifyDecodedOnly(d) == ~ d.late /\ <<"decoded", secret>> \in d.signatures

VerifyWebhookSignature(d) == ~ d.late /\ WebhookSigningKeys(secret) \cap d.signatures # {}

GrantsAllowance(e) == e.sub # 0 /\ e.reason \in {"purchase", "subscription_cycle"}

UserIdForOrder(e) == IF e.metadata # None THEN e.metadata ELSE rows[e.sub].user

OnOrderPaid(e) ==
    LET plan == PlanForProduct(e.product)
        user == UserIdForOrder(e)
    IN
    /\ ledger' = IF GrantsAllowance(e) /\ plan # None /\ user # None
                 THEN ledger \cup {[order |-> e.order, user |-> user, amount |-> MonthlyCredits(plan),
                                    checkout |-> IF e.reason = "purchase" THEN e.sub ELSE 0]}
                 ELSE ledger
    /\ UNCHANGED rows

OnSubscription(e) ==
    LET plan == PlanForProduct(e.product) IN
    /\ rows' = IF plan = None \/ e.metadata = None THEN rows
               ELSE [rows EXCEPT ![e.sub] = [user |-> e.metadata, plan |-> plan]]
    /\ UNCHANGED ledger

Handle(e) == /\ claimed' = claimed \cup {e.id}
             /\ CASE e.id \in claimed -> UNCHANGED <<rows, ledger>>
                  [] e.id \notin claimed /\ e.reason # "none" -> OnOrderPaid(e)
                  [] OTHER -> OnSubscription(e)

(* 401, or 202 and the event is done with for Polar.                       *)
Receive ==
    /\ \E d \in wire :
          /\ wire' = wire \ {d}
          /\ IF VerifyWebhookSignature(d)
             THEN Handle(d.event) /\ outbox' = {e \in outbox : e.id # d.event.id}
             ELSE UNCHANGED <<ours, outbox>>
    /\ UNCHANGED <<polar, keys, faults>>

(* The answer does not reach Polar, which will deliver again.              *)
AnswerLost ==
    /\ faults < MaxFaults /\ faults' = faults + 1
    /\ \E d \in wire : /\ VerifyWebhookSignature(d)
                       /\ wire' = wire \ {d}
                       /\ Handle(d.event)
    /\ UNCHANGED <<polar, outbox, keys>>

(* checkoutCredited: what GET /billing/checkout/:checkoutId tells its user. *)
CheckoutCredited(u, c) == \E entry \in ledger : entry.user = u /\ entry.checkout = c

-----------------------------------------------------------------------------
Init == /\ checkouts = [c \in Checkouts |-> [user |-> None, plan |-> None, product |-> None]]
        /\ orders = {}
        /\ products = [c \in Checkouts |-> None]
        /\ outbox = {} /\ wire = {}
        /\ secret = 1 /\ signing = {1}
        /\ claimed = {}
        /\ rows = [c \in Checkouts |-> [user |-> None, plan |-> None]]
        /\ ledger = {}
        /\ faults = 0

Next == \/ \E u \in Users : StartCheckout(u) \/ BuyOnce(u)
        \/ \E c \in Checkouts : Pay(c) \/ Renew(c) \/ ChangeProduct(c)
        \/ RotateSecret \/ DeploySecret \/ RetireSecret
        \/ Send \/ Delay \/ Receive \/ AnswerLost

Spec == Init /\ [][Next]_vars

(* Polar retries what is not answered 2xx, and what it sent is handled.    *)
FairSpec == Spec /\ WF_vars(Send) /\ WF_vars(Receive)

-----------------------------------------------------------------------------
(* Properties.                                                             *)

TypeOK ==
    /\ \A c \in Checkouts : /\ checkouts[c].user \in Users \cup {None}
                            /\ rows[c].user \in Users \cup {None}
                            /\ rows[c].plan \in PaidPlans \cup {None}
    /\ {d.event.id : d \in wire} \subseteq {e.id : e \in outbox} \cup claimed
    /\ signing \subseteq Secrets /\ secret \in signing
    /\ \A entry \in ledger : entry.order \in 1 .. Cardinality(orders)

(* product-plan-map.ts:10-15: "an unrecognised product must never silently
   become a default plan".  Every grant goes to whoever paid for its order,
   for an order of a subscription that begins a month, and is of the size of
   the plan whose product was ordered, through changes of the product, and
   whether the user is found by the order's metadata or by the projection.  *)
BoughtIsGranted ==
    \A entry \in ledger : \E o \in orders :
       /\ o.id = entry.order /\ o.buyer = entry.user
       /\ o.sub # 0 /\ o.reason # "subscription_update"
       /\ \E plan \in PaidPlans, interval \in Intervals :
             /\ Configured[plan][interval] = o.product
             /\ entry.amount = MonthlyCredits(plan)
             /\ entry.checkout # 0 => plan = checkouts[entry.checkout].plan

(* A paid checkout is credited to whoever paid it in the end, and the page
   that waits for it learns so: late deliveries, lost answers, changes of the
   product and a rotation of the secret only delay it.                     *)
PaidIsCredited ==
    \A c \in Checkouts : products[c] # None ~> CheckoutCredited(checkouts[c].user, c)

-----------------------------------------------------------------------------
(* What the proof of BoughtIsGranted rests on.                             *)

(* No product is on sale as two plans: what POLAR_PRODUCT_* of a deployment
   must be for product-plan-map.ts to tell the plans apart.                *)
ProductsTellPlansApart ==
    \A plan, other \in PaidPlans, interval, another \in Intervals :
       Configured[plan][interval] = Configured[other][another] /\ Configured[plan][interval] # None
          => plan = other

Products == OnSale \cup {None}

Checkout == [user : Users \cup {None}, plan : PaidPlans \cup {None}, product : Products]

Subscription == [user : Users \cup {None}, plan : PaidPlans \cup {None}]

Events == outbox \cup {d.event : d \in wire}

Started(c) == c \in Checkouts /\ checkouts[c].user # None

(* What Polar tells us of a subscription is what happened there, and what
   it tells of no subscription is of an order.                              *)
Faithful(e) ==
    /\ e.sub = 0 => e.reason # "none"
    /\ e.sub # 0 =>
          /\ Started(e.sub)
          /\ e.metadata \in {None, checkouts[e.sub].user}
          /\ e.reason # "none" => \E o \in orders :
                               /\ o.id = e.order /\ o.buyer = checkouts[e.sub].user
                               /\ o.sub = e.sub /\ o.product = e.product /\ o.reason = e.reason
          /\ e.reason = "purchase" => e.product = checkouts[e.sub].product

Bought(entry) ==
    /\ \E o \in orders :
          /\ o.id = entry.order /\ o.buyer = entry.user
          /\ o.sub # 0 /\ o.reason # "subscription_update"
          /\ \E plan \in PaidPlans, interval \in Intervals :
                /\ Configured[plan][interval] = o.product
                /\ entry.amount = MonthlyCredits(plan)
                /\ entry.checkout # 0 => plan = checkouts[entry.checkout].plan
    /\ entry.checkout # 0 => Started(entry.checkout)

PurchasesInv ==
    /\ checkouts \in [Checkouts -> Checkout]
    /\ \A c \in Checkouts : Started(c) =>
          /\ checkouts[c].plan \in PaidPlans /\ checkouts[c].product # None
          /\ \E interval \in Intervals : Configured[checkouts[c].plan][interval] = checkouts[c].product
    /\ products \in [Checkouts -> Products]
    /\ \A c \in Checkouts : products[c] # None => Started(c)
    /\ rows \in [Checkouts -> Subscription]
    /\ \A c \in Checkouts : rows[c].user \in {None, checkouts[c].user}
    /\ \A e \in Events : Faithful(e)
    /\ \A entry \in ledger : Bought(entry)
=============================================================================
