---------------------------- MODULE CreditLedger ----------------------------
(***************************************************************************)
(* The two-bucket credit balance and its ledger, one committed transaction *)
(* per action: credit_balances and credit_ledger_entries as the worker's   *)
(* db.py (charge_credits, refund_credits) and the API's billing.service.ts *)
(* (grant) change them.  The interleaving of the transactions themselves   *)
(* is the subject of LedgerTransactions, which implements this module.     *)
(*                                                                         *)
(* An idempotency key "charge:<subject>:<n>" is the record                 *)
(* [kind |-> "charge", of |-> subject, n |-> n]; a grant's key, which is   *)
(* not numbered, has n = 0.                                                *)
(***************************************************************************)
EXTENDS Integers, Sequences, FiniteSets

CONSTANTS Users,       \* users.user_id
          Subjects,    \* "video:<id>" and "render:<id>"
          Orders,      \* what identifies a grant: a Polar order, or a month of an annual plan
          UserOf,      \* the user a subject or an order belongs to
          Costs,       \* the amounts work may cost (charge() skips amounts <= 0)
          Allowances,  \* the plans' monthlyCredits
          SharePct,    \* CREDIT_ROLLOVER_SHARE, in percent
          MaxEntries   \* bound: ledger rows per user

ASSUME CreditAssumption ==
    /\ UserOf \in [Subjects \cup Orders -> Users]
    /\ Costs \subseteq Nat \ {0}
    /\ Allowances \subseteq Nat
    /\ SharePct \in 0 .. 100
    /\ MaxEntries \in Nat

VARIABLES balance,     \* credit_balances, a user without a row having two empty buckets
          ledger       \* credit_ledger_entries of each user, in commit order

vars == <<balance, ledger>>

Balance == [rollover : Nat, expiring : Nat]

Key == [kind : {"charge", "refund", "grant"}, of : Subjects \cup Orders, n : Nat]

(* Mutant of ChargeKey: charges are not numbered.                          *)
ChargeKeyUnnumbered(s, n) == [kind |-> "charge", of |-> s, n |-> 1]

Entry == [key : Key, rolloverDelta : Int, expiringDelta : Int,
          rolloverAfter : Nat, expiringAfter : Nat]

ChargeKey(s, n) == [kind |-> "charge", of |-> s, n |-> n]
RefundKey(s, n) == [kind |-> "refund", of |-> s, n |-> n]
GrantKey(o) == [kind |-> "grant", of |-> o, n |-> 0]

-----------------------------------------------------------------------------
(* Credit arithmetic (credits.ts).                                         *)

Total(b) == b.rollover + b.expiring

Least(m, n) == IF m <= n THEN m ELSE n

(* Whole credits only; the remainder goes to the expiring part.            *)
SplitGrant(credits) ==
    LET kept == (credits * SharePct) \div 100
    IN  [rollover |-> kept, expiring |-> credits - kept]

(* The rollover part accumulates, the expiring part replaces last period's. *)
ApplyGrant(b, credits) ==
    [rollover |-> b.rollover + SplitGrant(credits).rollover,
     expiring |-> SplitGrant(credits).expiring]

(* Mutant of Spend: the expiring bucket pays for everything.               *)
SpendExpiringOnly(b, cost) == [b EXCEPT !.expiring = @ - cost]

(* Debits take from the expiring bucket first.                             *)
Spend(b, cost) ==
    LET fromExpiring == Least(b.expiring, cost)
    IN  [rollover |-> b.rollover - (cost - fromExpiring),
         expiring |-> b.expiring - fromExpiring]

-----------------------------------------------------------------------------
(* The ledger.                                                             *)

(* The rows of l whose key is of the given kind and subject, whatever its
   number: what LIKE 'charge:<subject>:%' selects.                         *)
Matching(l, kind, s) ==
    {i \in 1 .. Len(l) : l[i].key.kind = kind /\ l[i].key.of = s}

Count(l, kind, s) == Cardinality(Matching(l, kind, s))

Charges(s) == Count(ledger[UserOf[s]], "charge", s)
Refunds(s) == Count(ledger[UserOf[s]], "refund", s)

Recorded(l, key) == \E i \in 1 .. Len(l) : l[i].key = key

(* Mutant of NewRow: the deltas are not taken from the balance before.     *)
NewRowGross(u, key, next) ==
    [key |-> key, rolloverDelta |-> next.rollover, expiringDelta |-> next.expiring,
     rolloverAfter |-> next.rollover, expiringAfter |-> next.expiring]

Row(l, key) == l[CHOOSE i \in 1 .. Len(l) : l[i].key = key]

NewRow(u, key, next) ==
    [key |-> key,
     rolloverDelta |-> next.rollover - balance[u].rollover,
     expiringDelta |-> next.expiring - balance[u].expiring,
     rolloverAfter |-> next.rollover,
     expiringAfter |-> next.expiring]

(* One row and the balance it leads to, in the same transaction.           *)
Write(u, key, next) ==
    /\ Len(ledger[u]) < MaxEntries
    /\ ledger' = [ledger EXCEPT ![u] = Append(@, NewRow(u, key, next))]
    /\ balance' = [balance EXCEPT ![u] = next]

(* Mutant of ChargeCredits: an open charge does not stop another.          *)
ChargeAgain(s, cost) ==
    LET u == UserOf[s] IN
    /\ cost <= Total(balance[u])
    /\ Write(u, ChargeKey(s, Charges(s) + 1), Spend(balance[u], cost))

-----------------------------------------------------------------------------
(* The operations.  Their other outcomes ("already-charged",
   "insufficient", nothing to refund, "duplicate") write nothing.          *)

(* Mutant of RefundCredits: everything comes back as rollover credits.     *)
RefundToRollover(s) ==
    LET u == UserOf[s]
        charge == Row(ledger[u], ChargeKey(s, Charges(s)))
    IN  /\ Charges(s) > Refunds(s)
        /\ Write(u, RefundKey(s, Charges(s)),
                 [balance[u] EXCEPT !.rollover = @ - charge.rolloverDelta - charge.expiringDelta])

ChargeCredits(s, cost) ==
    LET u == UserOf[s] IN
    /\ Charges(s) <= Refunds(s)
    /\ cost <= Total(balance[u])
    /\ Write(u, ChargeKey(s, Charges(s) + 1), Spend(balance[u], cost))

(* Mutant of GrantCredits: the key is not looked up.                       *)
GrantAgain(o, credits) == Write(UserOf[o], GrantKey(o), ApplyGrant(balance[UserOf[o]], credits))

RefundCredits(s) ==
    LET u == UserOf[s]
        key == ChargeKey(s, Charges(s))
        charge == Row(ledger[u], key)
    IN  /\ Charges(s) > Refunds(s)
        /\ Recorded(ledger[u], key)
        /\ Write(u, RefundKey(s, Charges(s)),
                 [rollover |-> balance[u].rollover - charge.rolloverDelta,
                  expiring |-> balance[u].expiring - charge.expiringDelta])

GrantCredits(o, credits) ==
    LET u == UserOf[o] IN
    /\ ~ Recorded(ledger[u], GrantKey(o))
    /\ Write(u, GrantKey(o), ApplyGrant(balance[u], credits))

Init == /\ balance = [u \in Users |-> [rollover |-> 0, expiring |-> 0]]
        /\ ledger = [u \in Users |-> << >>]

Next == \/ \E s \in Subjects, cost \in Costs : ChargeCredits(s, cost)
        \/ \E s \in Subjects : RefundCredits(s)
        \/ \E o \in Orders, credits \in Allowances : GrantCredits(o, credits)

Spec == Init /\ [][Next]_vars

-----------------------------------------------------------------------------
(* Properties.                                                             *)

(* Both buckets are whole and never negative (what the SQL CHECK
   credit_balances_non_negative would otherwise have to abort), and every
   ledger row is well formed.                                              *)
TypeOK == /\ balance \in [Users -> Balance]
          /\ ledger \in [Users -> Seq(Entry)]

(* The ledger explains the balance: each row starts from what the row
   before it left, and the balance is what the last row left.              *)
Before(l, i) == IF i = 1 THEN [rollover |-> 0, expiring |-> 0]
                ELSE [rollover |-> l[i-1].rolloverAfter,
                      expiring |-> l[i-1].expiringAfter]

LedgerExplainsBalance ==
    \A u \in Users :
       /\ \A i \in 1 .. Len(ledger[u]) :
             /\ ledger[u][i].rolloverAfter
                   = Before(ledger[u], i).rollover + ledger[u][i].rolloverDelta
             /\ ledger[u][i].expiringAfter
                   = Before(ledger[u], i).expiring + ledger[u][i].expiringDelta
       /\ balance[u] = Before(ledger[u], Len(ledger[u]) + 1)

(* A subject never has two open charges, and is never refunded more often
   than it was charged, however charges, refunds and grants interleave.    *)
AtMostOneOpenCharge ==
    \A s \in Subjects : Charges(s) - Refunds(s) \in {0, 1}

(* No two rows of the whole table share an idempotency key: numbering a
   charge by counting rows never runs into the unique constraint.          *)
KeysAreUnique ==
    \A u, w \in Users :
       \A i \in 1 .. Len(ledger[u]), j \in 1 .. Len(ledger[w]) :
          ledger[u][i].key = ledger[w][j].key => u = w /\ i = j

(* Every refund undoes, bucket by bucket, the earlier charge of the same
   number, also when a grant replaced the expiring bucket in between.      *)
RefundUndoesItsCharge ==
    \A u \in Users : \A i \in 1 .. Len(ledger[u]) :
       ledger[u][i].key.kind = "refund" =>
          \E j \in 1 .. i - 1 :
             /\ ledger[u][j].key = ChargeKey(ledger[u][i].key.of, ledger[u][i].key.n)
             /\ ledger[u][j].rolloverDelta = - ledger[u][i].rolloverDelta
             /\ ledger[u][j].expiringDelta = - ledger[u][i].expiringDelta

-----------------------------------------------------------------------------
(* The inductive invariant of the proofs, in CreditLedgerProofs.           *)

(* Rows sit with the user they belong to, and are numbered 1, 2, 3, ...    *)
Numbered ==
    \A u \in Users : \A i \in 1 .. Len(ledger[u]) :
       LET key == ledger[u][i].key IN
       /\ UserOf[key.of] = u
       /\ key.kind = "grant" => key.of \in Orders /\ key.n = 0
       /\ key.kind # "grant" =>
             key.of \in Subjects /\ key.n \in 1 .. Count(ledger[u], key.kind, key.of)

(* The row a refund will look up exists.                                   *)
ChargesRecorded ==
    \A s \in Subjects : \A n \in 1 .. Charges(s) :
       Recorded(ledger[UserOf[s]], ChargeKey(s, n))

(* A charge took something, and only took.                                 *)
ChargesTake ==
    \A u \in Users : \A i \in 1 .. Len(ledger[u]) :
       ledger[u][i].key.kind = "charge" =>
          /\ ledger[u][i].rolloverDelta <= 0
          /\ ledger[u][i].expiringDelta <= 0
          /\ ledger[u][i].rolloverDelta + ledger[u][i].expiringDelta < 0

LedgerInv == /\ TypeOK
             /\ LedgerExplainsBalance
             /\ AtMostOneOpenCharge
             /\ Numbered
             /\ KeysAreUnique
             /\ ChargesRecorded
             /\ ChargesTake
             /\ RefundUndoesItsCharge

-----------------------------------------------------------------------------
(* CreditLedger implements CreditAccount: a subject holds what its open
   charge took.                                                            *)
Taken(l, s) == LET charge == Row(l, ChargeKey(s, Count(l, "charge", s)))
               IN  - (charge.rolloverDelta + charge.expiringDelta)

Held(l, s) == IF Count(l, "charge", s) > Count(l, "refund", s) THEN Taken(l, s) ELSE 0

Account == INSTANCE CreditAccount WITH
    available <- [u \in Users |-> Total(balance[u])],
    held <- [s \in Subjects |-> Held(ledger[UserOf[s]], s)],
    granted <- {o \in Orders : Recorded(ledger[UserOf[o]], GrantKey(o))}

(* Seen through buckets, rows and numbered keys, the ledger only ever makes
   the steps of CreditAccount: one debit at a time per subject, refunds of
   exactly what is held, and each order granted once.                      *)
ImplementsAccount == Account!Spec
=============================================================================
