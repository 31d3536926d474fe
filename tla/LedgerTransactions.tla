------------------------- MODULE LedgerTransactions -------------------------
(***************************************************************************)
(* The credit operations as the PostgreSQL transactions they are, several  *)
(* of them open at once, one statement per step (READ COMMITTED):          *)
(*                                                                         *)
(*   worker, charge and refund:  INSERT INTO credit_balances .. ON CONFLICT*)
(*     DO NOTHING; SELECT .. FOR UPDATE; count the subject's rows; INSERT  *)
(*     the ledger row and UPDATE the balance; COMMIT                       *)
(*   API, grant:  SELECT .. FOR UPDATE; when there is no row, INSERT it and*)
(*     SELECT again; look the key up; INSERT and UPDATE; COMMIT            *)
(*                                                                         *)
(* balance and ledger are what is committed.  A connection may be lost     *)
(* before any statement, which rolls its transaction back; the caller may  *)
(* then ask again, as BullMQ and Polar do.  This module implements         *)
(* CreditLedger.                                                           *)
(***************************************************************************)
EXTENDS Integers, Sequences, FiniteSets

CONSTANTS Users, Subjects, Orders, UserOf, Costs, Allowances, SharePct, MaxEntries,
          Txs,   \* database connections, of the API and the workers alike
          None   \* no transaction

ASSUME TransactionsAssumption ==
    /\ UserOf \in [Subjects \cup Orders -> Users]
    /\ Costs \subseteq Nat /\ Allowances \subseteq Nat /\ SharePct \in Nat
    /\ MaxEntries \in Nat
    /\ IsFiniteSet(Txs) /\ None \notin Txs

VARIABLES balance,   \* as in CreditLedger: the committed state
          ledger,
          rows,      \* users who have a committed credit_balances row
          creating,  \* creating[u]: the transaction that inserted u's row, not yet committed
          locked,    \* locked[u]: the transaction that holds u's row FOR UPDATE
          tx         \* each connection's transaction

vars == <<balance, ledger, rows, creating, locked, tx>>

L == INSTANCE CreditLedger

Requests == [op : {"charge"}, of : Subjects, amount : Costs]
       \cup [op : {"refund"}, of : Subjects, amount : {0}]
       \cup [op : {"grant"}, of : Orders, amount : Allowances]

NoBalance == [rollover |-> 0, expiring |-> 0]
NoKey == [kind |-> "none"]

(* A transaction that has read nothing yet.                                *)
Fresh(pc, request) ==
    [pc |-> pc, request |-> request, read |-> NoBalance, key |-> NoKey, next |-> NoBalance]

Idle == Fresh("idle", None)

User(t) == UserOf[tx[t].request.of]

Goto(t, pc) == tx' = [tx EXCEPT ![t].pc = pc]

-----------------------------------------------------------------------------
(* Ending a transaction lets go of the rows it created or locked.          *)
Release(t) ==
    /\ creating' = [u \in Users |-> IF creating[u] = t THEN None ELSE creating[u]]
    /\ locked' = [u \in Users |-> IF locked[u] = t THEN None ELSE locked[u]]

CommitRow(t) == rows' = rows \cup {u \in Users : creating[u] = t}

(* Mutant of CommitNothing: an early return that leaves the row locked.    *)
ReturnHoldingLock(t) ==
    /\ CommitRow(t)
    /\ creating' = [u \in Users |-> IF creating[u] = t THEN None ELSE creating[u]]
    /\ tx' = [tx EXCEPT ![t] = Idle]
    /\ UNCHANGED <<balance, ledger, locked>>

(* A commit that writes no ledger row: "already-charged", "insufficient",
   nothing to refund, "duplicate".                                         *)
CommitNothing(t) ==
    /\ CommitRow(t)
    /\ Release(t)
    /\ tx' = [tx EXCEPT ![t] = Idle]
    /\ UNCHANGED <<balance, ledger>>

Rollback(t, pc) ==
    /\ Release(t)
    /\ tx' = [tx EXCEPT ![t] = IF pc = "idle" THEN Idle ELSE Fresh(pc, tx[t].request)]
    /\ UNCHANGED <<balance, ledger, rows>>

-----------------------------------------------------------------------------
(* Statements.                                                             *)

(* Bound: every open transaction has room for its ledger row.              *)
OpenOf(u) == {t \in Txs : tx[t].pc # "idle" /\ User(t) = u}

Room(u) == Len(ledger[u]) + Cardinality(OpenOf(u)) < MaxEntries

Begin(t, request) ==
    /\ tx[t].pc = "idle"
    /\ Room(UserOf[request.of])
    /\ tx' = [tx EXCEPT ![t] = Fresh(IF request.op = "grant" THEN "find" ELSE "ensure", request)]
    /\ UNCHANGED <<balance, ledger, rows, creating, locked>>

(* INSERT .. ON CONFLICT DO NOTHING waits for another transaction's insert
   of the same row to end, then inserts if that one did not.               *)
EnsureRow(t) ==
    /\ tx[t].pc = "ensure"
    /\ creating[User(t)] = None
    /\ creating' = IF User(t) \in rows THEN creating
                   ELSE [creating EXCEPT ![User(t)] = t]
    /\ Goto(t, "lock")
    /\ UNCHANGED <<balance, ledger, rows, locked>>

(* Mutant of TakeLock: a SELECT without FOR UPDATE.                        *)
ReadUnlocked(t) ==
    /\ tx' = [tx EXCEPT ![t].pc = "look", ![t].read = balance[User(t)]]
    /\ UNCHANGED <<balance, ledger, rows, creating, locked>>

(* What a granted lock reads is the row as last committed.                 *)
TakeLock(t) ==
    /\ locked[User(t)] = None
    /\ locked' = [locked EXCEPT ![User(t)] = t]
    /\ tx' = [tx EXCEPT ![t].pc = "look", ![t].read = balance[User(t)]]
    /\ UNCHANGED <<balance, ledger, rows, creating>>

(* lockBalance's first findOne: an uncommitted row is not seen.            *)
FindRow(t) ==
    /\ tx[t].pc = "find"
    /\ \/ User(t) \in rows /\ TakeLock(t)
       \/ User(t) \notin rows /\ Goto(t, "insert")
          /\ UNCHANGED <<balance, ledger, rows, creating, locked>>

(* lockBalance's insert: when the row has appeared since, a unique violation,
   which the code catches, but PostgreSQL has aborted the transaction.     *)
InsertRow(t) ==
    /\ tx[t].pc = "insert"
    /\ creating[User(t)] = None
    /\ IF User(t) \in rows
       THEN Goto(t, "aborted") /\ UNCHANGED creating
       ELSE Goto(t, "lock") /\ creating' = [creating EXCEPT ![User(t)] = t]
    /\ UNCHANGED <<balance, ledger, rows, locked>>

LockRow(t) ==
    /\ tx[t].pc = "lock"
    /\ TakeLock(t)

(* The second findOne in an aborted transaction: error 25P02, which is not a
   unique violation, so grant() throws.                                    *)
ReadBack(t) ==
    /\ tx[t].pc = "aborted"
    /\ Rollback(t, "failed")

ToWrite(t, key, next) ==
    /\ tx' = [tx EXCEPT ![t].pc = "insert-entry", ![t].key = key, ![t].next = next]
    /\ UNCHANGED <<balance, ledger, rows, creating, locked>>

(* Mutant of LookCharge: "already-charged" is never answered.              *)
LookChargeAgain(t) ==
    LET r == tx[t].request IN
    /\ tx[t].pc = "look" /\ r.op = "charge"
    /\ IF L!Total(tx[t].read) < r.amount
       THEN CommitNothing(t)
       ELSE ToWrite(t, L!ChargeKey(r.of, L!Charges(r.of) + 1), L!Spend(tx[t].read, r.amount))

(* The SELECTs between the lock and the first write, of committed rows.    *)
LookCharge(t) ==
    LET r == tx[t].request IN
    /\ tx[t].pc = "look" /\ r.op = "charge"
    /\ IF L!Charges(r.of) > L!Refunds(r.of) \/ L!Total(tx[t].read) < r.amount
       THEN CommitNothing(t)
       ELSE ToWrite(t, L!ChargeKey(r.of, L!Charges(r.of) + 1), L!Spend(tx[t].read, r.amount))

LookRefund(t) ==
    LET s == tx[t].request.of
        key == L!ChargeKey(s, L!Charges(s))
        charge == L!Row(ledger[User(t)], key)
    IN
    /\ tx[t].pc = "look" /\ tx[t].request.op = "refund"
    /\ IF L!Charges(s) <= L!Refunds(s) \/ ~ L!Recorded(ledger[User(t)], key)
       THEN CommitNothing(t)
       ELSE ToWrite(t, L!RefundKey(s, L!Charges(s)),
                    [rollover |-> tx[t].read.rollover - charge.rolloverDelta,
                     expiring |-> tx[t].read.expiring - charge.expiringDelta])

LookGrant(t) ==
    LET r == tx[t].request IN
    /\ tx[t].pc = "look" /\ r.op = "grant"
    /\ IF L!Recorded(ledger[User(t)], L!GrantKey(r.of))
       THEN CommitNothing(t)
       ELSE ToWrite(t, L!GrantKey(r.of), L!ApplyGrant(tx[t].read, r.amount))

(* INSERT INTO credit_ledger_entries: waits for an uncommitted row with the
   same idempotency key, and aborts on a committed one.                    *)
InsertEntry(t) ==
    /\ tx[t].pc = "insert-entry"
    /\ ~ \E other \in Txs \ {t} : tx[other].pc = "update" /\ tx[other].key = tx[t].key
    /\ IF L!Recorded(ledger[User(t)], tx[t].key)
       THEN Rollback(t, IF tx[t].request.op = "grant" THEN "idle" ELSE "failed")
       ELSE Goto(t, "update") /\ UNCHANGED <<balance, ledger, rows, creating, locked>>

(* UPDATE credit_balances, and COMMIT.  The row's deltas were computed from
   what the lock read.                                                     *)
Commit(t) ==
    LET read == tx[t].read
        next == tx[t].next
    IN
    /\ tx[t].pc = "update"
    /\ ledger' = [ledger EXCEPT ![User(t)] = Append(@,
          [key |-> tx[t].key,
           rolloverDelta |-> next.rollover - read.rollover,
           expiringDelta |-> next.expiring - read.expiring,
           rolloverAfter |-> next.rollover,
           expiringAfter |-> next.expiring])]
    /\ balance' = [balance EXCEPT ![User(t)] = next]
    /\ CommitRow(t)
    /\ Release(t)
    /\ tx' = [tx EXCEPT ![t] = Idle]

(* The caller hears of the failure.                                        *)
Answer(t) ==
    /\ tx[t].pc = "failed"
    /\ tx' = [tx EXCEPT ![t] = Idle]
    /\ UNCHANGED <<balance, ledger, rows, creating, locked>>

(* The process or its connection dies: PostgreSQL rolls back.              *)
Crash(t) ==
    /\ tx[t].pc \notin {"idle", "failed"}
    /\ Rollback(t, "idle")

Statement(t) ==
    \/ EnsureRow(t) \/ FindRow(t) \/ InsertRow(t) \/ LockRow(t) \/ ReadBack(t)
    \/ LookCharge(t) \/ LookRefund(t) \/ LookGrant(t)
    \/ InsertEntry(t) \/ Commit(t) \/ Answer(t)

Init == /\ balance = [u \in Users |-> NoBalance]
        /\ ledger = [u \in Users |-> << >>]
        /\ rows = {}
        /\ creating = [u \in Users |-> None]
        /\ locked = [u \in Users |-> None]
        /\ tx = [t \in Txs |-> Idle]

Next == \E t \in Txs : \/ \E request \in Requests : Begin(t, request)
                       \/ Statement(t)
                       \/ Crash(t)

Spec == Init /\ [][Next]_vars

(* PostgreSQL grants a row lock to its waiters in turn, so a statement that
   is enabled over and over is executed.                                   *)
FairSpec == Spec /\ \A t \in Txs : SF_vars(Statement(t))

-----------------------------------------------------------------------------
(* Properties.                                                             *)

(* That buckets and rows are natural numbers is CreditLedger's TypeOK, which
   ImplementsLedger carries over.                                          *)
IntBalance == [rollover : Int, expiring : Int]

IntEntry == [key : L!Key, rolloverDelta : Int, expiringDelta : Int,
             rolloverAfter : Int, expiringAfter : Int]

Transaction == [pc : {"idle", "ensure", "find", "insert", "lock", "look", "insert-entry", "update",
                      "aborted", "failed"},
                request : Requests \cup {None}, read : IntBalance,
                key : L!Key \cup {NoKey}, next : IntBalance]

TypeOK ==
    /\ balance \in [Users -> IntBalance]
    /\ ledger \in [Users -> Seq(IntEntry)]
    /\ rows \subseteq Users
    /\ creating \in [Users -> Txs \cup {None}]
    /\ locked \in [Users -> Txs \cup {None}]
    /\ tx \in [Txs -> Transaction]
    /\ \A t \in Txs : tx[t].pc # "idle" => tx[t].request \in Requests

(* From the moment a transaction has read a balance until it commits, that
   is the committed balance: nobody's write is lost, also when the row was
   created by the transaction itself.                                      *)
ReadIsCurrent ==
    \A t \in Txs : tx[t].pc \in {"look", "insert-entry", "update"} =>
       tx[t].read = balance[User(t)]

(* However statements and lost connections interleave, the committed state
   moves only as CreditLedger's whole operations.                          *)
ImplementsLedger == L!Spec

(* No two transactions wait for each other: each one ends.                 *)
EveryTransactionEnds == \A t \in Txs : (tx[t].pc # "idle") ~> (tx[t].pc = "idle")

-----------------------------------------------------------------------------
(* The inductive invariant of the proofs, in LedgerTransactionsProofs.     *)

(* A transaction that has read a balance holds its row.                    *)
ReadersHoldTheRow ==
    \A t \in Txs : tx[t].pc \in {"look", "insert-entry", "update"} => locked[User(t)] = t

(* What a transaction is about to write is what its operation would write
   now, on a balance b and rows l.                                         *)
ChargePlan(s, cost, key, next, b, l) ==
    /\ L!Count(l, "charge", s) <= L!Count(l, "refund", s)
    /\ cost <= L!Total(b)
    /\ key = L!ChargeKey(s, L!Count(l, "charge", s) + 1)
    /\ next = L!Spend(b, cost)

RefundPlan(s, key, next, b, l) ==
    LET charge == L!ChargeKey(s, L!Count(l, "charge", s)) IN
    /\ L!Count(l, "charge", s) > L!Count(l, "refund", s)
    /\ L!Recorded(l, charge)
    /\ key = L!RefundKey(s, L!Count(l, "charge", s))
    /\ next = [rollover |-> b.rollover - L!Row(l, charge).rolloverDelta,
               expiring |-> b.expiring - L!Row(l, charge).expiringDelta]

GrantPlan(o, credits, key, next, b, l) ==
    /\ ~ L!Recorded(l, L!GrantKey(o))
    /\ key = L!GrantKey(o)
    /\ next = L!ApplyGrant(b, credits)

PlanFits(r, key, next, b, l) ==
    /\ r.op = "charge" => ChargePlan(r.of, r.amount, key, next, b, l)
    /\ r.op = "refund" => RefundPlan(r.of, key, next, b, l)
    /\ r.op = "grant" => GrantPlan(r.of, r.amount, key, next, b, l)

Planned(t) == PlanFits(tx[t].request, tx[t].key, tx[t].next, balance[User(t)], ledger[User(t)])

PlansHold == \A t \in Txs : tx[t].pc \in {"insert-entry", "update"} => Planned(t)

(* Every open transaction still has room for its row (the model's bound).  *)
HasRoom == \A u \in Users : Len(ledger[u]) + Cardinality(OpenOf(u)) <= MaxEntries

TransactionsInv == TypeOK /\ ReadersHoldTheRow /\ ReadIsCurrent /\ PlansHold /\ HasRoom
=============================================================================
