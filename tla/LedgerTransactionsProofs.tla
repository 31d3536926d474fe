---------------------- MODULE LedgerTransactionsProofs ----------------------
(* Proofs about LedgerTransactions, for every set of users, subjects, orders
   and connections: interleaved statements and lost connections never make
   a step that CreditLedger's whole operations do not make.

   TransactionsInv is inductive.  The row lock is the argument: whoever has
   read a balance holds its row, so that nobody else commits to it, so that
   what was read is still the balance (ReadIsCurrent) and what was planned
   from it is still what the whole operation would write (PlansHold).

   With that, what CreditLedgerProofs proves of whole operations is carried
   over to the committed state (CommittedLedgerIsSound).                   *)
EXTENDS LedgerTransactions, TLAPS, FiniteSetTheorems, SequenceTheorems

-----------------------------------------------------------------------------
(* Types.                                                                  *)

(* CreditLedger counts with the Cardinality of this module.                *)
LEMMA SameCardinality ==
    ASSUME NEW S
    PROVE  L!Cardinality(S) = Cardinality(S)
BY DEF L!Cardinality, Cardinality

(* Counting the rows of a subject gives a number.                          *)
LEMMA CountIsNat ==
    ASSUME NEW l \in Seq(IntEntry), NEW kind, NEW s
    PROVE  L!Count(l, kind, s) \in Nat
<1>1. IsFiniteSet(1 .. Len(l))
  BY FS_Interval
<1>2. IsFiniteSet(L!Matching(l, kind, s))
  BY <1>1, FS_Subset DEF L!Matching
<1> QED
  BY <1>2, FS_CardinalityType, SameCardinality DEF L!Count

(* The row of a key that is recorded is one of the rows.                   *)
LEMMA RowIsEntry ==
    ASSUME NEW l \in Seq(IntEntry), NEW key, L!Recorded(l, key)
    PROVE  L!Row(l, key) \in IntEntry
<1>1. PICK i \in 1 .. Len(l) : l[i].key = key
  BY DEF L!Recorded
<1>2. (CHOOSE j \in 1 .. Len(l) : l[j].key = key) \in 1 .. Len(l)
  BY <1>1
<1> QED
  BY <1>2 DEF L!Row

(* What a request is about.                                                *)
LEMMA RequestTypes ==
    ASSUME NEW r \in Requests
    PROVE  /\ r.of \in Subjects \cup Orders
           /\ r.amount \in Nat
           /\ \/ r.op = "charge" /\ r.of \in Subjects
              \/ r.op = "refund" /\ r.of \in Subjects
              \/ r.op = "grant" /\ r.of \in Orders
<1>1. CASE r \in [op : {"charge"}, of : Subjects, amount : Costs]
  BY <1>1, TransactionsAssumption
<1>2. CASE r \in [op : {"refund"}, of : Subjects, amount : {0}]
  BY <1>2
<1>3. CASE r \in [op : {"grant"}, of : Orders, amount : Allowances]
  BY <1>3, TransactionsAssumption
<1> QED
  BY <1>1, <1>2, <1>3 DEF Requests

(* An open transaction is about a user, whose balance and rows are typed.  *)
LEMMA OpenTypes ==
    ASSUME TypeOK, NEW t \in Txs, tx[t].pc # "idle"
    PROVE  /\ tx[t] \in Transaction
           /\ tx[t].request \in Requests
           /\ User(t) \in Users
           /\ User(t) = UserOf[tx[t].request.of]
           /\ balance[User(t)] \in IntBalance
           /\ ledger[User(t)] \in Seq(IntEntry)
<1>1. tx[t] \in Transaction /\ tx[t].request \in Requests
  BY DEF TypeOK
<1>2. tx[t].request.of \in Subjects \cup Orders
  BY <1>1, RequestTypes
<1>3. User(t) \in Users
  BY <1>2, TransactionsAssumption DEF User
<1> QED
  BY <1>1, <1>2, <1>3 DEF TypeOK, User

(* What is spent, given back or granted leaves whole numbers.              *)
LEMMA ArithmeticTypes ==
    ASSUME NEW b \in IntBalance, NEW n \in Nat
    PROVE  /\ L!Total(b) \in Int
           /\ L!Spend(b, n) \in IntBalance
           /\ L!ApplyGrant(b, n) \in IntBalance
<1>1. L!Spend(b, n) \in IntBalance
  BY DEF L!Spend, L!Least, IntBalance
<1>2. (n * SharePct) \div 100 \in Int
  BY TransactionsAssumption
<1>3. L!ApplyGrant(b, n) \in IntBalance
  BY <1>2 DEF L!ApplyGrant, L!SplitGrant, IntBalance
<1> QED
  BY <1>1, <1>3 DEF L!Total, IntBalance

(* A connection without a transaction, and one that has read nothing.      *)
LEMMA FreshType ==
    /\ Idle \in Transaction /\ Idle.pc = "idle"
    /\ \A r \in Requests, pc \in {"ensure", "find", "failed"} :
          Fresh(pc, r) \in Transaction /\ Fresh(pc, r).request = r /\ Fresh(pc, r).pc = pc
<1>1. NoBalance \in IntBalance
  BY DEF NoBalance, IntBalance
<1> QED
  BY <1>1 DEF Idle, Fresh, Transaction

-----------------------------------------------------------------------------
(* One statement of one connection.                                        *)

(* Whatever a connection does, it does to its own transaction.             *)
LEMMA OthersStay ==
    ASSUME TypeOK, NEW t \in Txs,
           (\E request \in Requests : Begin(t, request)) \/ Statement(t) \/ Crash(t)
    PROVE  \A x \in Txs \ {t} : tx'[x] = tx[x]
BY DEF Begin, Statement, Crash, EnsureRow, FindRow, InsertRow, LockRow, ReadBack, LookCharge,
       LookRefund, LookGrant, InsertEntry, Commit, Answer, TakeLock, CommitNothing, Rollback,
       ToWrite, Goto, TypeOK

(* A connection's transaction stays well formed, and the request of an open
   one is the one it began with.                                           *)
LEMMA TransactionTypes ==
    ASSUME TypeOK, NEW t \in Txs, Statement(t) \/ Crash(t)
    PROVE  /\ tx[t].pc # "idle"
           /\ tx'[t] \in Transaction
           /\ tx'[t] = Idle \/ tx'[t].request = tx[t].request
           /\ tx'[t].pc # "idle" => tx'[t].request = tx[t].request
<1>1. tx[t].pc # "idle"
  BY DEF Statement, Crash, EnsureRow, FindRow, InsertRow, LockRow, ReadBack, LookCharge, LookRefund,
         LookGrant, InsertEntry, Commit, Answer
<1> DEFINE r == tx[t].request
<1>2. /\ tx[t] \in Transaction /\ r \in Requests
      /\ r.amount \in Nat
      /\ User(t) \in Users
      /\ balance[User(t)] \in IntBalance
      /\ ledger[User(t)] \in Seq(IntEntry)
  BY <1>1, OpenTypes, RequestTypes
<1>3. Idle \in Transaction /\ Idle.pc = "idle"
  BY FreshType
<1>4. ASSUME NEW pc \in {"idle", "failed"}, Rollback(t, pc)
      PROVE  \/ tx'[t] = Idle
             \/ tx'[t] \in Transaction /\ tx'[t].request = r
  <2>1. CASE pc = "idle"
    BY <1>4, <2>1 DEF Rollback, TypeOK
  <2>2. CASE pc = "failed"
    <3>1. tx'[t] = Fresh("failed", r)
      BY <1>4, <2>2 DEF Rollback, TypeOK
    <3> QED
      BY <3>1, <1>2, FreshType
  <2> QED
    BY <2>1, <2>2
<1>5. ASSUME NEW pc \in {"ensure", "find", "insert", "lock", "look", "insert-entry", "update",
                          "aborted", "failed"}, Goto(t, pc)
      PROVE  tx'[t] \in Transaction /\ tx'[t].request = r /\ tx'[t].pc = pc
  BY <1>2, <1>5 DEF Goto, Transaction, TypeOK
<1>6. ASSUME TakeLock(t)
      PROVE  tx'[t] \in Transaction /\ tx'[t].request = r /\ tx'[t].pc # "idle"
  BY <1>2, <1>6 DEF TakeLock, Transaction, TypeOK
<1>7. ASSUME NEW key \in L!Key, NEW next \in IntBalance, ToWrite(t, key, next)
      PROVE  tx'[t] \in Transaction /\ tx'[t].request = r /\ tx'[t].pc # "idle"
  BY <1>2, <1>7 DEF ToWrite, Transaction, TypeOK
<1>8. CASE EnsureRow(t) \/ FindRow(t) \/ InsertRow(t) \/ LockRow(t)
  <2>1. CASE EnsureRow(t)
    BY <2>1, <1>5 DEF EnsureRow
  <2>2. CASE FindRow(t)
    BY <2>2, <1>5, <1>6 DEF FindRow
  <2>3. CASE InsertRow(t)
    BY <2>3, <1>5 DEF InsertRow
  <2>4. CASE LockRow(t)
    BY <2>4, <1>6 DEF LockRow
  <2> QED
    BY <1>8, <2>1, <2>2, <2>3, <2>4, <1>1
<1>9. CASE ReadBack(t) \/ InsertEntry(t) \/ Answer(t) \/ Crash(t) \/ Commit(t)
  <2>1. CASE ReadBack(t)
    BY <2>1, <1>1, <1>3, <1>4 DEF ReadBack
  <2>2. CASE InsertEntry(t)
    <3>1. CASE Goto(t, "update")
      BY <3>1, <1>1, <1>5
    <3>2. CASE Rollback(t, "idle") \/ Rollback(t, "failed")
      BY <3>2, <1>1, <1>3, <1>4
    <3> QED
      BY <2>2, <3>1, <3>2 DEF InsertEntry
  <2>3. CASE Answer(t) \/ Commit(t)
    BY <2>3, <1>1, <1>3 DEF Answer, Commit, TypeOK
  <2>4. CASE Crash(t)
    BY <2>4, <1>1, <1>3, <1>4 DEF Crash
  <2> QED
    BY <1>9, <2>1, <2>2, <2>3, <2>4, <1>1
<1>10. CASE LookCharge(t) \/ LookRefund(t) \/ LookGrant(t)
  <2>1. ASSUME CommitNothing(t)
        PROVE  tx'[t] = Idle
    BY <2>1 DEF CommitNothing, TypeOK
  <2>2. /\ L!Count(ledger[User(t)], "charge", r.of) \in Nat
        /\ L!Count(ledger[User(t)], "refund", r.of) \in Nat
        /\ tx[t].read \in IntBalance
        /\ User(t) = UserOf[r.of]
        /\ r.of \in Subjects \cup Orders
    BY <1>2, CountIsNat, RequestTypes DEF Transaction, User
  <2>3. L!Charges(r.of) \in Nat
    BY <2>2 DEF L!Charges
  <2>4. CASE LookCharge(t)
    <3>1. L!ChargeKey(r.of, L!Charges(r.of) + 1) \in L!Key
      BY <2>2, <2>3 DEF L!ChargeKey, L!Key
    <3>2. L!Spend(tx[t].read, r.amount) \in IntBalance
      BY <1>2, <2>2, ArithmeticTypes
    <3> QED
      BY <2>4, <2>1, <3>1, <3>2, <1>3, <1>7, <1>1 DEF LookCharge
  <2>5. CASE LookRefund(t)
    <3> DEFINE key == L!ChargeKey(r.of, L!Charges(r.of))
               charge == L!Row(ledger[User(t)], key)
               next == [rollover |-> tx[t].read.rollover - charge.rolloverDelta,
                        expiring |-> tx[t].read.expiring - charge.expiringDelta]
    <3>1. CASE L!Recorded(ledger[User(t)], key)
      <4>1. charge \in IntEntry
        BY <1>2, <3>1, RowIsEntry
      <4>2. next \in IntBalance
        BY <2>2, <4>1 DEF IntBalance, IntEntry
      <4>3. L!RefundKey(r.of, L!Charges(r.of)) \in L!Key
        BY <2>2, <2>3 DEF L!RefundKey, L!Key
      <4>4. CommitNothing(t) \/ ToWrite(t, L!RefundKey(r.of, L!Charges(r.of)), next)
        BY <2>5 DEF LookRefund
      <4> QED
        BY <2>1, <4>2, <4>3, <4>4, <1>3, <1>7, <1>1
    <3>2. CASE ~ L!Recorded(ledger[User(t)], key)
      BY <2>5, <3>2, <2>1, <1>3, <1>1 DEF LookRefund
    <3> QED
      BY <3>1, <3>2
  <2>6. CASE LookGrant(t)
    <3>1. L!GrantKey(r.of) \in L!Key
      BY <2>2 DEF L!GrantKey, L!Key
    <3>2. L!ApplyGrant(tx[t].read, r.amount) \in IntBalance
      BY <1>2, <2>2, ArithmeticTypes
    <3> QED
      BY <2>6, <2>1, <3>1, <3>2, <1>3, <1>7, <1>1 DEF LookGrant
  <2> QED
    BY <1>10, <2>4, <2>5, <2>6
<1> QED
  BY <1>8, <1>9, <1>10 DEF Statement

(* A connection that begins has a fresh transaction.                       *)
LEMMA BeginShape ==
    ASSUME TypeOK, NEW t \in Txs, NEW request \in Requests, Begin(t, request)
    PROVE  /\ tx[t].pc = "idle"
           /\ tx'[t] \in Transaction /\ tx'[t].request = request
           /\ tx'[t].pc \in {"find", "ensure"}
           /\ UNCHANGED <<balance, ledger, rows, creating, locked>>
<1>1. tx[t].pc = "idle" /\ UNCHANGED <<balance, ledger, rows, creating, locked>>
  BY DEF Begin
<1>2. PICK pc \in {"find", "ensure"} : tx'[t] = Fresh(pc, request)
  BY DEF Begin, TypeOK
<1> QED
  BY <1>1, <1>2, FreshType

(* What one statement of a connection can be.                              *)
LEMMA StatementShape ==
    ASSUME TypeOK, NEW t \in Txs, Statement(t) \/ Crash(t)
    PROVE  \/ TakeLock(t)
           \/ /\ UNCHANGED <<balance, ledger, rows, creating, locked>>
              /\ \/ LookCharge(t) \/ LookRefund(t) \/ LookGrant(t)
                 \/ InsertEntry(t) /\ Goto(t, "update")
              /\ tx[t].pc \in {"look", "insert-entry"}
              /\ tx'[t].pc \in {"insert-entry", "update"}
              /\ tx'[t].read = tx[t].read
           \/ /\ Release(t) /\ UNCHANGED <<balance, ledger>>
              /\ tx'[t].pc \in {"idle", "failed"}
              /\ CommitRow(t) \/ UNCHANGED rows
           \/ Commit(t)
           \/ /\ UNCHANGED <<balance, ledger, rows, locked>>
              /\ tx'[t].pc \in {"lock", "insert", "aborted", "idle"}
              /\ \/ creating' = [creating EXCEPT ![User(t)] = t]
                 \/ creating' = creating
<1>1. Idle.pc = "idle"
  BY FreshType
<1>2. \A r, pc : Fresh(pc, r).pc = pc
  BY DEF Fresh
<1>3. ASSUME NEW pc \in {"lock", "insert", "aborted", "update"}, Goto(t, pc)
      PROVE  tx'[t].pc = pc /\ tx'[t].read = tx[t].read
  BY <1>3 DEF Goto, TypeOK, Transaction
<1>4. ASSUME NEW key, NEW next, ToWrite(t, key, next)
      PROVE  /\ tx'[t].pc = "insert-entry" /\ tx'[t].read = tx[t].read
             /\ UNCHANGED <<balance, ledger, rows, creating, locked>>
  BY <1>4 DEF ToWrite, TypeOK, Transaction
<1>5. ASSUME CommitNothing(t)
      PROVE  /\ Release(t) /\ UNCHANGED <<balance, ledger>> /\ tx'[t].pc = "idle"
             /\ CommitRow(t)
  BY <1>5, <1>1 DEF CommitNothing, TypeOK
<1>6. ASSUME NEW pc \in {"idle", "failed"}, Rollback(t, pc)
      PROVE  /\ Release(t) /\ UNCHANGED <<balance, ledger, rows>>
             /\ tx'[t].pc \in {"idle", "failed"}
  BY <1>6, <1>1, <1>2 DEF Rollback, TypeOK
<1>7. CASE EnsureRow(t)
  BY <1>7, <1>3 DEF EnsureRow
<1>8. CASE FindRow(t)
  BY <1>8, <1>3 DEF FindRow
<1>9. CASE InsertRow(t)
  BY <1>9, <1>3 DEF InsertRow
<1>10. CASE LockRow(t)
  BY <1>10 DEF LockRow
<1>11. CASE ReadBack(t)
  BY <1>11, <1>6 DEF ReadBack
<1>12. CASE LookCharge(t)
  <2>1. tx[t].pc = "look"
    BY <1>12 DEF LookCharge
  <2>2. CommitNothing(t) \/ \E key, next : ToWrite(t, key, next)
    BY <1>12 DEF LookCharge
  <2> QED
    BY <1>12, <2>1, <2>2, <1>4, <1>5
<1>13. CASE LookRefund(t)
  <2>1. tx[t].pc = "look"
    BY <1>13 DEF LookRefund
  <2>2. CommitNothing(t) \/ \E key, next : ToWrite(t, key, next)
    BY <1>13 DEF LookRefund
  <2> QED
    BY <1>13, <2>1, <2>2, <1>4, <1>5
<1>14. CASE LookGrant(t)
  <2>1. tx[t].pc = "look"
    BY <1>14 DEF LookGrant
  <2>2. CommitNothing(t) \/ \E key, next : ToWrite(t, key, next)
    BY <1>14 DEF LookGrant
  <2> QED
    BY <1>14, <2>1, <2>2, <1>4, <1>5
<1>15. CASE InsertEntry(t)
  BY <1>15, <1>3, <1>6 DEF InsertEntry
<1>16. CASE Answer(t)
  BY <1>16, <1>1 DEF Answer, TypeOK
<1>17. CASE Crash(t)
  BY <1>17, <1>6 DEF Crash
<1>18. CASE Commit(t)
  BY <1>18
<1> QED
  BY <1>7, <1>8, <1>9, <1>10, <1>11, <1>12, <1>13, <1>14, <1>15, <1>16, <1>17, <1>18, Zenon DEF Statement

-----------------------------------------------------------------------------
(* The invariant, part by part.                                            *)

(* Some connection's step.                                                 *)
Step(t) == (\E request \in Requests : Begin(t, request)) \/ Statement(t) \/ Crash(t)

(* A planned row has one of the ledger's keys.                             *)
LEMMA PlannedKey ==
    ASSUME TypeOK, PlansHold, NEW t \in Txs, tx[t].pc \in {"insert-entry", "update"}
    PROVE  tx[t].key \in L!Key
<1> DEFINE s == tx[t].request.of
           l == ledger[User(t)]
<1>1. /\ tx[t].pc # "idle" /\ tx[t].request \in Requests /\ l \in Seq(IntEntry)
      /\ PlanFits(tx[t].request, tx[t].key, tx[t].next, balance[User(t)], l)
  BY OpenTypes DEF PlansHold, Planned
<1>2. L!Count(l, "charge", s) \in Nat /\ s \in Subjects \cup Orders
  BY <1>1, CountIsNat, RequestTypes
<1>3. /\ L!ChargeKey(s, L!Count(l, "charge", s) + 1) \in L!Key
      /\ L!RefundKey(s, L!Count(l, "charge", s)) \in L!Key
      /\ L!GrantKey(s) \in L!Key
  BY <1>2 DEF L!ChargeKey, L!RefundKey, L!GrantKey, L!Key
<1>4. \/ tx[t].request.op = "charge" \/ tx[t].request.op = "refund" \/ tx[t].request.op = "grant"
  BY <1>1, RequestTypes
<1> QED
  BY <1>1, <1>3, <1>4 DEF PlanFits, ChargePlan, RefundPlan, GrantPlan

(* Balances, rows, locks and transactions keep their types.                *)
LEMMA TypeStep ==
    ASSUME TypeOK, PlansHold, NEW t \in Txs, Step(t)
    PROVE  TypeOK'
<1>1. tx' \in [Txs -> Transaction]
  <2>1. tx' = [tx EXCEPT ![t] = tx'[t]]
    BY DEF Step, Begin, Statement, Crash, EnsureRow, FindRow, InsertRow, LockRow, ReadBack, LookCharge,
       LookRefund, LookGrant, InsertEntry, Commit, Answer, TakeLock, CommitNothing, Rollback,
       ToWrite, Goto, TypeOK
  <2>2. tx'[t] \in Transaction
    BY BeginShape, TransactionTypes DEF Step
  <2> QED
    BY <2>1, <2>2 DEF TypeOK
<1>2. \A x \in Txs : tx'[x].pc # "idle" => tx'[x].request \in Requests
  <2>1. \A x \in Txs \ {t} : tx'[x] = tx[x]
    BY OthersStay DEF Step
  <2>2. tx'[t].pc # "idle" => tx'[t].request \in Requests
    <3>1. CASE \E request \in Requests : Begin(t, request)
      BY <3>1, BeginShape
    <3>2. CASE Statement(t) \/ Crash(t)
      BY <3>2, TransactionTypes DEF TypeOK
    <3> QED
      BY <3>1, <3>2 DEF Step
  <2> QED
    BY <2>1, <2>2 DEF TypeOK
<1>3. /\ balance' \in [Users -> IntBalance] /\ ledger' \in [Users -> Seq(IntEntry)]
      /\ rows' \subseteq Users
      /\ creating' \in [Users -> Txs \cup {None}] /\ locked' \in [Users -> Txs \cup {None}]
  <2>1. CASE \E request \in Requests : Begin(t, request)
    BY <2>1 DEF Begin, TypeOK
  <2>2. CASE Statement(t) \/ Crash(t)
    <3>1. ASSUME Release(t)
          PROVE  creating' \in [Users -> Txs \cup {None}] /\ locked' \in [Users -> Txs \cup {None}]
      BY <3>1 DEF Release, TypeOK
    <3>2. CASE Commit(t)
      <4>1. tx[t].pc # "idle"
        BY <3>2 DEF Commit
      <4>2. /\ tx[t].read \in IntBalance /\ tx[t].next \in IntBalance
            /\ User(t) \in Users /\ ledger[User(t)] \in Seq(IntEntry)
        BY <4>1, OpenTypes DEF Transaction
      <4>3. tx[t].key \in L!Key
        BY <3>2, PlannedKey DEF Commit
      <4> DEFINE e == [key |-> tx[t].key,
                       rolloverDelta |-> tx[t].next.rollover - tx[t].read.rollover,
                       expiringDelta |-> tx[t].next.expiring - tx[t].read.expiring,
                       rolloverAfter |-> tx[t].next.rollover,
                       expiringAfter |-> tx[t].next.expiring]
      <4>4. e \in IntEntry
        BY <4>2, <4>3 DEF IntBalance, IntEntry
      <4>5. ledger' = [ledger EXCEPT ![User(t)] = Append(ledger[User(t)], e)]
        BY <3>2 DEF Commit, TypeOK
      <4> HIDE DEF e
      <4>6. Append(ledger[User(t)], e) \in Seq(IntEntry)
        BY <4>2, <4>4
      <4>7. ledger' \in [Users -> Seq(IntEntry)]
        BY <4>5, <4>6 DEF TypeOK
      <4>8. balance' \in [Users -> IntBalance] /\ rows' \subseteq Users /\ Release(t)
        BY <3>2, <4>2 DEF Commit, CommitRow, TypeOK
      <4> QED
        BY <4>7, <4>8, <3>1
    <3>3. CASE TakeLock(t)
      BY <3>3 DEF TakeLock, TypeOK
    <3> QED
      BY <2>2, <3>1, <3>2, <3>3, StatementShape DEF TypeOK, CommitRow
  <2> QED
    BY <2>1, <2>2 DEF Step
<1> QED
  BY <1>1, <1>2, <1>3 DEF TypeOK

Reading == {"look", "insert-entry", "update"}

(* Another connection that has read a balance keeps its row, and nobody
   commits to it.                                                          *)
LEMMA ReaderIsAlone ==
    ASSUME TypeOK, ReadersHoldTheRow, NEW t \in Txs, Step(t),
           NEW x \in Txs \ {t}, tx[x].pc \in Reading
    PROVE  /\ tx'[x] = tx[x] /\ User(x)' = User(x)
           /\ locked'[User(x)] = x
           /\ balance'[User(x)] = balance[User(x)] /\ ledger'[User(x)] = ledger[User(x)]
<1>1. tx'[x] = tx[x] /\ User(x)' = User(x)
  BY OthersStay DEF Step, User
<1>2. User(x) \in Users /\ locked[User(x)] = x /\ x # None /\ x # t
  BY OpenTypes, TransactionsAssumption DEF Reading, ReadersHoldTheRow
<1>3. ASSUME Release(t)
      PROVE  locked'[User(x)] = x
  BY <1>2, <1>3 DEF Release
<1>4. CASE \E request \in Requests : Begin(t, request)
  BY <1>1, <1>2, <1>4 DEF Begin
<1>5. CASE TakeLock(t)
  <2>1. User(t) # User(x)
    BY <1>2, <1>5 DEF TakeLock
  <2> QED
    BY <1>1, <1>2, <1>5, <2>1 DEF TakeLock, TypeOK
<1>6. CASE Commit(t)
  <2>1. User(t) # User(x)
    BY <1>2, <1>6 DEF Commit, ReadersHoldTheRow
  <2>2. Release(t)
    BY <1>6 DEF Commit
  <2> QED
    BY <1>1, <1>2, <1>3, <1>6, <2>1, <2>2 DEF Commit, TypeOK
<1>7. CASE Statement(t) \/ Crash(t)
  BY <1>1, <1>2, <1>3, <1>5, <1>6, <1>7, StatementShape
<1> QED
  BY <1>4, <1>7 DEF Step

(* A connection that has read a balance by its own step: it just took the
   lock, or it had read before and nothing changed.                        *)
LEMMA ReaderByItself ==
    ASSUME TypeOK, NEW t \in Txs, Step(t), tx'[t].pc \in Reading
    PROVE  /\ User(t)' = User(t)
           /\ UNCHANGED <<balance, ledger>>
           /\ \/ TakeLock(t) /\ tx'[t].pc = "look"
              \/ /\ \/ LookCharge(t) \/ LookRefund(t) \/ LookGrant(t)
                    \/ InsertEntry(t) /\ Goto(t, "update")
                 /\ UNCHANGED locked
                 /\ tx[t].pc \in {"look", "insert-entry"}
                 /\ tx'[t].pc \in {"insert-entry", "update"}
                 /\ tx'[t].read = tx[t].read
<1>1. Statement(t) \/ Crash(t)
  BY BeginShape DEF Step, Reading
<1>2. User(t)' = User(t)
  BY <1>1, TransactionTypes DEF User, Reading
<1>3. ~ Commit(t)
  <2>1. SUFFICES ASSUME Commit(t) PROVE FALSE
    OBVIOUS
  <2>2. tx'[t] = Idle
    BY <2>1 DEF Commit, TypeOK
  <2> QED
    BY <2>2, FreshType DEF Reading
<1>4. CASE TakeLock(t)
  BY <1>2, <1>4 DEF TakeLock, TypeOK
<1>5. CASE ~ TakeLock(t)
  <2>1. /\ tx'[t].pc \notin {"idle", "failed"}
        /\ tx'[t].pc \notin {"lock", "insert", "aborted", "idle"}
    BY DEF Reading
  <2>2. /\ UNCHANGED <<balance, ledger, rows, creating, locked>>
        /\ \/ LookCharge(t) \/ LookRefund(t) \/ LookGrant(t)
           \/ InsertEntry(t) /\ Goto(t, "update")
        /\ tx[t].pc \in {"look", "insert-entry"}
        /\ tx'[t].pc \in {"insert-entry", "update"}
        /\ tx'[t].read = tx[t].read
    BY <1>1, <1>3, <1>5, <2>1, StatementShape
  <2> QED
    BY <1>2, <2>2
<1> QED
  BY <1>4, <1>5

(* Whoever has read a balance still holds its row, and has read what is
   committed.                                                              *)
LEMMA ReadStep ==
    ASSUME TypeOK, ReadersHoldTheRow, ReadIsCurrent, NEW t \in Txs, Step(t)
    PROVE  ReadersHoldTheRow' /\ ReadIsCurrent'
<1> SUFFICES ASSUME NEW x \in Txs, tx'[x].pc \in Reading
             PROVE  locked'[User(x)'] = x /\ tx'[x].read = balance'[User(x)']
  BY DEF ReadersHoldTheRow, ReadIsCurrent, Reading
<1>1. CASE x # t
  <2>1. tx'[x] = tx[x]
    BY <1>1, OthersStay DEF Step
  <2> QED
    BY <1>1, <2>1, ReaderIsAlone DEF ReadIsCurrent, Reading
<1>2. CASE x = t
  <2>1. CASE TakeLock(t)
    <3>1. User(t) \in Users
      <4>1. tx[t].pc # "idle"
        BY <1>2, TransactionTypes, BeginShape DEF Step, Reading
      <4> QED
        BY <4>1, OpenTypes
    <3>2. locked'[User(t)] = t
      BY <2>1, <3>1 DEF TakeLock, TypeOK
    <3>3. tx'[t].read = balance[User(t)]
      BY <2>1, <3>1 DEF TakeLock, TypeOK, Transaction
    <3>4. User(t)' = User(t) /\ balance' = balance
      BY <1>2, ReaderByItself
    <3> QED
      BY <1>2, <3>2, <3>3, <3>4
  <2>2. CASE ~ TakeLock(t)
    BY <1>2, <2>2, ReaderByItself DEF ReadersHoldTheRow, ReadIsCurrent
  <2> QED
    BY <2>1, <2>2
<1> QED
  BY <1>1, <1>2

(* What is planned from a current balance stays what the whole operation
   would write.                                                            *)
LEMMA PlanStep ==
    ASSUME TypeOK, ReadersHoldTheRow, ReadIsCurrent, PlansHold, NEW t \in Txs, Step(t)
    PROVE  PlansHold'
<1> SUFFICES ASSUME NEW x \in Txs, tx'[x].pc \in {"insert-entry", "update"}
             PROVE  Planned(x)'
  BY DEF PlansHold
<1>1. CASE x # t
  <2>1. tx'[x] = tx[x]
    BY <1>1, OthersStay DEF Step
  <2>2. Planned(x)
    BY <2>1 DEF PlansHold
  <2>3. /\ User(x)' = User(x) /\ balance'[User(x)] = balance[User(x)]
        /\ ledger'[User(x)] = ledger[User(x)]
    BY <1>1, <2>1, ReaderIsAlone DEF Reading
  <2> QED
    BY <2>1, <2>2, <2>3 DEF Planned
<1>2. CASE x = t
  <2> DEFINE r == tx[t].request
  <2>1. /\ User(t)' = User(t) /\ UNCHANGED <<balance, ledger>>
        /\ \/ LookCharge(t) \/ LookRefund(t) \/ LookGrant(t)
           \/ InsertEntry(t) /\ Goto(t, "update")
        /\ tx[t].pc \in {"look", "insert-entry"}
    BY <1>2, ReaderByItself DEF Reading
  <2>2. /\ tx[t] \in Transaction /\ r \in Requests /\ User(t) = UserOf[r.of]
        /\ tx[t].read = balance[User(t)]
    BY <2>1, OpenTypes DEF ReadIsCurrent
  <2>3. ASSUME NEW key, NEW next, ToWrite(t, key, next)
        PROVE  tx'[t].request = r /\ tx'[t].key = key /\ tx'[t].next = next
    BY <2>2, <2>3 DEF ToWrite, Transaction, TypeOK
  <2>4. ~ CommitNothing(t)
    <3>1. SUFFICES ASSUME CommitNothing(t) PROVE FALSE
      OBVIOUS
    <3>2. tx'[t] = Idle
      BY <3>1 DEF CommitNothing, TypeOK
    <3> QED
      BY <1>2, <3>2, FreshType
  <2> DEFINE b == balance[User(t)]
             l == ledger[User(t)]
  <2>5. L!Charges(r.of) = L!Count(l, "charge", r.of) /\ L!Refunds(r.of) = L!Count(l, "refund", r.of)
    BY <2>2 DEF L!Charges, L!Refunds
  <2>6. PlanFits(tx'[t].request, tx'[t].key, tx'[t].next, b, l)
    <3>1. CASE LookCharge(t)
      <4>1. /\ r.op = "charge"
            /\ ~ (L!Charges(r.of) > L!Refunds(r.of) \/ L!Total(tx[t].read) < r.amount)
            /\ ToWrite(t, L!ChargeKey(r.of, L!Charges(r.of) + 1), L!Spend(tx[t].read, r.amount))
        BY <3>1, <2>4 DEF LookCharge
      <4>2. /\ L!Count(l, "charge", r.of) \in Nat /\ L!Count(l, "refund", r.of) \in Nat
            /\ L!Total(b) \in Int /\ r.amount \in Nat
        BY <2>1, <2>2, OpenTypes, CountIsNat, RequestTypes, ArithmeticTypes
      <4>3. /\ tx'[t].key = L!ChargeKey(r.of, L!Count(l, "charge", r.of) + 1)
            /\ tx'[t].next = L!Spend(b, r.amount)
        BY <4>1, <2>2, <2>3, <2>5
      <4>4. L!Count(l, "charge", r.of) <= L!Count(l, "refund", r.of) /\ r.amount <= L!Total(b)
        <5>1. /\ ~ (L!Count(l, "charge", r.of) > L!Count(l, "refund", r.of))
              /\ ~ (L!Total(b) < r.amount)
          BY <4>1, <2>2, <2>5, Zenon
        <5> HIDE DEF r, b, l
        <5> QED
          BY <4>2, <5>1
      <4>5. ChargePlan(r.of, r.amount, tx'[t].key, tx'[t].next, b, l)
        BY <4>3, <4>4, Zenon DEF ChargePlan
      <4> QED
        BY <4>1, <4>5, <2>3 DEF PlanFits
    <3>2. CASE LookRefund(t)
      <4> DEFINE key == L!ChargeKey(r.of, L!Charges(r.of))
                 charge == L!Row(l, key)
      <4>1. /\ r.op = "refund"
            /\ ~ (L!Charges(r.of) <= L!Refunds(r.of) \/ ~ L!Recorded(l, key))
            /\ ToWrite(t, L!RefundKey(r.of, L!Charges(r.of)),
                       [rollover |-> tx[t].read.rollover - charge.rolloverDelta,
                        expiring |-> tx[t].read.expiring - charge.expiringDelta])
        BY <3>2, <2>4 DEF LookRefund
      <4>2. L!Count(l, "charge", r.of) \in Nat /\ L!Count(l, "refund", r.of) \in Nat
        BY <2>1, <2>2, OpenTypes, CountIsNat
      <4>3. /\ tx'[t].key = L!RefundKey(r.of, L!Count(l, "charge", r.of))
            /\ tx'[t].next = [rollover |-> b.rollover - charge.rolloverDelta,
                              expiring |-> b.expiring - charge.expiringDelta]
        BY <4>1, <2>2, <2>3, <2>5
      <4>4. L!Count(l, "charge", r.of) > L!Count(l, "refund", r.of) /\ L!Recorded(l, key)
        BY <4>1, <4>2, <2>5
      <4>5. key = L!ChargeKey(r.of, L!Count(l, "charge", r.of))
        BY <2>5
      <4>6. RefundPlan(r.of, tx'[t].key, tx'[t].next, b, l)
        BY <4>3, <4>4, <4>5, Zenon DEF RefundPlan
      <4> QED
        BY <4>1, <4>6, <2>3 DEF PlanFits
    <3>3. CASE LookGrant(t)
      <4>1. /\ r.op = "grant"
            /\ ~ L!Recorded(l, L!GrantKey(r.of))
            /\ ToWrite(t, L!GrantKey(r.of), L!ApplyGrant(tx[t].read, r.amount))
        BY <3>3, <2>4 DEF LookGrant
      <4>2. GrantPlan(r.of, r.amount, tx'[t].key, tx'[t].next, b, l)
        BY <4>1, <2>2, <2>3 DEF GrantPlan
      <4> QED
        BY <4>1, <4>2, <2>3 DEF PlanFits
    <3>4. CASE InsertEntry(t) /\ Goto(t, "update")
      <4>1. tx'[t].request = r /\ tx'[t].key = tx[t].key /\ tx'[t].next = tx[t].next
        BY <3>4, <2>2 DEF Goto, Transaction, TypeOK
      <4>2. Planned(t)
        BY <3>4 DEF InsertEntry, PlansHold
      <4> QED
        BY <4>1, <4>2 DEF Planned
    <3> QED
      BY <2>1, <3>1, <3>2, <3>3, <3>4
  <2> QED
    BY <1>2, <2>1, <2>6 DEF Planned
<1> QED
  BY <1>1, <1>2

(* Every open transaction keeps room for its row.                          *)
LEMMA RoomStep ==
    ASSUME TypeOK, HasRoom, NEW t \in Txs, Step(t)
    PROVE  HasRoom'
<1> SUFFICES ASSUME NEW u \in Users
             PROVE  Len(ledger'[u]) + Cardinality(OpenOf(u)') <= MaxEntries
  BY DEF HasRoom
<1> DEFINE open == OpenOf(u)
           after == OpenOf(u)'
           n == Len(ledger[u])
<1>1. /\ IsFiniteSet(open) /\ IsFiniteSet(after)
      /\ Cardinality(open) \in Nat /\ Cardinality(after) \in Nat
  BY FS_Subset, FS_CardinalityType, TransactionsAssumption DEF OpenOf
<1>2. n \in Nat /\ n + Cardinality(open) <= MaxEntries /\ MaxEntries \in Nat
  BY TransactionsAssumption DEF TypeOK, HasRoom
<1>3. \A x \in Txs \ {t} : tx'[x] = tx[x] /\ (x \in after <=> x \in open)
  BY OthersStay DEF Step, OpenOf, User
<1>4. after \subseteq Txs /\ open \subseteq Txs
  BY DEF OpenOf
<1>5. ASSUME after \subseteq open
      PROVE  Cardinality(after) <= Cardinality(open)
  BY <1>1, <1>5, FS_Subset
<1>6. CASE \E request \in Requests : Begin(t, request)
  <2>1. PICK request \in Requests : Begin(t, request)
    BY <1>6
  <2>2. ledger' = ledger /\ tx[t].pc = "idle" /\ User(t)' = UserOf[request.of]
    BY <2>1, BeginShape DEF User
  <2>3. CASE UserOf[request.of] = u
    <3>1. n + Cardinality(open) < MaxEntries
      BY <2>1, <2>3 DEF Begin, Room
    <3>2. after \subseteq open \cup {t}
      BY <1>3, <1>4
    <3>3. /\ IsFiniteSet(open \cup {t}) /\ Cardinality(open \cup {t}) \in Nat
          /\ Cardinality(open \cup {t}) <= Cardinality(open) + 1
      <4>1. /\ IsFiniteSet(open \cup {t})
            /\ Cardinality(open \cup {t})
                 = IF t \in open THEN Cardinality(open) ELSE Cardinality(open) + 1
        BY <1>1, FS_AddElement
      <4> HIDE DEF open
      <4> QED
        BY <1>1, <4>1
    <3>4. Cardinality(after) <= Cardinality(open \cup {t})
      BY <3>2, <3>3, FS_Subset
    <3> HIDE DEF open, after
    <3> QED
      BY <1>1, <1>2, <2>2, <3>1, <3>3, <3>4 DEF after
  <2>4. CASE UserOf[request.of] # u
    <3>1. t \notin after
      BY <2>2, <2>4 DEF OpenOf
    <3>2. after \subseteq open
      BY <1>3, <1>4, <3>1
    <3> QED
      BY <1>1, <1>2, <1>5, <2>2, <3>2
  <2> QED
    BY <2>3, <2>4
<1>7. CASE Statement(t) \/ Crash(t)
  <2>1. /\ tx[t].pc # "idle"
        /\ tx'[t].pc # "idle" => tx'[t].request = tx[t].request
    BY <1>7, TransactionTypes
  <2>2. t \in after => t \in open
    BY <2>1 DEF OpenOf, User
  <2>3. after \subseteq open
    BY <1>3, <1>4, <2>2
  <2>4. CASE Commit(t) /\ User(t) = u
    <3>1. t \in open /\ t \notin after
      <4>1. tx'[t] = Idle
        BY <2>4 DEF Commit, TypeOK
      <4> QED
        BY <2>1, <2>4, <4>1, FreshType DEF OpenOf
    <3>2. after \subseteq open \ {t}
      BY <2>3, <3>1
    <3>3. /\ IsFiniteSet(open \ {t})
          /\ Cardinality(open \ {t}) = Cardinality(open) - 1
      BY <1>1, <3>1, FS_RemoveElement
    <3>4. Cardinality(after) <= Cardinality(open) - 1
      BY <3>2, <3>3, FS_Subset
    <3>5. Len(ledger'[u]) = n + 1
      <4>1. ledger[u] \in Seq(IntEntry)
        BY DEF TypeOK
      <4>2. PICK e : ledger'[u] = Append(ledger[u], e)
        BY <2>4 DEF Commit, TypeOK
      <4>3. Len(Append(ledger[u], e)) = Len(ledger[u]) + 1
        BY <4>1
      <4> QED
        BY <4>2, <4>3
    <3> HIDE DEF open, after, n
    <3> QED
      BY <1>1, <1>2, <3>4, <3>5 DEF after
  <2>5. CASE ~ (Commit(t) /\ User(t) = u)
    <3>1. ledger'[u] = ledger[u]
      <4>1. CASE Commit(t)
        BY <2>5, <4>1 DEF Commit, TypeOK
      <4>2. CASE ~ Commit(t)
        BY <1>7, <4>2, StatementShape DEF TakeLock
      <4> QED
        BY <4>1, <4>2
    <3>2. Cardinality(after) <= Cardinality(open)
      BY <1>5, <2>3
    <3> HIDE DEF open, after, n
    <3> QED
      BY <1>1, <1>2, <3>1, <3>2 DEF after, n
  <2> QED
    BY <2>4, <2>5
<1> QED
  BY <1>6, <1>7 DEF Step

-----------------------------------------------------------------------------
(* The theorems.                                                           *)

LEMMA TransactionsInit == Init => TransactionsInv
<1> SUFFICES ASSUME Init PROVE TransactionsInv
  OBVIOUS
<1>1. Idle \in Transaction /\ Idle.pc = "idle" /\ NoBalance \in IntBalance
  BY FreshType DEF NoBalance, IntBalance
<1>2. TypeOK
  BY <1>1 DEF Init, TypeOK
<1>3. ReadersHoldTheRow /\ ReadIsCurrent /\ PlansHold
  BY <1>1 DEF Init, ReadersHoldTheRow, ReadIsCurrent, PlansHold
<1>4. HasRoom
  <2>1. \A u \in Users : OpenOf(u) = {}
    BY <1>1 DEF Init, OpenOf
  <2>2. \A u \in Users : Len(ledger[u]) = 0
    BY DEF Init
  <2>3. \A u \in Users : Cardinality(OpenOf(u)) = 0
    <3>1. Cardinality({}) = 0
      BY FS_EmptySet
    <3> QED
      BY <2>1, <3>1
  <2> QED
    BY <2>2, <2>3, TransactionsAssumption DEF HasRoom
<1> QED
  BY <1>2, <1>3, <1>4 DEF TransactionsInv

LEMMA TransactionsStep == TransactionsInv /\ [Next]_vars => TransactionsInv'
<1> SUFFICES ASSUME TransactionsInv, [Next]_vars PROVE TransactionsInv'
  OBVIOUS
<1>1. CASE Next
  <2>1. PICK t \in Txs : Step(t)
    BY <1>1 DEF Next, Step
  <2> QED
    BY <2>1, TypeStep, ReadStep, PlanStep, RoomStep DEF TransactionsInv
<1>2. CASE UNCHANGED vars
  BY <1>2 DEF vars, TransactionsInv, TypeOK, ReadersHoldTheRow, ReadIsCurrent, PlansHold, Planned,
              HasRoom, OpenOf, User
<1> QED
  BY <1>1, <1>2

(* For every number of connections, users and subjects: the inductive
   invariant of the interleaved transactions (db.py charge_credits and
   refund_credits, billing.service.ts grant).                              *)
THEOREM TransactionsInvHolds == Spec => []TransactionsInv
BY TransactionsInit, TransactionsStep, PTL DEF Spec

(* A balance that a transaction has read stays the committed one until the
   transaction ends: SELECT .. FOR UPDATE loses no update.                 *)
THEOREM ReadIsCurrentHolds == Spec => []ReadIsCurrent
<1>1. TransactionsInv => ReadIsCurrent
  BY DEF TransactionsInv
<1> QED
  BY <1>1, TransactionsInvHolds, PTL

(* A commit is one of CreditLedger's operations, whole.                    *)
LEMMA CommitIsAnOperation ==
    ASSUME TransactionsInv, NEW t \in Txs, Commit(t)
    PROVE  L!Next
<1> DEFINE r == tx[t].request
           u == User(t)
           l == ledger[u]
           key == tx[t].key
           next == tx[t].next
<1>1. TypeOK /\ HasRoom /\ Planned(t) /\ tx[t].read = balance[u] /\ tx[t].pc = "update"
  BY DEF TransactionsInv, ReadIsCurrent, PlansHold, Commit
<1>2. r \in Requests /\ u = UserOf[r.of] /\ u \in Users /\ l \in Seq(IntEntry)
  BY <1>1, OpenTypes
<1>3. Len(l) < MaxEntries
  <2>1. IsFiniteSet(OpenOf(u)) /\ t \in OpenOf(u)
    BY <1>1, FS_Subset, TransactionsAssumption DEF OpenOf
  <2>2. Cardinality(OpenOf(u)) \in Nat /\ Cardinality(OpenOf(u)) # 0
    BY <2>1, FS_CardinalityType, FS_EmptySet
  <2>3. Len(l) + Cardinality(OpenOf(u)) <= MaxEntries
    BY <1>1, <1>2 DEF HasRoom
  <2> QED
    BY <1>2, <2>2, <2>3, TransactionsAssumption
<1>4. L!Write(u, key, next)
  <2>1. ledger' = [ledger EXCEPT ![u] = Append(@, L!NewRow(u, key, next))]
    BY <1>1 DEF Commit, L!NewRow
  <2>2. balance' = [balance EXCEPT ![u] = next]
    BY DEF Commit
  <2> QED
    BY <1>3, <2>1, <2>2 DEF L!Write
<1>5. L!Charges(r.of) = L!Count(l, "charge", r.of) /\ L!Refunds(r.of) = L!Count(l, "refund", r.of)
  BY <1>2 DEF L!Charges, L!Refunds
<1>6. PlanFits(r, key, next, balance[u], l)
  BY <1>1 DEF Planned
<1>7. CASE r.op = "charge"
  <2>1. r.of \in Subjects /\ r.amount \in Costs
    BY <1>2, <1>7 DEF Requests
  <2>2. ChargePlan(r.of, r.amount, key, next, balance[u], l)
    BY <1>6, <1>7 DEF PlanFits
  <2>3. /\ L!Charges(r.of) <= L!Refunds(r.of) /\ r.amount <= L!Total(balance[u])
        /\ key = L!ChargeKey(r.of, L!Charges(r.of) + 1)
        /\ next = L!Spend(balance[u], r.amount)
    <3>1. /\ L!Count(l, "charge", r.of) <= L!Count(l, "refund", r.of)
          /\ r.amount <= L!Total(balance[u])
          /\ key = L!ChargeKey(r.of, L!Count(l, "charge", r.of) + 1)
          /\ next = L!Spend(balance[u], r.amount)
      BY <2>2, Zenon DEF ChargePlan
    <3> QED
      BY <3>1, <1>5, Zenon
  <2>4. L!ChargeCredits(r.of, r.amount)
    <3>1. L!Write(UserOf[r.of], L!ChargeKey(r.of, L!Charges(r.of) + 1),
                  L!Spend(balance[UserOf[r.of]], r.amount))
      BY <1>2, <1>4, <2>3, Zenon
    <3> QED
      BY <1>2, <2>3, <3>1, Zenon DEF L!ChargeCredits
  <2> QED
    BY <2>1, <2>4 DEF L!Next
<1>8. CASE r.op = "refund"
  <2>1. r.of \in Subjects
    BY <1>2, <1>8 DEF Requests
  <2>2. L!RefundCredits(r.of)
    BY <1>2, <1>4, <1>5, <1>6, <1>8 DEF PlanFits, RefundPlan, L!RefundCredits
  <2> QED
    BY <2>1, <2>2 DEF L!Next
<1>9. CASE r.op = "grant"
  <2>1. r.of \in Orders /\ r.amount \in Allowances
    BY <1>2, <1>9 DEF Requests
  <2>2. L!GrantCredits(r.of, r.amount)
    BY <1>2, <1>4, <1>6, <1>9 DEF PlanFits, GrantPlan, L!GrantCredits
  <2> QED
    BY <2>1, <2>2 DEF L!Next
<1> QED
  BY <1>2, <1>7, <1>8, <1>9, RequestTypes

(* However statements interleave, connections are lost and transactions
   roll back, the committed balances and rows move only by CreditLedger's
   whole operations: everything proved of CreditLedger holds of them.      *)
THEOREM TransactionsImplementLedger == Spec => ImplementsLedger
<1>1. Init => L!Init
  BY DEF Init, L!Init, NoBalance
<1>2. TransactionsInv /\ [Next]_vars => [L!Next]_L!vars
  <2> SUFFICES ASSUME TransactionsInv, [Next]_vars PROVE [L!Next]_L!vars
    OBVIOUS
  <2>1. CASE UNCHANGED vars
    BY <2>1 DEF vars, L!vars
  <2>2. ASSUME NEW t \in Txs, Step(t) PROVE [L!Next]_L!vars
    <3>1. CASE Commit(t)
      BY <3>1, CommitIsAnOperation
    <3>2. CASE ~ Commit(t)
      <4>1. CASE \E request \in Requests : Begin(t, request)
        BY <4>1 DEF Begin, L!vars
      <4>2. CASE Statement(t) \/ Crash(t)
        BY <3>2, <4>2, StatementShape DEF TransactionsInv, TakeLock, L!vars
      <4> QED
        BY <2>2, <4>1, <4>2 DEF Step
    <3> QED
      BY <3>1, <3>2
  <2> QED
    BY <2>1, <2>2 DEF Next, Step
<1> QED
  BY <1>1, <1>2, TransactionsInvHolds, PTL DEF Spec, ImplementsLedger, L!Spec

-----------------------------------------------------------------------------
(* What CreditLedgerProofs proves, of the committed state.                 *)
P == INSTANCE CreditLedgerProofs

(* L and P are two instances of CreditLedger, of the model and of its
   proofs.  They read the same of the ledger,                              *)
LEMMA SameRows ==
    /\ \A l, kind, s : L!Count(l, kind, s) = P!Count(l, kind, s)
    /\ \A l, key : L!Recorded(l, key) <=> P!Recorded(l, key)
    /\ \A l, key : L!Row(l, key) = P!Row(l, key)
    /\ \A s : L!Charges(s) = P!Charges(s) /\ L!Refunds(s) = P!Refunds(s)
<1>1. ASSUME NEW l, NEW kind, NEW s PROVE L!Count(l, kind, s) = P!Count(l, kind, s)
  <2>1. L!Matching(l, kind, s) = P!Matching(l, kind, s)
    BY DEF L!Matching, P!Matching
  <2> QED
    BY <2>1 DEF L!Count, P!Count, L!Cardinality, P!Cardinality
<1>2. \A l, kind, s : L!Count(l, kind, s) = P!Count(l, kind, s)
  BY <1>1
<1>3. \A l, key : L!Row(l, key) = P!Row(l, key)
  BY DEF L!Row, P!Row
<1>4. \A l, key : L!Recorded(l, key) <=> P!Recorded(l, key)
  BY DEF L!Recorded, P!Recorded
<1> QED
  BY <1>2, <1>3, <1>4 DEF L!Charges, P!Charges, L!Refunds, P!Refunds

(* make the same steps,                                                    *)
LEMMA SameSteps == [L!Next]_L!vars => [P!Next]_P!vars
<1>1. UNCHANGED L!vars => UNCHANGED P!vars
  BY DEF L!vars, P!vars
<1>2. \A u, key, next : L!Write(u, key, next) => P!Write(u, key, next)
  BY DEF L!Write, P!Write, L!NewRow, P!NewRow
<1>3. \A b, cost : L!Spend(b, cost) = P!Spend(b, cost) /\ L!Total(b) = P!Total(b)
  BY DEF L!Spend, P!Spend, L!Least, P!Least, L!Total, P!Total
<1>4. \A b, credits : L!ApplyGrant(b, credits) = P!ApplyGrant(b, credits)
  BY DEF L!ApplyGrant, P!ApplyGrant, L!SplitGrant, P!SplitGrant
<1>5. ASSUME NEW s \in Subjects, NEW cost \in Costs, L!ChargeCredits(s, cost)
      PROVE  P!ChargeCredits(s, cost)
  BY <1>2, <1>3, <1>5, SameRows
     DEF L!ChargeCredits, P!ChargeCredits, L!ChargeKey, P!ChargeKey
<1>6. ASSUME NEW s \in Subjects, L!RefundCredits(s) PROVE P!RefundCredits(s)
  BY <1>2, <1>6, SameRows
     DEF L!RefundCredits, P!RefundCredits, L!ChargeKey, P!ChargeKey, L!RefundKey, P!RefundKey
<1>7. ASSUME NEW o \in Orders, NEW credits \in Allowances, L!GrantCredits(o, credits)
      PROVE  P!GrantCredits(o, credits)
  BY <1>2, <1>4, <1>7, SameRows
     DEF L!GrantCredits, P!GrantCredits, L!GrantKey, P!GrantKey
<1>8. L!Next => P!Next
  BY <1>5, <1>6, <1>7 DEF L!Next, P!Next
<1> QED
  BY <1>1, <1>8

(* start from the same state,                                              *)
LEMMA SameInit == L!Init => P!Init
BY DEF L!Init, P!Init

(* and claim the same.                                                     *)
LEMMA SameProperties ==
    P!LedgerInv => /\ L!TypeOK
                   /\ L!LedgerExplainsBalance
                   /\ L!AtMostOneOpenCharge
                   /\ L!KeysAreUnique
                   /\ L!RefundUndoesItsCharge
<1>1. P!TypeOK => L!TypeOK
  BY DEF L!TypeOK, P!TypeOK, L!Balance, P!Balance, L!Entry, P!Entry, L!Key, P!Key
<1>2. P!LedgerExplainsBalance => L!LedgerExplainsBalance
  BY DEF L!LedgerExplainsBalance, P!LedgerExplainsBalance, L!Before, P!Before
<1>3. P!AtMostOneOpenCharge => L!AtMostOneOpenCharge
  BY SameRows DEF L!AtMostOneOpenCharge, P!AtMostOneOpenCharge
<1>4. P!KeysAreUnique => L!KeysAreUnique
  BY DEF L!KeysAreUnique, P!KeysAreUnique
<1>5. P!RefundUndoesItsCharge => L!RefundUndoesItsCharge
  BY DEF L!RefundUndoesItsCharge, P!RefundUndoesItsCharge, L!ChargeKey, P!ChargeKey
<1> QED
  BY <1>1, <1>2, <1>3, <1>4, <1>5 DEF P!LedgerInv

(* Amounts of work are at least one credit (charge in jobs/base.py returns
   early for the others), and the rollover share is a share (splitGrant in
   credits.ts throws otherwise): what CreditLedger assumes of its constants. *)
CreditHypothesis == Costs \subseteq Nat \ {0} /\ SharePct \in 0 .. 100

(* With several connections open at once, statements interleaved and
   transactions rolled back anywhere, the committed rows still explain the
   committed balance, no subject has two open charges, no idempotency key
   repeats and every refund undoes its charge.                             *)
THEOREM CommittedLedgerIsSound ==
    ASSUME CreditHypothesis
    PROVE  Spec => [](/\ L!TypeOK
                      /\ L!LedgerExplainsBalance
                      /\ L!AtMostOneOpenCharge
                      /\ L!KeysAreUnique
                      /\ L!RefundUndoesItsCharge)
<1>1. L!Init => P!LedgerInv
  BY SameInit, P!LedgerInvInit, TransactionsAssumption DEF CreditHypothesis
<1>2. P!LedgerInv /\ [L!Next]_L!vars => P!LedgerInv'
  BY SameSteps, P!LedgerInvStep, TransactionsAssumption DEF CreditHypothesis
<1>3. L!Spec => []P!LedgerInv
  BY <1>1, <1>2, PTL DEF L!Spec
<1>4. Spec => L!Spec
  BY TransactionsImplementLedger DEF ImplementsLedger
<1> QED
  BY <1>3, <1>4, SameProperties, PTL
=============================================================================
