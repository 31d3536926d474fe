------------------------- MODULE CreditLedgerProofs -------------------------
(* Proofs about CreditLedger, for every set of users, subjects and orders,
   every set of costs and allowances and every length of the ledger.

   LedgerInv is inductive.  The argument is about numbering: a charge takes
   the number after the count of the subject's charges, a refund the number
   of the last charge.  That neither meets an existing row (KeysAreUnique),
   and that a refund finds its row, needs that the numbers in use are exactly
   1 .. count (Numbered and ChargesRecorded); that the refund restores the
   buckets needs that a charge only took (ChargesTake).                    *)
EXTENDS CreditLedger, TLAPS, FiniteSetTheorems, SequenceTheorems

-----------------------------------------------------------------------------
(* Counting rows.                                                          *)

(* Counting the rows of a subject gives a number.                          *)
LEMMA CountIsNat ==
    ASSUME NEW l \in Seq(Entry), NEW kind, NEW s
    PROVE  /\ IsFiniteSet(Matching(l, kind, s))
           /\ Count(l, kind, s) \in Nat
<1>1. IsFiniteSet(1 .. Len(l))
  BY FS_Interval
<1>2. IsFiniteSet(Matching(l, kind, s))
  BY <1>1, FS_Subset DEF Matching
<1> QED
  BY <1>2, FS_CardinalityType DEF Count

(* One more row adds one to the count of its own kind and subject, and
   leaves every other count alone.                                         *)
LEMMA CountAppend ==
    ASSUME NEW l \in Seq(Entry), NEW e \in Entry, NEW kind, NEW s
    PROVE  Count(Append(l, e), kind, s) =
              IF e.key.kind = kind /\ e.key.of = s THEN Count(l, kind, s) + 1
              ELSE Count(l, kind, s)
<1>1. /\ Len(l) \in Nat
      /\ Len(Append(l, e)) = Len(l) + 1
      /\ \A i \in 1 .. Len(l) : Append(l, e)[i] = l[i]
      /\ Append(l, e)[Len(l) + 1] = e
  BY AppendProperties
<1>2. Len(l) + 1 \notin Matching(l, kind, s)
  BY <1>1 DEF Matching
<1>3. CASE e.key.kind = kind /\ e.key.of = s
  <2>1. Matching(Append(l, e), kind, s) = Matching(l, kind, s) \cup {Len(l) + 1}
    BY <1>1, <1>3 DEF Matching
  <2>2. Cardinality(Matching(l, kind, s) \cup {Len(l) + 1})
           = Cardinality(Matching(l, kind, s)) + 1
    BY <1>2, CountIsNat, FS_AddElement
  <2> QED
    BY <1>3, <2>1, <2>2 DEF Count
<1>4. CASE ~ (e.key.kind = kind /\ e.key.of = s)
  <2>1. Matching(Append(l, e), kind, s) = Matching(l, kind, s)
    BY <1>1, <1>4 DEF Matching
  <2> QED
    BY <1>4, <2>1 DEF Count
<1> QED
  BY <1>3, <1>4

-----------------------------------------------------------------------------
(* What writing one row does, whatever the operation.                      *)

(* The row is the last one of its user, and no other row moves.            *)
LEMMA WriteAppends ==
    ASSUME TypeOK, NEW u \in Users, NEW key \in Key, NEW next \in Balance,
           Write(u, key, next)
    PROVE  /\ NewRow(u, key, next) \in Entry
           /\ TypeOK'
           /\ balance'[u] = next
           /\ Len(ledger[u]) \in Nat
           /\ Len(ledger'[u]) = Len(ledger[u]) + 1
           /\ ledger'[u] = Append(ledger[u], NewRow(u, key, next))
           /\ ledger'[u][Len(ledger[u]) + 1] = NewRow(u, key, next)
           /\ \A i \in 1 .. Len(ledger[u]) : ledger'[u][i] = ledger[u][i]
           /\ \A w \in Users \ {u} : ledger'[w] = ledger[w] /\ balance'[w] = balance[w]
<1>1. NewRow(u, key, next) \in Entry
  BY DEF TypeOK, NewRow, Entry, Balance
<1>2. ledger[u] \in Seq(Entry)
  BY DEF TypeOK
<1>3. ledger'[u] = Append(ledger[u], NewRow(u, key, next))
  BY DEF Write, TypeOK
<1>4. /\ Len(ledger[u]) \in Nat
      /\ Append(ledger[u], NewRow(u, key, next)) \in Seq(Entry)
      /\ Len(Append(ledger[u], NewRow(u, key, next))) = Len(ledger[u]) + 1
      /\ \A i \in 1 .. Len(ledger[u]) : Append(ledger[u], NewRow(u, key, next))[i] = ledger[u][i]
      /\ Append(ledger[u], NewRow(u, key, next))[Len(ledger[u]) + 1] = NewRow(u, key, next)
  BY <1>1, <1>2, AppendProperties
<1>5. TypeOK'
  BY <1>3, <1>4 DEF Write, TypeOK
<1> QED
  BY <1>1, <1>3, <1>4, <1>5 DEF Write, TypeOK

(* Writing a row counts it, and counts nothing else.                       *)
LEMMA WriteCounts ==
    ASSUME TypeOK, NEW u \in Users, NEW key \in Key, NEW next \in Balance,
           Write(u, key, next), NEW w \in Users, NEW kind, NEW s
    PROVE  /\ Count(ledger[w], kind, s) \in Nat
           /\ Count(ledger'[w], kind, s) =
                 IF w = u /\ key.kind = kind /\ key.of = s
                 THEN Count(ledger[w], kind, s) + 1
                 ELSE Count(ledger[w], kind, s)
<1>1. ledger[w] \in Seq(Entry)
  BY DEF TypeOK
<1>2. NewRow(u, key, next) \in Entry /\ NewRow(u, key, next).key = key
  BY WriteAppends DEF NewRow
<1>3. CASE w = u
  <2>1. ledger'[u] = Append(ledger[u], NewRow(u, key, next))
    BY WriteAppends
  <2>2. Count(Append(ledger[u], NewRow(u, key, next)), kind, s) =
           IF key.kind = kind /\ key.of = s THEN Count(ledger[u], kind, s) + 1
           ELSE Count(ledger[u], kind, s)
    BY <1>1, <1>2, <1>3, CountAppend
  <2> QED
    BY <1>1, <1>3, <2>1, <2>2, CountIsNat
<1>4. CASE w # u
  BY <1>1, <1>4, WriteAppends, CountIsNat
<1> QED
  BY <1>3, <1>4

(* A row under a key not yet used by its user keeps the ledger explaining
   the balance and the keys unique.                                        *)
LEMMA WritePreserves ==
    ASSUME TypeOK, LedgerExplainsBalance, Numbered, KeysAreUnique,
           NEW u \in Users, NEW key \in Key, NEW next \in Balance,
           Write(u, key, next), UserOf[key.of] = u, ~ Recorded(ledger[u], key)
    PROVE  LedgerExplainsBalance' /\ KeysAreUnique'
<1> DEFINE row == NewRow(u, key, next)
<1>1. LedgerExplainsBalance'
  <2> SUFFICES ASSUME NEW w \in Users
               PROVE  /\ \A i \in 1 .. Len(ledger'[w]) :
                            /\ ledger'[w][i].rolloverAfter
                                 = Before(ledger'[w], i).rollover + ledger'[w][i].rolloverDelta
                            /\ ledger'[w][i].expiringAfter
                                 = Before(ledger'[w], i).expiring + ledger'[w][i].expiringDelta
                      /\ balance'[w] = Before(ledger'[w], Len(ledger'[w]) + 1)
    BY DEF LedgerExplainsBalance
  <2>1. CASE w # u
    BY <2>1, WriteAppends DEF LedgerExplainsBalance
  <2>2. CASE w = u
    <3>1. \A i \in 1 .. Len(ledger[u]) + 1 : Before(ledger'[u], i) = Before(ledger[u], i)
      <4>1. Len(ledger[u]) \in Nat
            /\ \A k \in 1 .. Len(ledger[u]) : ledger'[u][k] = ledger[u][k]
        BY WriteAppends
      <4> TAKE i \in 1 .. Len(ledger[u]) + 1
      <4>2. i = 1 \/ i - 1 \in 1 .. Len(ledger[u])
        BY <4>1
      <4> QED
        BY <4>1, <4>2 DEF Before
    <3>2. /\ Before(ledger[u], Len(ledger[u]) + 1) = balance[u]
          /\ balance[u] \in Balance
      BY DEF LedgerExplainsBalance, TypeOK
    <3>3. /\ row.rolloverAfter = balance[u].rollover + row.rolloverDelta
          /\ row.expiringAfter = balance[u].expiring + row.expiringDelta
      BY <3>2 DEF NewRow, Balance
    <3>4. Before(ledger'[u], Len(ledger'[u]) + 1) = next
      <4>1. /\ Len(ledger[u]) \in Nat
            /\ Len(ledger'[u]) = Len(ledger[u]) + 1
            /\ ledger'[u][Len(ledger[u]) + 1] = row
        BY WriteAppends
      <4>2. Before(ledger'[u], Len(ledger'[u]) + 1)
               = [rollover |-> row.rolloverAfter, expiring |-> row.expiringAfter]
        BY <4>1 DEF Before
      <4> QED
        BY <4>2 DEF NewRow, Balance
    <3>5. \A i \in 1 .. Len(ledger[u]) :
             /\ ledger[u][i].rolloverAfter
                  = Before(ledger[u], i).rollover + ledger[u][i].rolloverDelta
             /\ ledger[u][i].expiringAfter
                  = Before(ledger[u], i).expiring + ledger[u][i].expiringDelta
      BY DEF LedgerExplainsBalance
    <3>6. \A i \in 1 .. Len(ledger'[u]) :
             i \in 1 .. Len(ledger[u]) \/ i = Len(ledger[u]) + 1
      BY WriteAppends
    <3>7. \A i \in 1 .. Len(ledger[u]) : ledger'[u][i] = ledger[u][i]
      BY WriteAppends
    <3>8. ledger'[u][Len(ledger[u]) + 1] = row /\ balance'[u] = next
      BY WriteAppends
    <3>9. Len(ledger[u]) \in Nat
      BY WriteAppends
    <3> HIDE DEF row
    <3> QED
      BY <2>2, <3>1, <3>2, <3>3, <3>4, <3>5, <3>6, <3>7, <3>8, <3>9
  <2> QED
    BY <2>1, <2>2
<1>2. KeysAreUnique'
  <2>1. \A w \in Users : \A i \in 1 .. Len(ledger[w]) : ledger[w][i].key # key
    BY DEF Numbered, Recorded
  <2>2. row.key = key
    BY DEF NewRow
  <2> SUFFICES ASSUME NEW w1 \in Users, NEW w2 \in Users,
                      NEW i \in 1 .. Len(ledger'[w1]), NEW j \in 1 .. Len(ledger'[w2]),
                      ledger'[w1][i].key = ledger'[w2][j].key
               PROVE  w1 = w2 /\ i = j
    BY DEF KeysAreUnique
  <2> DEFINE Old(w, k) == k \in 1 .. Len(ledger[w]) /\ ledger'[w][k] = ledger[w][k]
             Last(w, k) == w = u /\ k = Len(ledger[u]) + 1 /\ ledger'[w][k].key = key
  <2>a. ASSUME NEW w \in Users, NEW k \in 1 .. Len(ledger'[w])
        PROVE  Old(w, k) \/ Last(w, k)
    <3>1. CASE w = u
      <4>1. /\ Len(ledger[u]) \in Nat
            /\ Len(ledger'[u]) = Len(ledger[u]) + 1
            /\ ledger'[u][Len(ledger[u]) + 1] = row
            /\ \A m \in 1 .. Len(ledger[u]) : ledger'[u][m] = ledger[u][m]
        BY WriteAppends
      <4>2. k \in 1 .. Len(ledger[u]) \/ k = Len(ledger[u]) + 1
        BY <3>1, <4>1
      <4> QED
        BY <2>2, <3>1, <4>1, <4>2
    <3>2. CASE w # u
      BY <3>2, WriteAppends
    <3> QED
      BY <3>1, <3>2
  <2>3. Old(w1, i) \/ Last(w1, i)
    BY <2>a
  <2>4. Old(w2, j) \/ Last(w2, j)
    BY <2>a
  <2>5. CASE Old(w1, i) /\ Old(w2, j)
    BY <2>5 DEF KeysAreUnique
  <2>6. CASE ~ (Old(w1, i) /\ Old(w2, j))
    BY <2>1, <2>3, <2>4, <2>6
  <2> QED
    BY <2>5, <2>6
<1> QED
  BY <1>1, <1>2

(* The key of a charge or a refund carries the next number of its kind.    *)
NextNumber(u, key) ==
    /\ key.kind \in {"charge", "refund"}
    /\ key.of \in Subjects
    /\ key.n = Count(ledger[u], key.kind, key.of) + 1

(* The next number is free: numbers in use never exceed the count.         *)
LEMMA NextNumberIsFree ==
    ASSUME TypeOK, Numbered, NEW u \in Users, NEW key \in Key, NextNumber(u, key)
    PROVE  ~ Recorded(ledger[u], key)
<1> SUFFICES ASSUME NEW i \in 1 .. Len(ledger[u]), ledger[u][i].key = key
             PROVE  FALSE
  BY DEF Recorded
<1>1. key.n \in 1 .. Count(ledger[u], key.kind, key.of)
  BY DEF Numbered, NextNumber
<1>2. Count(ledger[u], key.kind, key.of) \in Nat
  BY CountIsNat DEF TypeOK
<1> QED
  BY <1>1, <1>2 DEF NextNumber

(* Numbers stay 1 .. count, and every charge number stays on record.       *)
LEMMA WriteNumbers ==
    ASSUME TypeOK, Numbered, ChargesRecorded,
           NEW u \in Users, NEW key \in Key, NEW next \in Balance,
           Write(u, key, next), UserOf[key.of] = u,
           \/ NextNumber(u, key)
           \/ key.kind = "grant" /\ key.of \in Orders /\ key.n = 0
    PROVE  Numbered' /\ ChargesRecorded'
<1> DEFINE row == NewRow(u, key, next)
<1>1. /\ Len(ledger[u]) \in Nat
      /\ Len(ledger'[u]) = Len(ledger[u]) + 1
      /\ ledger'[u][Len(ledger[u]) + 1] = row
      /\ \A i \in 1 .. Len(ledger[u]) : ledger'[u][i] = ledger[u][i]
      /\ \A w \in Users \ {u} : ledger'[w] = ledger[w]
      /\ row.key = key
  BY WriteAppends DEF NewRow
<1>2. \A w \in Users, kind \in {"charge", "refund", "grant"}, s \in Subjects \cup Orders :
         /\ Count(ledger[w], kind, s) \in Nat
         /\ Count(ledger'[w], kind, s) =
               IF w = u /\ key.kind = kind /\ key.of = s
               THEN Count(ledger[w], kind, s) + 1 ELSE Count(ledger[w], kind, s)
  BY WriteCounts
<1> HIDE DEF row
<1>3. Numbered'
  <2> SUFFICES ASSUME NEW w \in Users, NEW i \in 1 .. Len(ledger'[w])
               PROVE  LET k == ledger'[w][i].key IN
                      /\ UserOf[k.of] = w
                      /\ k.kind = "grant" => k.of \in Orders /\ k.n = 0
                      /\ k.kind # "grant" =>
                            k.of \in Subjects /\ k.n \in 1 .. Count(ledger'[w], k.kind, k.of)
    BY DEF Numbered
  <2>1. CASE i \in 1 .. Len(ledger[w])
    <3> DEFINE k == ledger[w][i].key
    <3>1. ledger'[w][i] = ledger[w][i]
      BY <1>1, <2>1
    <3>2. ledger[w] \in Seq(Entry)
      BY DEF TypeOK
    <3>3. ledger[w][i] \in Entry
      BY <2>1, <3>2, ElementOfSeq
    <3>4. k.kind \in {"charge", "refund", "grant"} /\ k.of \in Subjects \cup Orders
      BY <3>3 DEF Entry, Key
    <3> HIDE DEF k
    <3>5. /\ Count(ledger[w], k.kind, k.of) \in Nat
          /\ \/ Count(ledger'[w], k.kind, k.of) = Count(ledger[w], k.kind, k.of)
             \/ Count(ledger'[w], k.kind, k.of) = Count(ledger[w], k.kind, k.of) + 1
      BY <1>2, <3>4, Zenon
    <3> USE DEF k
    <3>6. /\ UserOf[k.of] = w
          /\ k.kind = "grant" => k.of \in Orders /\ k.n = 0
          /\ k.kind # "grant" =>
                k.of \in Subjects /\ k.n \in 1 .. Count(ledger[w], k.kind, k.of)
      BY <2>1 DEF Numbered
    <3> QED
      BY <3>1, <3>5, <3>6
  <2>2. CASE i \notin 1 .. Len(ledger[w])
    <3>1. w = u /\ ledger'[w][i].key = key
      BY <1>1, <2>2
    <3>2. CASE NextNumber(u, key)
      BY <1>2, <3>1, <3>2 DEF NextNumber, Key
    <3>3. CASE key.kind = "grant" /\ key.of \in Orders /\ key.n = 0
      BY <3>1, <3>3
    <3> QED
      BY <3>2, <3>3
  <2> QED
    BY <2>1, <2>2
<1>4. ChargesRecorded'
  <2> SUFFICES ASSUME NEW s \in Subjects,
                      NEW n \in 1 .. Count(ledger'[UserOf[s]], "charge", s)
               PROVE  Recorded(ledger'[UserOf[s]], ChargeKey(s, n))
    BY DEF ChargesRecorded, Charges
  <2>1. UserOf[s] \in Users
    BY CreditAssumption
  <2>2. CASE n \in 1 .. Count(ledger[UserOf[s]], "charge", s)
    <3>1. Recorded(ledger[UserOf[s]], ChargeKey(s, n))
      BY <2>2 DEF ChargesRecorded, Charges
    <3> QED
      BY <1>1, <2>1, <3>1 DEF Recorded
  <2>3. CASE n \notin 1 .. Count(ledger[UserOf[s]], "charge", s)
    <3>1. /\ UserOf[s] = u
          /\ key.kind = "charge"
          /\ key.of = s
          /\ n = Count(ledger[u], "charge", s) + 1
      BY <1>2, <2>1, <2>3
    <3>2. key = ChargeKey(s, n)
      BY <3>1 DEF NextNumber, ChargeKey, Key
    <3> QED
      BY <1>1, <3>1, <3>2 DEF Recorded
  <2> QED
    BY <2>2, <2>3
<1> QED
  BY <1>3, <1>4

-----------------------------------------------------------------------------
(* The steps of the system.                                                *)

(* The rows and the balances there are are whole numbers.                  *)
LEMMA RowsAreEntries ==
    ASSUME TypeOK, NEW u \in Users
    PROVE  /\ ledger[u] \in Seq(Entry)
           /\ balance[u] \in Balance
           /\ \A i \in 1 .. Len(ledger[u]) : ledger[u][i] \in Entry
BY ElementOfSeq DEF TypeOK

(* Spending within the balance leaves a balance, and takes exactly the cost. *)
LEMMA SpendTakes ==
    ASSUME NEW b \in Balance, NEW cost \in Nat \ {0}, cost <= Total(b)
    PROVE  /\ Spend(b, cost) \in Balance
           /\ Spend(b, cost).rollover <= b.rollover
           /\ Spend(b, cost).expiring <= b.expiring
           /\ Total(Spend(b, cost)) = Total(b) - cost
BY DEF Balance, Total, Spend, Least

(* A grant leaves a balance, and its two parts sum to the allowance.       *)
LEMMA GrantSplits ==
    ASSUME NEW b \in Balance, NEW credits \in Nat
    PROVE  /\ SplitGrant(credits) \in Balance
           /\ Total(SplitGrant(credits)) = credits
           /\ ApplyGrant(b, credits) \in Balance
<1> DEFINE kept == (credits * SharePct) \div 100
<1>1. kept \in 0 .. credits
  BY CreditAssumption
<1> HIDE DEF kept
<1>2. SplitGrant(credits) = [rollover |-> kept, expiring |-> credits - kept]
  BY DEF SplitGrant, kept
<1> QED
  BY <1>1, <1>2 DEF ApplyGrant, Balance, Total

(* What a row takes or gives is settled when it is written.                *)
LEMMA WriteSettles ==
    ASSUME TypeOK, ChargesTake, RefundUndoesItsCharge,
           NEW u \in Users, NEW key \in Key, NEW next \in Balance, Write(u, key, next),
           key.kind = "charge" => /\ next.rollover <= balance[u].rollover
                                  /\ next.expiring <= balance[u].expiring
                                  /\ Total(next) < Total(balance[u]),
           key.kind = "refund" =>
              \E j \in 1 .. Len(ledger[u]) :
                 /\ ledger[u][j].key = ChargeKey(key.of, key.n)
                 /\ ledger[u][j].rolloverDelta = balance[u].rollover - next.rollover
                 /\ ledger[u][j].expiringDelta = balance[u].expiring - next.expiring
    PROVE  ChargesTake' /\ RefundUndoesItsCharge'
<1> DEFINE row == NewRow(u, key, next)
<1>1. /\ Len(ledger[u]) \in Nat
      /\ Len(ledger'[u]) = Len(ledger[u]) + 1
      /\ ledger'[u][Len(ledger[u]) + 1] = row
      /\ \A i \in 1 .. Len(ledger[u]) : ledger'[u][i] = ledger[u][i]
      /\ \A w \in Users \ {u} : ledger'[w] = ledger[w]
  BY WriteAppends
<1>2. /\ row.key = key
      /\ row.rolloverDelta = next.rollover - balance[u].rollover
      /\ row.expiringDelta = next.expiring - balance[u].expiring
  BY DEF NewRow
<1>3. balance[u] \in Balance
  BY RowsAreEntries
<1> HIDE DEF row
<1>4. ChargesTake'
  <2> SUFFICES ASSUME NEW w \in Users, NEW i \in 1 .. Len(ledger'[w]),
                      ledger'[w][i].key.kind = "charge"
               PROVE  /\ ledger'[w][i].rolloverDelta <= 0
                      /\ ledger'[w][i].expiringDelta <= 0
                      /\ ledger'[w][i].rolloverDelta + ledger'[w][i].expiringDelta < 0
    BY DEF ChargesTake
  <2>1. CASE i \in 1 .. Len(ledger[w])
    BY <1>1, <2>1 DEF ChargesTake
  <2>2. CASE i \notin 1 .. Len(ledger[w])
    <3>1. w = u /\ ledger'[w][i] = row
      BY <1>1, <2>2
    <3> QED
      BY <1>2, <1>3, <3>1 DEF Balance, Total
  <2> QED
    BY <2>1, <2>2
<1>5. RefundUndoesItsCharge'
  <2> SUFFICES ASSUME NEW w \in Users, NEW i \in 1 .. Len(ledger'[w]),
                      ledger'[w][i].key.kind = "refund"
               PROVE  \E j \in 1 .. i - 1 :
                         /\ ledger'[w][j].key = ChargeKey(ledger'[w][i].key.of, ledger'[w][i].key.n)
                         /\ ledger'[w][j].rolloverDelta = - ledger'[w][i].rolloverDelta
                         /\ ledger'[w][j].expiringDelta = - ledger'[w][i].expiringDelta
    BY DEF RefundUndoesItsCharge
  <2>1. CASE i \in 1 .. Len(ledger[w])
    <3>1. Len(ledger[w]) \in Nat /\ \A j \in 1 .. Len(ledger[w]) : ledger'[w][j] = ledger[w][j]
      BY <1>1, RowsAreEntries, LenProperties
    <3>2. PICK j \in 1 .. i - 1 :
             /\ ledger[w][j].key = ChargeKey(ledger[w][i].key.of, ledger[w][i].key.n)
             /\ ledger[w][j].rolloverDelta = - ledger[w][i].rolloverDelta
             /\ ledger[w][j].expiringDelta = - ledger[w][i].expiringDelta
      BY <2>1, <3>1 DEF RefundUndoesItsCharge
    <3>3. j \in 1 .. Len(ledger[w])
      BY <2>1, <3>1
    <3> QED
      BY <2>1, <3>1, <3>2, <3>3
  <2>2. CASE i \notin 1 .. Len(ledger[w])
    <3>1. w = u /\ i = Len(ledger[u]) + 1 /\ ledger'[w][i] = row
      BY <1>1, <2>2
    <3>2. PICK j \in 1 .. Len(ledger[u]) :
             /\ ledger[u][j].key = ChargeKey(key.of, key.n)
             /\ ledger[u][j].rolloverDelta = balance[u].rollover - next.rollover
             /\ ledger[u][j].expiringDelta = balance[u].expiring - next.expiring
      BY <1>2, <3>1
    <3>3. j \in 1 .. i - 1 /\ ledger'[w][j] = ledger[u][j]
      BY <1>1, <3>1
    <3>4. /\ balance[u].rollover - next.rollover = - (next.rollover - balance[u].rollover)
          /\ balance[u].expiring - next.expiring = - (next.expiring - balance[u].expiring)
      BY <1>3 DEF Balance
    <3> QED
      BY <1>2, <3>1, <3>2, <3>3, <3>4
  <2> QED
    BY <2>1, <2>2
<1> QED
  BY <1>4, <1>5

(* A charge keeps the invariant.                                           *)
LEMMA ChargeKeeps ==
    ASSUME LedgerInv, NEW s \in Subjects, NEW cost \in Costs, ChargeCredits(s, cost)
    PROVE  LedgerInv'
<1> DEFINE u == UserOf[s]
           key == ChargeKey(s, Charges(s) + 1)
           next == Spend(balance[u], cost)
<1>1. u \in Users /\ cost \in Nat \ {0} /\ balance[u] \in Balance
  BY CreditAssumption, RowsAreEntries DEF LedgerInv
<1>2. Charges(s) \in Nat /\ Refunds(s) \in Nat
  BY <1>1, RowsAreEntries, CountIsNat DEF Charges, Refunds, LedgerInv
<1>3. /\ key \in Key
      /\ key.kind = "charge" /\ key.of = s /\ key.n = Charges(s) + 1
      /\ NextNumber(u, key)
  BY <1>2 DEF Key, ChargeKey, NextNumber, Charges
<1>4. cost <= Total(balance[u]) /\ Write(u, key, next) /\ Charges(s) <= Refunds(s)
  BY DEF ChargeCredits
<1>a. TypeOK /\ Write(u, key, next)
  BY <1>4 DEF LedgerInv
<1>5. /\ next \in Balance
      /\ next.rollover <= balance[u].rollover
      /\ next.expiring <= balance[u].expiring
      /\ Total(next) < Total(balance[u])
  <2>1. Total(next) = Total(balance[u]) - cost /\ Total(balance[u]) \in Nat
    BY <1>1, <1>4, SpendTakes DEF Balance, Total
  <2> QED
    BY <1>1, <1>4, <2>1, SpendTakes
<1> HIDE DEF u, key, next
<1>6. TypeOK'
  BY <1>1, <1>3, <1>4, <1>5, WriteAppends DEF LedgerInv
<1>7. LedgerExplainsBalance' /\ KeysAreUnique'
  BY <1>1, <1>3, <1>4, <1>5, WritePreserves, NextNumberIsFree DEF LedgerInv, u
<1>8. Numbered' /\ ChargesRecorded'
  BY <1>1, <1>3, <1>4, <1>5, WriteNumbers DEF LedgerInv, u
<1>9. ChargesTake' /\ RefundUndoesItsCharge'
  BY <1>1, <1>3, <1>4, <1>5, WriteSettles DEF LedgerInv
<1>10. AtMostOneOpenCharge'
  <2> SUFFICES ASSUME NEW x \in Subjects
               PROVE  Count(ledger'[UserOf[x]], "charge", x)
                         - Count(ledger'[UserOf[x]], "refund", x) \in {0, 1}
    BY DEF AtMostOneOpenCharge, Charges, Refunds
  <2>1. UserOf[x] \in Users
    BY CreditAssumption
  <2>2. /\ Count(ledger[UserOf[x]], "charge", x) \in Nat
        /\ Count(ledger[UserOf[x]], "refund", x) \in Nat
        /\ Count(ledger'[UserOf[x]], "charge", x) =
              IF x = s THEN Count(ledger[UserOf[x]], "charge", x) + 1
              ELSE Count(ledger[UserOf[x]], "charge", x)
        /\ Count(ledger'[UserOf[x]], "refund", x) = Count(ledger[UserOf[x]], "refund", x)
    <3>1. \A kind \in {"charge", "refund"} :
             /\ Count(ledger[UserOf[x]], kind, x) \in Nat
             /\ Count(ledger'[UserOf[x]], kind, x) =
                   IF UserOf[x] = u /\ key.kind = kind /\ key.of = x
                   THEN Count(ledger[UserOf[x]], kind, x) + 1
                   ELSE Count(ledger[UserOf[x]], kind, x)
      BY <1>1, <1>3, <1>a, <1>5, <2>1, WriteCounts
    <3> QED
      BY <1>3, <3>1, Zenon DEF u
  <2>3. Count(ledger[UserOf[x]], "charge", x) - Count(ledger[UserOf[x]], "refund", x) \in {0, 1}
    BY DEF LedgerInv, AtMostOneOpenCharge, Charges, Refunds
  <2>4. x = s => Count(ledger[UserOf[x]], "charge", x) <= Count(ledger[UserOf[x]], "refund", x)
    BY <1>4 DEF Charges, Refunds
  <2> QED
    BY <2>2, <2>3, <2>4
<1> QED
  BY <1>6, <1>7, <1>8, <1>9, <1>10 DEF LedgerInv

(* A refund keeps the invariant.                                           *)
LEMMA RefundKeeps ==
    ASSUME LedgerInv, NEW s \in Subjects, RefundCredits(s)
    PROVE  LedgerInv'
<1> DEFINE u == UserOf[s]
           key == RefundKey(s, Charges(s))
           charge == Row(ledger[u], ChargeKey(s, Charges(s)))
           next == [rollover |-> balance[u].rollover - charge.rolloverDelta,
                    expiring |-> balance[u].expiring - charge.expiringDelta]
<1>1. u \in Users /\ balance[u] \in Balance
  BY CreditAssumption, RowsAreEntries DEF LedgerInv
<1>2. Charges(s) \in Nat /\ Refunds(s) \in Nat
  BY <1>1, RowsAreEntries, CountIsNat DEF Charges, Refunds, LedgerInv
<1>3. /\ Charges(s) > Refunds(s)
      /\ Recorded(ledger[u], ChargeKey(s, Charges(s)))
      /\ Write(u, key, next)
  BY DEF RefundCredits
<1>4. Charges(s) = Refunds(s) + 1
  BY <1>2, <1>3 DEF LedgerInv, AtMostOneOpenCharge
<1>5. /\ key \in Key
      /\ key.kind = "refund" /\ key.of = s /\ key.n = Charges(s)
      /\ NextNumber(u, key)
  BY <1>2, <1>4 DEF Key, RefundKey, NextNumber, Refunds
<1>6. PICK j \in 1 .. Len(ledger[u]) :
         charge = ledger[u][j] /\ ledger[u][j].key = ChargeKey(s, Charges(s))
  BY <1>3 DEF Recorded, Row
<1>7. charge \in Entry /\ charge.rolloverDelta <= 0 /\ charge.expiringDelta <= 0
  <2>1. ledger[u][j] \in Entry
    BY <1>1, RowsAreEntries DEF LedgerInv
  <2>2. ledger[u][j].key.kind = "charge"
    BY <1>6 DEF ChargeKey
  <2> QED
    BY <1>1, <1>6, <2>1, <2>2 DEF LedgerInv, ChargesTake
<1> HIDE DEF charge
<1>8. next \in Balance
  BY <1>1, <1>7 DEF Balance, Entry
<1>9. /\ ledger[u][j].key = ChargeKey(key.of, key.n)
      /\ ledger[u][j].rolloverDelta = balance[u].rollover - next.rollover
      /\ ledger[u][j].expiringDelta = balance[u].expiring - next.expiring
  BY <1>1, <1>5, <1>6, <1>7 DEF Balance, Entry
<1> HIDE DEF u, key, next
<1>10. TypeOK'
  BY <1>1, <1>3, <1>5, <1>8, WriteAppends DEF LedgerInv
<1>11. LedgerExplainsBalance' /\ KeysAreUnique'
  BY <1>1, <1>3, <1>5, <1>8, WritePreserves, NextNumberIsFree DEF LedgerInv, u
<1>12. Numbered' /\ ChargesRecorded'
  BY <1>1, <1>3, <1>5, <1>8, WriteNumbers DEF LedgerInv, u
<1>13. ChargesTake' /\ RefundUndoesItsCharge'
  BY <1>1, <1>3, <1>5, <1>6, <1>8, <1>9, WriteSettles DEF LedgerInv
<1>14. AtMostOneOpenCharge'
  <2> SUFFICES ASSUME NEW x \in Subjects
               PROVE  Count(ledger'[UserOf[x]], "charge", x)
                         - Count(ledger'[UserOf[x]], "refund", x) \in {0, 1}
    BY DEF AtMostOneOpenCharge, Charges, Refunds
  <2>1. UserOf[x] \in Users
    BY CreditAssumption
  <2>2. /\ Count(ledger[UserOf[x]], "charge", x) \in Nat
        /\ Count(ledger[UserOf[x]], "refund", x) \in Nat
        /\ Count(ledger'[UserOf[x]], "charge", x) = Count(ledger[UserOf[x]], "charge", x)
        /\ Count(ledger'[UserOf[x]], "refund", x) =
              IF x = s THEN Count(ledger[UserOf[x]], "refund", x) + 1
              ELSE Count(ledger[UserOf[x]], "refund", x)
    <3>1. \A kind \in {"charge", "refund"} :
             /\ Count(ledger[UserOf[x]], kind, x) \in Nat
             /\ Count(ledger'[UserOf[x]], kind, x) =
                   IF UserOf[x] = u /\ key.kind = kind /\ key.of = x
                   THEN Count(ledger[UserOf[x]], kind, x) + 1
                   ELSE Count(ledger[UserOf[x]], kind, x)
      BY <1>1, <1>3, <1>5, <1>8, <2>1, WriteCounts DEF LedgerInv
    <3> QED
      BY <1>5, <3>1, Zenon DEF u
  <2>3. Count(ledger[UserOf[x]], "charge", x) - Count(ledger[UserOf[x]], "refund", x) \in {0, 1}
    BY DEF LedgerInv, AtMostOneOpenCharge, Charges, Refunds
  <2>4. x = s => Count(ledger[UserOf[x]], "charge", x) > Count(ledger[UserOf[x]], "refund", x)
    BY <1>3 DEF Charges, Refunds
  <2> QED
    BY <2>2, <2>3, <2>4
<1> QED
  BY <1>10, <1>11, <1>12, <1>13, <1>14 DEF LedgerInv

(* A grant keeps the invariant.                                            *)
LEMMA GrantKeeps ==
    ASSUME LedgerInv, NEW o \in Orders, NEW credits \in Allowances, GrantCredits(o, credits)
    PROVE  LedgerInv'
<1> DEFINE u == UserOf[o]
           key == GrantKey(o)
           next == ApplyGrant(balance[u], credits)
<1>1. u \in Users /\ balance[u] \in Balance /\ credits \in Nat
  BY CreditAssumption, RowsAreEntries DEF LedgerInv
<1>2. key \in Key /\ key.kind = "grant" /\ key.of = o /\ key.n = 0
  BY DEF Key, GrantKey
<1>3. ~ Recorded(ledger[u], key) /\ Write(u, key, next)
  BY DEF GrantCredits
<1>4. next \in Balance
  BY <1>1, GrantSplits
<1> HIDE DEF u, key, next
<1>5. TypeOK'
  BY <1>1, <1>2, <1>3, <1>4, WriteAppends DEF LedgerInv
<1>6. LedgerExplainsBalance' /\ KeysAreUnique'
  BY <1>1, <1>2, <1>3, <1>4, WritePreserves DEF LedgerInv, u
<1>7. Numbered' /\ ChargesRecorded'
  BY <1>1, <1>2, <1>3, <1>4, WriteNumbers DEF LedgerInv, u
<1>8. ChargesTake' /\ RefundUndoesItsCharge'
  BY <1>1, <1>2, <1>3, <1>4, WriteSettles DEF LedgerInv
<1>9. AtMostOneOpenCharge'
  <2> SUFFICES ASSUME NEW x \in Subjects
               PROVE  Count(ledger'[UserOf[x]], "charge", x)
                         - Count(ledger'[UserOf[x]], "refund", x) \in {0, 1}
    BY DEF AtMostOneOpenCharge, Charges, Refunds
  <2>1. UserOf[x] \in Users
    BY CreditAssumption
  <2>2. \A kind \in {"charge", "refund"} :
           Count(ledger'[UserOf[x]], kind, x) = Count(ledger[UserOf[x]], kind, x)
    BY <1>1, <1>2, <1>3, <1>4, <2>1, WriteCounts DEF LedgerInv
  <2> QED
    BY <2>2 DEF LedgerInv, AtMostOneOpenCharge, Charges, Refunds
<1> QED
  BY <1>5, <1>6, <1>7, <1>8, <1>9 DEF LedgerInv

-----------------------------------------------------------------------------
(* The theorems.                                                           *)

(* The empty ledger satisfies the invariant.                               *)
LEMMA LedgerInvInit == Init => LedgerInv
<1> SUFFICES ASSUME Init PROVE LedgerInv
  OBVIOUS
<1>1. \A u \in Users : /\ ledger[u] = << >> /\ Len(ledger[u]) = 0
                       /\ balance[u] = [rollover |-> 0, expiring |-> 0]
  BY EmptySeq DEF Init
<1>2. TypeOK
  BY EmptySeq DEF Init, TypeOK, Balance
<1>3. \A u \in Users : \A kind, s : Count(ledger[u], kind, s) = 0
  <2> SUFFICES ASSUME NEW u \in Users, NEW kind, NEW s
               PROVE  Count(ledger[u], kind, s) = 0
    OBVIOUS
  <2>1. Matching(ledger[u], kind, s) = {}
    BY <1>1 DEF Matching
  <2> QED
    BY <2>1, FS_EmptySet DEF Count
<1>4. \A s \in Subjects : Charges(s) = 0 /\ Refunds(s) = 0
  BY <1>3, CreditAssumption DEF Charges, Refunds
<1>5. AtMostOneOpenCharge /\ ChargesRecorded
  BY <1>4 DEF AtMostOneOpenCharge, ChargesRecorded
<1>6. LedgerExplainsBalance
  BY <1>1 DEF LedgerExplainsBalance, Before
<1>7. Numbered /\ KeysAreUnique /\ ChargesTake /\ RefundUndoesItsCharge
  BY <1>1 DEF Numbered, KeysAreUnique, ChargesTake, RefundUndoesItsCharge
<1> QED
  BY <1>2, <1>5, <1>6, <1>7 DEF LedgerInv

(* Every step keeps the invariant.                                         *)
LEMMA LedgerInvStep == LedgerInv /\ [Next]_vars => LedgerInv'
<1> SUFFICES ASSUME LedgerInv, [Next]_vars PROVE LedgerInv'
  OBVIOUS
<1>1. ASSUME NEW s \in Subjects, NEW cost \in Costs, ChargeCredits(s, cost)
      PROVE  LedgerInv'
  BY <1>1, ChargeKeeps
<1>2. ASSUME NEW s \in Subjects, RefundCredits(s)
      PROVE  LedgerInv'
  BY <1>2, RefundKeeps
<1>3. ASSUME NEW o \in Orders, NEW credits \in Allowances, GrantCredits(o, credits)
      PROVE  LedgerInv'
  BY <1>3, GrantKeeps
<1>4. CASE UNCHANGED vars
  BY <1>4 DEF vars, LedgerInv, TypeOK, LedgerExplainsBalance, AtMostOneOpenCharge, Numbered,
              KeysAreUnique, ChargesRecorded, ChargesTake, RefundUndoesItsCharge, Charges, Refunds
<1> QED
  BY <1>1, <1>2, <1>3, <1>4 DEF Next

(* The invariant holds in every reachable state.                           *)
THEOREM LedgerInvHolds == Spec => []LedgerInv
BY LedgerInvInit, LedgerInvStep, PTL DEF Spec

(* The buckets never go below zero: the SQL CHECK
   credit_balances_non_negative never has anything to refuse.              *)
THEOREM TypesHold == Spec => []TypeOK
<1>1. LedgerInv => TypeOK
  BY DEF LedgerInv
<1> QED
  BY <1>1, LedgerInvHolds, PTL

(* The running balance is always the sum of what the ledger's rows say.    *)
THEOREM BalanceIsExplained == Spec => []LedgerExplainsBalance
<1>1. LedgerInv => LedgerExplainsBalance
  BY DEF LedgerInv
<1> QED
  BY <1>1, LedgerInvHolds, PTL

(* No video or render is ever charged twice without a refund in between,
   and none is refunded more often than charged.                           *)
THEOREM NeverChargedTwice == Spec => []AtMostOneOpenCharge
<1>1. LedgerInv => AtMostOneOpenCharge
  BY DEF LedgerInv
<1> QED
  BY <1>1, LedgerInvHolds, PTL

(* Numbering by counting never meets the unique idempotency key.           *)
THEOREM NumberingIsUnique == Spec => []KeysAreUnique
<1>1. LedgerInv => KeysAreUnique
  BY DEF LedgerInv
<1> QED
  BY <1>1, LedgerInvHolds, PTL

(* Refunds restore the buckets the charge took from.                       *)
THEOREM RefundsRestore == Spec => []RefundUndoesItsCharge
<1>1. LedgerInv => RefundUndoesItsCharge
  BY DEF LedgerInv
<1> QED
  BY <1>1, LedgerInvHolds, PTL

-----------------------------------------------------------------------------
(* CreditLedger implements CreditAccount.                                  *)

(* Under unique keys, looking a row's key up finds that row.               *)
LEMMA RowFound ==
    ASSUME KeysAreUnique, NEW u \in Users, NEW j \in 1 .. Len(ledger[u])
    PROVE  Row(ledger[u], ledger[u][j].key) = ledger[u][j]
<1> DEFINE P(i) == i \in 1 .. Len(ledger[u]) /\ ledger[u][i].key = ledger[u][j].key
           c == CHOOSE i \in 1 .. Len(ledger[u]) : ledger[u][i].key = ledger[u][j].key
<1>1. c \in 1 .. Len(ledger[u]) /\ ledger[u][c].key = ledger[u][j].key
  OBVIOUS
<1>2. c = j
  BY <1>1 DEF KeysAreUnique
<1> QED
  BY <1>2 DEF Row

(* The open charge of a subject is a row that took a positive amount, and
   the subject holds that amount.                                          *)
LEMMA OpenChargeRow ==
    ASSUME LedgerInv, NEW s \in Subjects, Charges(s) > Refunds(s)
    PROVE  \E j \in 1 .. Len(ledger[UserOf[s]]) :
              LET row == ledger[UserOf[s]][j] IN
              /\ row \in Entry
              /\ row.key = ChargeKey(s, Charges(s))
              /\ row = Row(ledger[UserOf[s]], ChargeKey(s, Charges(s)))
              /\ row.rolloverDelta + row.expiringDelta < 0
              /\ Held(ledger[UserOf[s]], s) = - (row.rolloverDelta + row.expiringDelta)
<1>1. UserOf[s] \in Users
  BY CreditAssumption
<1>2. Charges(s) \in Nat /\ Refunds(s) \in Nat
  BY <1>1, RowsAreEntries, CountIsNat DEF Charges, Refunds, LedgerInv
<1>3. PICK j \in 1 .. Len(ledger[UserOf[s]]) :
         ledger[UserOf[s]][j].key = ChargeKey(s, Charges(s))
  BY <1>2 DEF LedgerInv, ChargesRecorded, Recorded
<1>4. ledger[UserOf[s]][j] \in Entry
  BY <1>1, RowsAreEntries DEF LedgerInv
<1>5. ledger[UserOf[s]][j].rolloverDelta + ledger[UserOf[s]][j].expiringDelta < 0
  BY <1>1, <1>3 DEF LedgerInv, ChargesTake, ChargeKey
<1>6. ledger[UserOf[s]][j] = Row(ledger[UserOf[s]], ChargeKey(s, Charges(s)))
  BY <1>1, <1>3, RowFound DEF LedgerInv
<1>7. Held(ledger[UserOf[s]], s) =
         - (ledger[UserOf[s]][j].rolloverDelta + ledger[UserOf[s]][j].expiringDelta)
  BY <1>6 DEF Held, Taken, Charges, Refunds
<1> QED
  BY <1>3, <1>4, <1>5, <1>6, <1>7

(* Writing a row for one subject leaves what the others hold.              *)
LEMMA OthersKeepTheirs ==
    ASSUME LedgerInv, LedgerInv', NEW u \in Users, NEW key \in Key, NEW next \in Balance,
           Write(u, key, next), NEW x \in Subjects, key.kind = "grant" \/ key.of # x
    PROVE  Held(ledger'[UserOf[x]], x) = Held(ledger[UserOf[x]], x)
<1> DEFINE w == UserOf[x]
<1>1. w \in Users /\ TypeOK
  BY CreditAssumption DEF LedgerInv
<1>2. \A kind \in {"charge", "refund"} :
         Count(ledger'[w], kind, x) = Count(ledger[w], kind, x)
  BY <1>1, WriteCounts
<1>3. CASE Charges(x) > Refunds(x)
  <2>1. PICK j \in 1 .. Len(ledger[w]) :
           /\ ledger[w][j].key = ChargeKey(x, Charges(x))
           /\ ledger[w][j] = Row(ledger[w], ChargeKey(x, Charges(x)))
    BY <1>3, OpenChargeRow
  <2>2. j \in 1 .. Len(ledger'[w]) /\ ledger'[w][j] = ledger[w][j]
    <3>1. CASE w = u
      BY <1>1, <3>1, WriteAppends
    <3>2. CASE w # u
      BY <1>1, <3>2, WriteAppends
    <3> QED
      BY <3>1, <3>2
  <2>3. KeysAreUnique'
    BY DEF LedgerInv
  <2>4. Row(ledger'[w], ledger'[w][j].key) = ledger'[w][j]
    <3> DEFINE c == CHOOSE i \in 1 .. Len(ledger'[w]) : ledger'[w][i].key = ledger'[w][j].key
    <3>1. c \in 1 .. Len(ledger'[w]) /\ ledger'[w][c].key = ledger'[w][j].key
      BY <2>2
    <3>2. ASSUME NEW i \in 1 .. Len(ledger'[w]), ledger'[w][i].key = ledger'[w][j].key
          PROVE  i = j
      BY <1>1, <2>2, <2>3, <3>2 DEF KeysAreUnique
    <3> HIDE DEF c
    <3>3. c = j
      BY <3>1, <3>2
    <3> QED
      BY <3>3 DEF Row, c
  <2>5. Row(ledger'[w], ChargeKey(x, Charges(x))) = Row(ledger[w], ChargeKey(x, Charges(x)))
    BY <2>1, <2>2, <2>4
  <2> QED
    BY <1>2, <2>5 DEF Held, Taken, Charges
<1>4. CASE ~ (Charges(x) > Refunds(x))
  BY <1>2, <1>4 DEF Held, Charges, Refunds
<1> QED
  BY <1>3, <1>4

(* What is available after a write is the new total, for its user only.    *)
LEMMA AvailableAfterWrite ==
    ASSUME TypeOK, NEW u \in Users, NEW key \in Key, NEW next \in Balance, Write(u, key, next)
    PROVE  [w \in Users |-> Total(balance'[w])]
              = [[w \in Users |-> Total(balance[w])] EXCEPT ![u] = Total(next)]
BY WriteAppends

(* What has been granted after a write grows by the order of a grant's key. *)
LEMMA GrantedAfterWrite ==
    ASSUME TypeOK, NEW u \in Users, NEW key \in Key, NEW next \in Balance, Write(u, key, next)
    PROVE  {o \in Orders : Recorded(ledger'[UserOf[o]], GrantKey(o))}
              = {o \in Orders : Recorded(ledger[UserOf[o]], GrantKey(o))}
                   \cup {o \in Orders : UserOf[o] = u /\ key = GrantKey(o)}
<1>1. /\ Len(ledger[u]) \in Nat
      /\ Len(ledger'[u]) = Len(ledger[u]) + 1
      /\ ledger'[u][Len(ledger[u]) + 1].key = key
      /\ \A i \in 1 .. Len(ledger[u]) : ledger'[u][i] = ledger[u][i]
      /\ \A w \in Users \ {u} : ledger'[w] = ledger[w]
  <2>1. NewRow(u, key, next).key = key
    BY DEF NewRow
  <2> QED
    BY <2>1, WriteAppends
<1>2. ASSUME NEW o \in Orders
      PROVE  Recorded(ledger'[UserOf[o]], GrantKey(o)) <=>
                \/ Recorded(ledger[UserOf[o]], GrantKey(o))
                \/ UserOf[o] = u /\ key = GrantKey(o)
  <2>1. UserOf[o] \in Users
    BY CreditAssumption
  <2>2. CASE UserOf[o] # u
    BY <1>1, <2>1, <2>2 DEF Recorded
  <2>3. CASE UserOf[o] = u
    <3>1. \A i : i \in 1 .. Len(ledger'[u]) <=>
                   i \in 1 .. Len(ledger[u]) \/ i = Len(ledger[u]) + 1
      BY <1>1
    <3> QED
      BY <1>1, <2>3, <3>1 DEF Recorded
  <2> QED
    BY <2>2, <2>3
<1> QED
  BY <1>2

(* A charge is a Debit of the account.                                     *)
LEMMA ChargeIsDebit ==
    ASSUME LedgerInv, LedgerInv', NEW s \in Subjects, NEW cost \in Costs, ChargeCredits(s, cost)
    PROVE  Account!Debit(s, cost)
<1> DEFINE u == UserOf[s]
           key == ChargeKey(s, Charges(s) + 1)
           next == Spend(balance[u], cost)
<1>1. /\ u \in Users /\ cost \in Nat \ {0} /\ balance[u] \in Balance
      /\ TypeOK
  BY CreditAssumption, RowsAreEntries DEF LedgerInv
<1>2. Charges(s) \in Nat /\ Refunds(s) \in Nat /\ key \in Key
  BY <1>1, RowsAreEntries, CountIsNat DEF Charges, Refunds, LedgerInv, Key, ChargeKey
<1>3. cost <= Total(balance[u]) /\ Write(u, key, next) /\ Charges(s) <= Refunds(s)
  BY DEF ChargeCredits
<1>a. Write(u, key, next)
  BY <1>3
<1>4. next \in Balance /\ Total(next) = Total(balance[u]) - cost
  BY <1>1, <1>3, SpendTakes
<1>5. key.kind = "charge" /\ key.of = s /\ key.n = Charges(s) + 1
  BY DEF ChargeKey
<1> HIDE DEF key, next
<1>6. Held(ledger[u], s) = 0
  BY <1>2, <1>3 DEF Held, Charges, Refunds
<1>7. Held(ledger'[u], s) = cost
  <2>1. /\ Count(ledger'[u], "charge", s) = Charges(s) + 1
        /\ Count(ledger'[u], "refund", s) = Refunds(s)
    <3> HIDE DEF u
    <3>1. \A w \in Users, kind \in {"charge", "refund"} :
             Count(ledger'[w], kind, s) =
                IF w = u /\ key.kind = kind /\ key.of = s THEN Count(ledger[w], kind, s) + 1
                ELSE Count(ledger[w], kind, s)
      BY <1>1, <1>2, <1>a, <1>4, WriteCounts
    <3> QED
      BY <1>1, <1>5, <3>1, Zenon DEF Charges, Refunds, u
  <2> DEFINE m == Len(ledger[u]) + 1
             row == NewRow(u, key, next)
  <2>2. m \in 1 .. Len(ledger'[u]) /\ ledger'[u][m] = row
    BY <1>1, <1>2, <1>3, <1>4, WriteAppends
  <2>3. Row(ledger'[u], key) = row
    <3>1. row.key = key
      BY DEF NewRow
    <3> DEFINE c == CHOOSE i \in 1 .. Len(ledger'[u]) : ledger'[u][i].key = key
    <3>2. c \in 1 .. Len(ledger'[u]) /\ ledger'[u][c].key = ledger'[u][m].key
      BY <2>2, <3>1
    <3>3. KeysAreUnique'
      BY DEF LedgerInv
    <3>4. c = m
      BY <1>1, <2>2, <3>2, <3>3 DEF KeysAreUnique
    <3> QED
      BY <2>2, <3>4 DEF Row
  <2>4. row.rolloverDelta + row.expiringDelta = Total(next) - Total(balance[u])
    BY <1>1, <1>4 DEF NewRow, Total, Balance
  <2>5. Total(balance[u]) \in Nat
    BY <1>1 DEF Total, Balance
  <2>6. Taken(ledger'[u], s) = cost
    BY <1>1, <1>4, <2>1, <2>3, <2>4, <2>5 DEF Taken, key
  <2>7. Count(ledger'[u], "charge", s) > Count(ledger'[u], "refund", s)
    BY <1>2, <1>3, <2>1 DEF LedgerInv, AtMostOneOpenCharge
  <2> QED
    BY <2>6, <2>7 DEF Held
<1>8. \A x \in Subjects : x # s =>
         Held(ledger'[UserOf[x]], x) = Held(ledger[UserOf[x]], x)
  BY <1>1, <1>2, <1>3, <1>4, <1>5, OthersKeepTheirs
<1>9. [w \in Users |-> Total(balance'[w])]
         = [[w \in Users |-> Total(balance[w])] EXCEPT ![u] = Total(balance[u]) - cost]
  BY <1>1, <1>2, <1>3, <1>4, AvailableAfterWrite
<1>10. {o \in Orders : Recorded(ledger'[UserOf[o]], GrantKey(o))}
          = {o \in Orders : Recorded(ledger[UserOf[o]], GrantKey(o))}
  BY <1>1, <1>2, <1>3, <1>4, <1>5, GrantedAfterWrite DEF GrantKey
<1> QED
  BY <1>1, <1>3, <1>6, <1>7, <1>8, <1>9, <1>10 DEF Account!Debit

(* A refund gives back what the account says is held.                      *)
LEMMA RefundIsGiveBack ==
    ASSUME LedgerInv, LedgerInv', NEW s \in Subjects, RefundCredits(s)
    PROVE  Account!GiveBack(s)
<1> DEFINE u == UserOf[s]
           key == RefundKey(s, Charges(s))
           charge == Row(ledger[u], ChargeKey(s, Charges(s)))
           next == [rollover |-> balance[u].rollover - charge.rolloverDelta,
                    expiring |-> balance[u].expiring - charge.expiringDelta]
<1>1. u \in Users /\ balance[u] \in Balance /\ TypeOK
  BY CreditAssumption, RowsAreEntries DEF LedgerInv
<1>2. Charges(s) \in Nat /\ Refunds(s) \in Nat /\ key \in Key
  BY <1>1, RowsAreEntries, CountIsNat DEF Charges, Refunds, LedgerInv, Key, RefundKey
<1>3. Charges(s) > Refunds(s) /\ Write(u, key, next)
  BY DEF RefundCredits
<1>4. /\ charge \in Entry
      /\ charge.rolloverDelta + charge.expiringDelta < 0
      /\ Held(ledger[u], s) = - (charge.rolloverDelta + charge.expiringDelta)
      /\ charge.rolloverDelta <= 0 /\ charge.expiringDelta <= 0
  <2>1. PICK j \in 1 .. Len(ledger[u]) :
           LET row == ledger[u][j] IN
           /\ row \in Entry
           /\ row.key = ChargeKey(s, Charges(s))
           /\ row = charge
           /\ row.rolloverDelta + row.expiringDelta < 0
           /\ Held(ledger[u], s) = - (row.rolloverDelta + row.expiringDelta)
    BY <1>3, OpenChargeRow
  <2>2. ledger[u][j].rolloverDelta <= 0 /\ ledger[u][j].expiringDelta <= 0
    BY <1>1, <2>1 DEF LedgerInv, ChargesTake, ChargeKey
  <2> QED
    BY <2>1, <2>2
<1> HIDE DEF charge
<1>5. next \in Balance /\ Total(next) = Total(balance[u]) + Held(ledger[u], s)
  <2>1. /\ charge.rolloverDelta \in Int /\ charge.expiringDelta \in Int
        /\ balance[u].rollover \in Nat /\ balance[u].expiring \in Nat
    BY <1>1, <1>4 DEF Balance, Entry
  <2>2. /\ balance[u].rollover - charge.rolloverDelta \in Nat
        /\ balance[u].expiring - charge.expiringDelta \in Nat
    BY <1>4, <2>1
  <2>3. next \in Balance
    BY <2>2 DEF Balance
  <2>4. Total(next) = (balance[u].rollover - charge.rolloverDelta)
                         + (balance[u].expiring - charge.expiringDelta)
    BY DEF Total
  <2>5. Total(balance[u]) = balance[u].rollover + balance[u].expiring
    BY DEF Total
  <2> QED
    BY <1>4, <2>1, <2>3, <2>4, <2>5
<1>6. key.kind = "refund" /\ key.of = s
  BY DEF RefundKey
<1> HIDE DEF key, next
<1>7. Held(ledger[u], s) > 0
  BY <1>4 DEF Entry
<1>8. Held(ledger'[u], s) = 0
  <2>1. /\ Count(ledger'[u], "charge", s) = Charges(s)
        /\ Count(ledger'[u], "refund", s) = Refunds(s) + 1
    <3> HIDE DEF u
    <3>1. \A w \in Users, kind \in {"charge", "refund"} :
             Count(ledger'[w], kind, s) =
                IF w = u /\ key.kind = kind /\ key.of = s THEN Count(ledger[w], kind, s) + 1
                ELSE Count(ledger[w], kind, s)
      BY <1>1, <1>2, <1>3, <1>5, WriteCounts
    <3> QED
      BY <1>1, <1>6, <3>1, Zenon DEF Charges, Refunds, u
  <2>2. Charges(s) - Refunds(s) \in {0, 1}
    BY DEF LedgerInv, AtMostOneOpenCharge
  <2> QED
    BY <1>2, <1>3, <2>1, <2>2 DEF Held
<1>9. \A x \in Subjects : x # s =>
         Held(ledger'[UserOf[x]], x) = Held(ledger[UserOf[x]], x)
  BY <1>1, <1>2, <1>3, <1>5, <1>6, OthersKeepTheirs
<1>10. [w \in Users |-> Total(balance'[w])]
          = [[w \in Users |-> Total(balance[w])]
                EXCEPT ![u] = Total(balance[u]) + Held(ledger[u], s)]
  BY <1>1, <1>2, <1>3, <1>5, AvailableAfterWrite
<1>11. {o \in Orders : Recorded(ledger'[UserOf[o]], GrantKey(o))}
          = {o \in Orders : Recorded(ledger[UserOf[o]], GrantKey(o))}
  BY <1>1, <1>2, <1>3, <1>5, <1>6, GrantedAfterWrite DEF GrantKey
<1> QED
  BY <1>1, <1>7, <1>8, <1>9, <1>10, <1>11 DEF Account!GiveBack

(* A grant of an order is a Grant of the account; what expires is the
   expiring bucket the new one replaces.                                   *)
LEMMA GrantIsGrant ==
    ASSUME LedgerInv, LedgerInv', NEW o \in Orders, NEW credits \in Allowances,
           GrantCredits(o, credits)
    PROVE  Account!Grant(o, credits)
<1> DEFINE u == UserOf[o]
           key == GrantKey(o)
           next == ApplyGrant(balance[u], credits)
           expired == balance[u].expiring
<1>1. /\ u \in Users /\ balance[u] \in Balance /\ credits \in Nat
      /\ TypeOK
  BY CreditAssumption, RowsAreEntries DEF LedgerInv
<1>2. key \in Key /\ key.kind = "grant" /\ key.of = o
  BY DEF Key, GrantKey
<1>3. ~ Recorded(ledger[u], key) /\ Write(u, key, next)
  BY DEF GrantCredits
<1>4. next \in Balance /\ Total(next) = Total(balance[u]) - expired + credits
  <2>1. SplitGrant(credits) \in Balance /\ Total(SplitGrant(credits)) = credits
    BY <1>1, GrantSplits
  <2> QED
    BY <1>1, <2>1 DEF ApplyGrant, Balance, Total
<1>5. expired \in 0 .. Total(balance[u])
  BY <1>1 DEF Balance, Total
<1> HIDE DEF key, next, expired
<1>6. \A x \in Subjects : Held(ledger'[UserOf[x]], x) = Held(ledger[UserOf[x]], x)
  BY <1>1, <1>2, <1>3, <1>4, OthersKeepTheirs
<1>7. [w \in Users |-> Total(balance'[w])]
         = [[w \in Users |-> Total(balance[w])]
               EXCEPT ![u] = Total(balance[u]) - expired + credits]
  BY <1>1, <1>2, <1>3, <1>4, AvailableAfterWrite
<1>8. {x \in Orders : Recorded(ledger'[UserOf[x]], GrantKey(x))}
         = {x \in Orders : Recorded(ledger[UserOf[x]], GrantKey(x))} \cup {o}
  <2>1. {x \in Orders : UserOf[x] = u /\ key = GrantKey(x)} = {o}
    BY DEF key, GrantKey
  <2> QED
    BY <1>1, <1>2, <1>3, <1>4, <2>1, GrantedAfterWrite
<1>9. o \notin {x \in Orders : Recorded(ledger[UserOf[x]], GrantKey(x))}
  BY <1>3 DEF key
<1> QED
  BY <1>1, <1>5, <1>6, <1>7, <1>8, <1>9 DEF Account!Grant

(* Seen without buckets, rows and numbers, the ledger behaves as the
   account: one debit at a time per subject, refunds of exactly what is
   held, every order granted once.                                         *)
THEOREM LedgerImplementsAccount == Spec => ImplementsAccount
<1>1. Init => Account!Init
  <2> SUFFICES ASSUME Init PROVE Account!Init
    OBVIOUS
  <2>1. LedgerInv
    BY LedgerInvInit
  <2>2. \A u \in Users : ledger[u] = << >> /\ Len(ledger[u]) = 0 /\ Total(balance[u]) = 0
    BY EmptySeq DEF Init, Total
  <2>3. \A s \in Subjects : Held(ledger[UserOf[s]], s) = 0
    <3> TAKE s \in Subjects
    <3>1. Matching(ledger[UserOf[s]], "charge", s) = Matching(ledger[UserOf[s]], "refund", s)
      BY <2>2, CreditAssumption DEF Matching
    <3>2. Count(ledger[UserOf[s]], "charge", s) = Count(ledger[UserOf[s]], "refund", s)
      BY <3>1 DEF Count
    <3>3. Count(ledger[UserOf[s]], "charge", s) \in Nat
      BY <2>1, CountIsNat, RowsAreEntries, CreditAssumption DEF LedgerInv
    <3> QED
      BY <3>2, <3>3 DEF Held
  <2>4. {o \in Orders : Recorded(ledger[UserOf[o]], GrantKey(o))} = {}
    BY <2>2, CreditAssumption DEF Recorded
  <2> QED
    BY <2>2, <2>3, <2>4 DEF Account!Init
<1>2. LedgerInv /\ LedgerInv' /\ [Next]_vars => [Account!Next]_(Account!vars)
  <2> SUFFICES ASSUME LedgerInv, LedgerInv', [Next]_vars
               PROVE  [Account!Next]_(Account!vars)
    OBVIOUS
  <2>1. ASSUME NEW s \in Subjects, NEW cost \in Costs, ChargeCredits(s, cost)
        PROVE  Account!Next
    BY <2>1, ChargeIsDebit DEF Account!Next
  <2>2. ASSUME NEW s \in Subjects, RefundCredits(s)
        PROVE  Account!Next
    BY <2>2, RefundIsGiveBack DEF Account!Next
  <2>3. ASSUME NEW o \in Orders, NEW credits \in Allowances, GrantCredits(o, credits)
        PROVE  Account!Next
    BY <2>3, GrantIsGrant DEF Account!Next
  <2>4. CASE UNCHANGED vars
    BY <2>4 DEF vars, Account!vars
  <2> QED
    BY <2>1, <2>2, <2>3, <2>4 DEF Next
<1> QED
  BY <1>1, <1>2, LedgerInvHolds, PTL DEF Spec, ImplementsAccount, Account!Spec
=============================================================================
