------------------------ MODULE MCLedgerTransactions ------------------------
(* One user: everything contends for one balance row, which does not exist
   yet.  A video, and two paid orders.                                     *)
EXTENDS LedgerTransactions, TLC

CONSTANTS u1, v1, o1, o2, t1, t2, t3

MCUsers == {u1}
MCSubjects == {v1}
MCOrders == {o1, o2}
MCUserOf == [x \in MCSubjects \cup MCOrders |-> u1]

Symmetry == Permutations(Txs)
=============================================================================
