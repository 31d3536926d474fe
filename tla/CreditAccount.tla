--------------------------- MODULE CreditAccount ---------------------------
(***************************************************************************)
(* What the credit accounts promise, without buckets, ledger rows or       *)
(* numbered keys: a user has credits to spend, and a piece of work (a      *)
(* "subject": one video or one render) holds the credits it was charged    *)
(* until they are given back.  CreditLedger implements this specification. *)
(***************************************************************************)
EXTENDS Integers

CONSTANTS Users,       \* the account holders
          Subjects,    \* "video:<id>" and "render:<id>": what can be charged
          Orders,      \* idempotency keys of grants
          UserOf,      \* the user a subject or an order belongs to
          Costs,       \* the amounts a subject may be charged
          Allowances   \* the credits one grant may carry

VARIABLES available,   \* available[u]: what u can still spend
          held,        \* held[s]: what subject s holds; 0 when it has no open charge
          granted      \* the orders already turned into credits

vars == <<available, held, granted>>

Init == /\ available = [u \in Users |-> 0]
        /\ held = [s \in Subjects |-> 0]
        /\ granted = {}

(* A subject that holds nothing takes what it costs, if the user has it.   *)
Debit(s, cost) ==
    /\ held[s] = 0
    /\ cost <= available[UserOf[s]]
    /\ held' = [held EXCEPT ![s] = cost]
    /\ available' = [available EXCEPT ![UserOf[s]] = @ - cost]
    /\ UNCHANGED granted

(* Exactly what the subject holds goes back to its user.                   *)
GiveBack(s) ==
    /\ held[s] > 0
    /\ held' = [held EXCEPT ![s] = 0]
    /\ available' = [available EXCEPT ![UserOf[s]] = @ + held[s]]
    /\ UNCHANGED granted

(* An order adds its credits once; part of what was left may expire.       *)
Grant(o, credits) ==
    /\ o \notin granted
    /\ granted' = granted \cup {o}
    /\ \E expired \in 0 .. available[UserOf[o]] :
          available' = [available EXCEPT ![UserOf[o]] = @ - expired + credits]
    /\ UNCHANGED held

Next == \/ \E s \in Subjects : GiveBack(s) \/ \E cost \in Costs : Debit(s, cost)
        \/ \E o \in Orders, credits \in Allowances : Grant(o, credits)

Spec == Init /\ [][Next]_vars
=============================================================================
