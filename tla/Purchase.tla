----------------------------- MODULE Purchase -----------------------------
(***************************************************************************)
(* What a payment order promises, whatever the providers' callbacks do: it *)
(* is turned into one grant, its voucher is spent for one order only, and  *)
(* the player's saved balance is debited for it once and refunded once.    *)
(***************************************************************************)
EXTENDS Naturals

CONSTANTS Order, Voucher

VARIABLES
  rows,     \* the number of grants that were made for each order
  spent,    \* "active", "elsewhere", or the order each voucher was spent for
  debit,    \* the balance taken for each order
  refunded  \* the orders whose debit was given back

vars == <<rows, spent, debit, refunded>>

Init ==
  /\ rows = [o \in Order |-> 0]
  /\ spent = [v \in Voucher |-> "active"]
  /\ debit = [o \in Order |-> 0]
  /\ refunded = {}

Debited(o) == /\ debit'[o] \in Nat
              /\ debit' = [debit EXCEPT ![o] = debit'[o]]

(* The first successful callback.                                           *)
Buy(o) ==
  /\ rows[o] = 0
  /\ rows' = [rows EXCEPT ![o] = 1]
  /\ \/ spent' = spent
     \/ \E v \in Voucher : /\ spent[v] = "active"
                           /\ spent' = [spent EXCEPT ![v] = o]
  /\ Debited(o)
  /\ UNCHANGED refunded

(* A repeated one may find a balance where the first found none.            *)
DebitLater(o) ==
  /\ rows[o] = 1 /\ debit[o] = 0
  /\ Debited(o)
  /\ UNCHANGED <<rows, spent, refunded>>

Refund(o) ==
  /\ debit[o] # 0 /\ o \notin refunded
  /\ refunded' = refunded \union {o}
  /\ UNCHANGED <<rows, spent, debit>>

SpendElsewhere(v) ==
  /\ spent[v] = "active"
  /\ spent' = [spent EXCEPT ![v] = "elsewhere"]
  /\ UNCHANGED <<rows, debit, refunded>>

Next == \/ \E o \in Order : Buy(o) \/ DebitLater(o) \/ Refund(o)
        \/ \E v \in Voucher : SpendElsewhere(v)

Spec == Init /\ [][Next]_vars
=============================================================================
