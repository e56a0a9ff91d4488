------------------------- MODULE MCPaymentOrders --------------------------
(* Constant values for the model checking of PaymentOrders.                *)
EXTENDS PaymentOrders, TLC

CONSTANTS o1, o2, t1, t2, v1, w1, w2

ClickThenPayme == o1 :> "click" @@ o2 :> "payme"
Mock == [o \in Order |-> "mock"]
OneTxnEach == [t \in Txn |-> IF t = t1 THEN o1 ELSE o2]
OneEach == [o \in Order |-> 1]
AnyWorker == Permutations(Worker)
=============================================================================
