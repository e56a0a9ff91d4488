----------------------- MODULE PaymentOrders_proofs -----------------------
(***************************************************************************)
(* Theorems about PaymentOrders: type correctness, that no payment is      *)
(* recorded without a grant, that a voucher is counted once, that no time  *)
(* is made or lost between orders and balance, and that the callbacks      *)
(* implement Purchase.                                                     *)
(***************************************************************************)
EXTENDS PaymentOrders, Sums_proofs, TLAPS

AnyProc == Calling \union Starting \union {Idle}

-----------------------------------------------------------------------------
(* Handlers.                                                                *)

LEMMA AtCall ==
  ASSUME TypeOK, NEW w \in Worker, NEW step, At(w, step),
         step \in {"create", "cancel", "apply", "commit"}
  PROVE  /\ proc[w] \in Calling
         /\ proc[w].o \in Order /\ proc[w].t \in Txn
         /\ proc[w].status \in OrderStatus /\ proc[w].had \in Nat
<1>1. proc[w] \in Calling
  BY DEF TypeOK, At, Idle, Starting
<1> QED BY <1>1 DEF Calling

LEMMA AtStart ==
  ASSUME TypeOK, NEW w \in Worker, NEW step, At(w, step), step \in {"url", "start"}
  PROVE  /\ proc[w] \in Starting
         /\ proc[w].o \in Order /\ proc[w].kept \in Nat
<1>1. proc[w] \in Starting
  BY DEF TypeOK, At, Idle, Calling
<1> QED BY <1>1 DEF Starting

LEMMA ReturnType ==
  ASSUME TypeOK, NEW w \in Worker, Return(w)
  PROVE  proc' \in [Worker -> AnyProc]
  BY DEF TypeOK, Return, AnyProc

LEMMA CallType ==
  ASSUME TypeOK, OrderAssumption, NEW w \in Worker, NEW t \in Txn, NEW s \in OrderStatus,
         NEW step \in {"create", "cancel", "apply"}, Call(w, step, t, s)
  PROVE  /\ proc' \in [Worker -> AnyProc]
         /\ proc'[w].at = step /\ proc'[w].t = t /\ proc'[w].o = TxnOf[t]
         /\ proc'[w].status = s
         /\ \A v \in Worker : v # w => proc'[v] = proc[v]
<1> DEFINE p == [Idle EXCEPT !.at = step, !.o = TxnOf[t], !.t = t, !.status = s]
<1>1. TxnOf[t] \in Order
  BY DEF OrderAssumption
<1>2. p \in Calling
  BY <1>1 DEF Calling, Idle
<1>3. proc' = [proc EXCEPT ![w] = p]
  BY DEF Call
<1>4. p.at = step /\ p.t = t /\ p.o = TxnOf[t] /\ p.status = s
  BY DEF Idle
<1> HIDE DEF p
<1> QED BY <1>2, <1>3, <1>4 DEF TypeOK, AnyProc

LEMMA ReleaseType ==
  ASSUME TypeOK, NEW w \in Worker, Release(w)
  PROVE  lock' \in Worker \union {NoWorker}
  BY DEF TypeOK, Release

-----------------------------------------------------------------------------
(* Type correctness.                                                        *)

LEMMA InitTypeOK == ASSUME OrderAssumption, Init PROVE TypeOK
  BY DEF OrderAssumption, Init, TypeOK, OrderStatus, GrantStatus

LEMMA CallbackTypeOK ==
  ASSUME TypeOK, OrderAssumption, NEW w \in Worker, NEW t \in Txn, Callback(w, t)
  PROVE  TypeOK'
<1>1. proc' \in [Worker -> AnyProc]
  <2>1. "none" \in OrderStatus /\ order[TxnOf[t]] \in OrderStatus
    BY DEF TypeOK, OrderStatus, OrderAssumption
  <2>2. CASE CompletePayment(w, t)
    BY <2>1, <2>2, CallType DEF CompletePayment
  <2>3. CASE PaymeCreate(w, t)
    BY <2>1, <2>3, CallType DEF PaymeCreate
  <2>4. CASE PaymePerform(w, t)
    BY <2>1, <2>4, CallType DEF PaymePerform
  <2>5. CASE PaymeCancel(w, t)
    BY <2>1, <2>5, CallType DEF PaymeCancel
  <2> QED BY <2>2, <2>3, <2>4, <2>5 DEF Callback
<1>2. UNCHANGED <<orderVars, grantVars, ledgerVars, spent, lock>>
  BY DEF Callback, CompletePayment, PaymeCreate, PaymePerform, PaymeCancel
<1> QED BY <1>1, <1>2 DEF TypeOK, AnyProc, orderVars, grantVars, ledgerVars

LEMMA OrderTypeOK ==
  ASSUME TypeOK, OrderAssumption, NEW w \in Worker,
         PaymeCreateWrite(w) \/ PaymeCancelWrite(w)
  PROVE  TypeOK'
<1>1. CASE PaymeCreateWrite(w)
  <2>1. proc[w].o \in Order /\ proc[w].t \in Txn
    BY <1>1, AtCall DEF PaymeCreateWrite
  <2>2. proc' \in [Worker -> AnyProc]
    BY <1>1, ReturnType DEF PaymeCreateWrite
  <2> QED BY <1>1, <2>1, <2>2 DEF PaymeCreateWrite, TypeOK, AnyProc, grantVars, ledgerVars
<1>2. CASE PaymeCancelWrite(w)
  <2>1. proc[w].o \in Order
    BY <1>2, AtCall DEF PaymeCancelWrite
  <2>2. proc' \in [Worker -> AnyProc]
    BY <1>2, ReturnType DEF PaymeCancelWrite
  <2>3. order' \in [Order -> OrderStatus]
    BY <1>2, <2>1 DEF PaymeCancelWrite, TypeOK, OrderStatus
  <2> QED BY <1>2, <2>2, <2>3 DEF PaymeCancelWrite, TypeOK, AnyProc, grantVars, ledgerVars
<1> QED BY <1>1, <1>2

LEMMA CheckoutTypeOK ==
  ASSUME TypeOK, OrderAssumption, NEW o \in Order, CreateCheckout(o)
  PROVE  TypeOK'
<1>1. order' \in [Order -> OrderStatus] /\ orderDur' \in [Order -> Nat]
  BY DEF CreateCheckout, TypeOK, OrderStatus, OrderAssumption
<1>2. ext' \in [Order -> Order \union {NoOrder}]
  BY DEF CreateCheckout, TypeOK
<1>3. voucher' \in [Order -> Voucher \union {NoVoucher}]
  BY DEF CreateCheckout, TypeOK
<1>4. paymentID' \in [Order -> Txn \union {NoTxn}]
  BY DEF CreateCheckout, TypeOK
<1> QED BY <1>1, <1>2, <1>3, <1>4 DEF CreateCheckout, TypeOK, grantVars, ledgerVars

LEMMA ClickTypeOK ==
  ASSUME TypeOK, OrderAssumption, NEW t \in Txn, ClickPrepare(t) \/ ClickError(t)
  PROVE  TypeOK'
<1>1. TxnOf[t] \in Order
  BY DEF OrderAssumption
<1>2. CASE ClickPrepare(t)
  BY <1>1, <1>2 DEF ClickPrepare, FirstID, TypeOK, grantVars, ledgerVars
<1>3. CASE ClickError(t)
  BY <1>1, <1>3 DEF ClickError, TypeOK, OrderStatus, grantVars, ledgerVars
<1> QED BY <1>2, <1>3

LEMMA LockTypeOK ==
  ASSUME TypeOK, OrderAssumption, NEW w \in Worker, LockOrder(w)
  PROVE  TypeOK'
<1>1. proc' \in [Worker -> AnyProc]
  <2>1. CASE Return(w)
    BY <2>1, ReturnType
  <2>2. CASE ~ Return(w)
    <3> DEFINE p == [proc[w] EXCEPT !.at = "commit", !.status = order[proc[w].o],
                                    !.had = rows[proc[w].o]]
    <3>1. proc[w] \in Calling /\ order[proc[w].o] \in OrderStatus
          /\ rows[proc[w].o] \in Nat
      BY AtCall DEF LockOrder, TypeOK
    <3>2. p \in Calling
      BY <3>1 DEF Calling
    <3>3. proc' = [proc EXCEPT ![w] = p]
      BY <2>2 DEF LockOrder, TypeOK
    <3> QED BY <3>2, <3>3 DEF TypeOK, AnyProc
  <2> QED BY <2>1, <2>2
<1> QED BY <1>1 DEF LockOrder, TypeOK, AnyProc, orderVars, grantVars, ledgerVars

(* What a commit of applyPaymentSuccess writes.                             *)
LEMMA MarkPaidType ==
  ASSUME TypeOK, OrderAssumption, NEW w \in Worker, At(w, "commit"), MarkPaid(w)
  PROVE  /\ order' \in [Order -> OrderStatus]
         /\ ext' \in [Order -> Order \union {NoOrder}]
         /\ voucher' \in [Order -> Voucher \union {NoVoucher}]
         /\ paymentID' \in [Order -> Txn \union {NoTxn}]
         /\ orderDur' \in [Order -> Nat]
         /\ payments' \subseteq Txn
         /\ spent' \in [Voucher -> Order \union {"active", "elsewhere"}]
         /\ TimeOf(w) \in Nat
<1>1. proc[w].o \in Order /\ proc[w].t \in Txn
  BY AtCall
<1>2. TimeOf(w) \in Nat
  BY <1>1 DEF TimeOf, TypeOK, OrderAssumption
<1>3. order' \in [Order -> OrderStatus] /\ payments' \subseteq Txn
      /\ orderDur' \in [Order -> Nat]
  BY <1>1, <1>2 DEF MarkPaid, TypeOK, OrderStatus
<1>4. paymentID' \in [Order -> Txn \union {NoTxn}]
  BY <1>1 DEF MarkPaid, FirstID, TypeOK
<1>5. spent' \in [Voucher -> Order \union {"active", "elsewhere"}]
  BY <1>1 DEF MarkPaid, TypeOK
<1>6. UNCHANGED <<ext, voucher>>
  BY DEF MarkPaid
<1> QED BY <1>2, <1>3, <1>4, <1>5, <1>6 DEF TypeOK

LEMMA GrantType ==
  ASSUME TypeOK, NEW w \in Worker, At(w, "commit"), NEW n \in Nat, Grant(w, n)
  PROVE  /\ rows' \in [Order -> Nat]
         /\ grant' \in [Order -> GrantStatus]
         /\ dur' \in [Order -> Nat]
<1>1. proc[w].o \in Order
  BY AtCall
<1> QED BY <1>1 DEF Grant, TypeOK, GrantStatus

LEMMA ExtensionTypeOK ==
  ASSUME TypeOK, OrderAssumption, NEW w \in Worker,
         CommitExtension(w) \/ RollbackExtension(w)
  PROVE  TypeOK'
<1>1. proc' \in [Worker -> AnyProc] /\ lock' \in Worker \union {NoWorker}
  BY ReturnType, ReleaseType DEF CommitExtension, RollbackExtension
<1>2. CASE RollbackExtension(w)
  BY <1>1, <1>2 DEF RollbackExtension, TypeOK, AnyProc, orderVars, grantVars, ledgerVars
<1>3. CASE CommitExtension(w)
  <2> DEFINE o == proc[w].o
  <2>1. o \in Order /\ ext[o] \in Order
    BY <1>3, AtCall DEF CommitExtension, TypeOK
  <2>2. TimeOf(w) \in Nat
    BY <1>3, MarkPaidType DEF CommitExtension
  <2>3. /\ rows' \in [Order -> Nat]
        /\ grant' \in [Order -> GrantStatus]
        /\ dur' \in [Order -> Nat]
    BY <1>3, <2>2, GrantType DEF CommitExtension
  <2>4. parent' \in [Order -> Order \union {NoOrder}]
        /\ core' \subseteq Order /\ owned' \subseteq Order
    BY <1>3, <2>1 DEF CommitExtension, TypeOK
  <2>5. UNCHANGED ledgerVars
    BY <1>3 DEF CommitExtension
  <2>6. At(w, "commit") /\ MarkPaid(w)
    BY <1>3 DEF CommitExtension
  <2> QED BY <1>1, <2>3, <2>4, <2>5, <2>6, MarkPaidType DEF TypeOK, AnyProc, ledgerVars
<1> QED BY <1>2, <1>3

LEMMA DebitType ==
  ASSUME TypeOK, NEW o \in Order, NEW n \in Nat, n <= balance, Debit(o, n)
  PROVE  balance' \in Nat /\ debit' \in [Order -> Nat]
  BY DEF Debit, TypeOK

LEMMA SessionTypeOK ==
  ASSUME TypeOK, OrderAssumption, NEW w \in Worker, CommitSession(w)
  PROVE  TypeOK'
<1> DEFINE o == proc[w].o
           extra == IF o \in Profile THEN balance ELSE 0
           p == [Idle EXCEPT !.at = "url", !.o = o, !.kept = extra]
<1>1. o \in Order /\ At(w, "commit") /\ MarkPaid(w)
  BY AtCall DEF CommitSession
<1>2. extra \in Nat /\ extra <= balance
  BY DEF TypeOK
<1>3. TimeOf(w) + extra \in Nat
  BY <1>1, <1>2, MarkPaidType
<1>4. Grant(w, TimeOf(w) + extra) /\ Debit(o, extra) /\ Release(w)
  BY DEF CommitSession
<1>5. p \in Starting
  BY <1>1, <1>2 DEF Starting, Idle
<1>6. proc' = [proc EXCEPT ![w] = p]
  BY DEF CommitSession
<1>7. owned' \subseteq Order
  BY <1>1 DEF CommitSession, TypeOK
<1>8. UNCHANGED <<core, parent, refunded, returned>>
  BY DEF CommitSession
<1>9. proc' \in [Worker -> AnyProc]
  BY <1>5, <1>6 DEF TypeOK, AnyProc
<1>10. balance' \in Nat /\ debit' \in [Order -> Nat]
  BY <1>1, <1>2, <1>4, DebitType
<1>11. /\ rows' \in [Order -> Nat]
       /\ grant' \in [Order -> GrantStatus]
       /\ dur' \in [Order -> Nat]
  BY <1>1, <1>3, <1>4, GrantType
<1>12. lock' \in Worker \union {NoWorker}
  BY <1>4, ReleaseType
<1> HIDE DEF o, extra, p
<1> QED BY <1>1, <1>7, <1>8, <1>9, <1>10, <1>11, <1>12, MarkPaidType DEF TypeOK, AnyProc

LEMMA StartTypeOK ==
  ASSUME TypeOK, OrderAssumption, NEW w \in Worker,
         MakeURL(w) \/ URLFails(w) \/ StartOk(w) \/ Stop(w)
  PROVE  TypeOK'
<1>1. CASE MakeURL(w)
  <2>1. proc' \in [Worker -> AnyProc]
    <3>1. CASE Return(w)
      BY <3>1, ReturnType
    <3>2. CASE ~ Return(w)
      <4> DEFINE p == [proc[w] EXCEPT !.at = "start", !.kept = 0]
      <4>1. proc[w] \in Starting
        BY <1>1, AtStart DEF MakeURL
      <4>2. p \in Starting
        BY <4>1 DEF Starting
      <4>3. proc' = [proc EXCEPT ![w] = p]
        BY <1>1, <3>2 DEF MakeURL, TypeOK
      <4> QED BY <4>2, <4>3 DEF TypeOK, AnyProc
    <3> QED BY <3>1, <3>2
  <2> QED BY <1>1, <2>1 DEF MakeURL, TypeOK, AnyProc, orderVars, grantVars, ledgerVars
<1>2. CASE URLFails(w)
  <2>1. proc[w].o \in Order
    BY <1>2, AtStart DEF URLFails
  <2>2. proc' \in [Worker -> AnyProc]
    BY <1>2, ReturnType DEF URLFails
  <2>3. grant' \in [Order -> GrantStatus]
    BY <1>2, <2>1 DEF URLFails, TypeOK, GrantStatus
  <2>4. balance' \in Nat /\ refunded' \subseteq Order
    BY <1>2, <2>1 DEF URLFails, TypeOK
  <2> QED BY <1>2, <2>2, <2>3, <2>4 DEF URLFails, TypeOK, AnyProc, orderVars
<1>3. CASE StartOk(w)
  <2>1. proc[w].o \in Order
    BY <1>3, AtStart DEF StartOk
  <2>2. proc' \in [Worker -> AnyProc]
    BY <1>3, ReturnType DEF StartOk
  <2>3. grant' \in [Order -> GrantStatus] /\ core' \subseteq Order
    BY <1>3, <2>1 DEF StartOk, TypeOK, GrantStatus
  <2> QED BY <1>3, <2>2, <2>3 DEF StartOk, TypeOK, AnyProc, orderVars, ledgerVars
<1>4. CASE Stop(w)
  <2>1. proc' \in [Worker -> AnyProc] /\ lock' \in Worker \union {NoWorker}
    BY <1>4, ReturnType, ReleaseType DEF Stop
  <2> QED BY <1>4, <2>1 DEF Stop, TypeOK, AnyProc, orderVars, grantVars, ledgerVars
<1> QED BY <1>1, <1>2, <1>3, <1>4

LEMMA LifeTypeOK ==
  ASSUME TypeOK, OrderAssumption, NEW o \in Order,
         Deliver(o) \/ DeliveryFails(o) \/ FinishGrant(o)
  PROVE  TypeOK'
<1>1. CASE Deliver(o)
  <2>1. grant' \in [Order -> GrantStatus] /\ core' \subseteq Order
    BY <1>1 DEF Deliver, TypeOK, GrantStatus
  <2> QED BY <1>1, <2>1 DEF Deliver, TypeOK, orderVars, ledgerVars
<1>2. CASE DeliveryFails(o)
  <2>1. grant' \in [Order -> GrantStatus]
    BY <1>2 DEF DeliveryFails, TypeOK, GrantStatus
  <2> QED BY <1>2, <2>1 DEF DeliveryFails, TypeOK, orderVars, ledgerVars
<1>3. CASE FinishGrant(o)
  <2>1. grant' \in [Order -> GrantStatus]
    BY <1>3 DEF FinishGrant, TypeOK, GrantStatus
  <2>2. balance' \in Nat /\ returned' \in [Order -> Nat]
    BY <1>3 DEF FinishGrant, TypeOK
  <2> QED BY <1>3, <2>1, <2>2 DEF FinishGrant, TypeOK, orderVars
<1> QED BY <1>1, <1>2, <1>3

LEMMA VoucherTypeOK ==
  ASSUME TypeOK, NEW v \in Voucher, RedeemVoucher(v)
  PROVE  TypeOK'
  BY DEF RedeemVoucher, TypeOK, orderVars, grantVars, ledgerVars

(* Every step of Next, by the handler or the environment that takes it.     *)
LEMMA NextTypeOK ==
  ASSUME TypeOK, OrderAssumption, [Next]_vars
  PROVE  TypeOK'
<1>1. CASE UNCHANGED vars
  BY <1>1 DEF vars, TypeOK, orderVars, grantVars, ledgerVars
<1>2. CASE \E w \in Worker : HandlerStep(w)
  BY <1>2, OrderTypeOK, LockTypeOK, ExtensionTypeOK, SessionTypeOK, StartTypeOK
     DEF HandlerStep
<1>3. CASE \E w \in Worker, t \in Txn : Callback(w, t)
  BY <1>3, CallbackTypeOK
<1>4. CASE \E t \in Txn : ClickPrepare(t) \/ ClickError(t)
  BY <1>4, ClickTypeOK
<1>5. CASE \E o \in Order : CreateCheckout(o)
  BY <1>5, CheckoutTypeOK
<1>6. CASE \E o \in Order : Deliver(o) \/ DeliveryFails(o) \/ FinishGrant(o)
  BY <1>6, LifeTypeOK
<1>7. CASE \E v \in Voucher : RedeemVoucher(v)
  BY <1>7, VoucherTypeOK
<1> QED BY <1>1, <1>2, <1>3, <1>4, <1>5, <1>6, <1>7 DEF Next

(* Every order, grant, voucher and handler has the values TypeOK names: in  *)
(* particular the balance a commit of applyPaymentSuccess debits is never   *)
(* more than the player has, and a handler past LockOrder holds an order.   *)
THEOREM TypeCorrect == Spec => []TypeOK
<1>1. Init => TypeOK
  BY InitTypeOK, OrderAssumption
<1>2. TypeOK /\ [Next]_vars => TypeOK'
  BY NextTypeOK, OrderAssumption
<1> QED BY <1>1, <1>2, PTL DEF Spec

-----------------------------------------------------------------------------
(* The inductive invariant.  A transaction that holds the lock still sees   *)
(* what it read; a cancellation that saw a paid order may write "refunded"  *)
(* long after, when the order is no longer paid, so it has to remember the  *)
(* payment; and an order with a grant has nothing left to redeem.           *)
OneGrant == \A o \in Order : rows[o] \in {0, 1}

LockedCommit ==
  \A w \in Worker : At(w, "commit") =>
    /\ lock = w
    /\ proc[w].had = rows[proc[w].o]
    /\ proc[w].status = order[proc[w].o]

InCall(w) == proc[w].at \in {"create", "cancel", "apply", "commit"}

CallsKnown ==
  \A w \in Worker : InCall(w) =>
    proc[w].o = TxnOf[proc[w].t] /\ order[proc[w].o] # "none"

HasPayment(o) == \E t \in payments : TxnOf[t] = o

CancelSeen ==
  \A w \in Worker : At(w, "cancel") /\ proc[w].status = "paid"
                       => HasPayment(proc[w].o)

VoucherTaken ==
  \A o \in Order : rows[o] > 0 /\ voucher[o] # NoVoucher
                      => spent[voucher[o]] # "active"

GrantHasOrder == \A o \in Order : rows[o] > 0 => order[o] # "none"

Inv == /\ TypeOK
       /\ OneGrant /\ LockedCommit /\ CallsKnown /\ CancelSeen
       /\ PaidIsGranted /\ VoucherTaken /\ GrantHasOrder

LEMMA InitInv == ASSUME OrderAssumption, Init PROVE Inv
<1>1. TypeOK
  BY InitTypeOK
<1>2. \A w \in Worker : proc[w].at = "idle"
  BY DEF Init, Idle
<1>3. \A o \in Order : rows[o] = 0 /\ order[o] = "none"
  BY DEF Init
<1>4. payments = {}
  BY DEF Init
<1> QED BY <1>1, <1>2, <1>3, <1>4 DEF Inv, OneGrant, LockedCommit, InCall, CallsKnown,
           CancelSeen, PaidIsGranted, VoucherTaken, GrantHasOrder, At

(* What a handler that returned, or went on to start the session, leaves.   *)
Leaves(w) ==
  /\ ~ InCall(w)'
  /\ \A v \in Worker : v # w => proc'[v] = proc[v]
  /\ lock' = lock \/ lock = w

LEMMA ReturnQuiet ==
  ASSUME TypeOK, NEW w \in Worker, Return(w)
  PROVE  ~ InCall(w)' /\ \A v \in Worker : v # w => proc'[v] = proc[v]
<1>1. proc'[w] = Idle
  BY DEF TypeOK, Return
<1>2. ~ InCall(w)'
  BY <1>1 DEF InCall, Idle
<1> QED BY <1>2 DEF TypeOK, Return

(* A handler that leaves the order, its grants and the vouchers as they are.*)
LEMMA LeavesInv ==
  ASSUME Inv, TypeOK', NEW w \in Worker, Leaves(w),
         UNCHANGED <<order, voucher, payments, rows, spent>>
  PROVE  Inv'
<1>1. LockedCommit'
  <2> SUFFICES ASSUME NEW v \in Worker, At(v, "commit")'
               PROVE  (lock = v /\ proc[v].had = rows[proc[v].o]
                       /\ proc[v].status = order[proc[v].o])'
    BY DEF LockedCommit
  <2>1. v # w
    BY DEF Leaves, InCall, At
  <2>2. proc'[v] = proc[v]
    BY <2>1 DEF Leaves
  <2>3. At(v, "commit")
    BY <2>2 DEF At
  <2>4. lock = v /\ lock' = lock
    BY <2>1, <2>3 DEF Leaves, Inv, LockedCommit
  <2> QED BY <2>2, <2>3, <2>4 DEF Inv, LockedCommit
<1>2. CallsKnown'
  BY DEF Inv, CallsKnown, Leaves, InCall
<1>3. CancelSeen'
  <2> SUFFICES ASSUME NEW v \in Worker, At(v, "cancel")', proc'[v].status = "paid"
               PROVE  HasPayment(proc[v].o)'
    BY DEF CancelSeen
  <2>1. proc'[v] = proc[v]
    BY DEF Leaves, InCall, At
  <2> QED BY <2>1 DEF Inv, CancelSeen, At, HasPayment
<1> QED BY <1>1, <1>2, <1>3
        DEF Inv, OneGrant, PaidIsGranted, VoucherTaken, GrantHasOrder

LEMMA PassiveInv ==
  ASSUME Inv, OrderAssumption, NEW w \in Worker,
         \/ PaymeCreateWrite(w) \/ RollbackExtension(w)
         \/ MakeURL(w) \/ URLFails(w) \/ StartOk(w) \/ Stop(w)
  PROVE  Inv'
<1>1. TypeOK'
  BY OrderTypeOK, ExtensionTypeOK, StartTypeOK DEF Inv
<1>2. UNCHANGED <<order, voucher, payments, rows, spent>>
  BY DEF PaymeCreateWrite, RollbackExtension, MakeURL, URLFails, StartOk, Stop,
         orderVars, grantVars
<1>3. lock' = lock \/ lock = w
  BY DEF PaymeCreateWrite, RollbackExtension, MakeURL, URLFails, StartOk, Stop, Release
<1>4. ~ InCall(w)' /\ \A v \in Worker : v # w => proc'[v] = proc[v]
  <2>1. CASE Return(w)
    BY <2>1, ReturnQuiet DEF Inv
  <2>2. CASE ~ Return(w)
    <3> DEFINE p == [proc[w] EXCEPT !.at = "start", !.kept = 0]
    <3>1. MakeURL(w)
      BY <2>2 DEF PaymeCreateWrite, RollbackExtension, URLFails, StartOk, Stop
    <3>2. proc[w] \in Starting
      BY <3>1, AtStart DEF MakeURL, Inv
    <3>3. p.at = "start"
      BY <3>2 DEF Starting
    <3>4. proc' = [proc EXCEPT ![w] = p]
      BY <2>2, <3>1 DEF MakeURL, Inv, TypeOK
    <3>5. proc'[w] = p /\ \A v \in Worker : v # w => proc'[v] = proc[v]
      BY <3>4 DEF Inv, TypeOK
    <3> QED BY <3>3, <3>5 DEF InCall
  <2> QED BY <2>1, <2>2
<1> QED BY <1>1, <1>2, <1>3, <1>4, LeavesInv DEF Leaves

(* A callback that starts, before it has the lock.                          *)
LEMMA CallbackInv ==
  ASSUME Inv, OrderAssumption, NEW w \in Worker, NEW t \in Txn, Callback(w, t)
  PROVE  Inv'
<1>1. PICK step \in {"create", "cancel", "apply"}, s \in OrderStatus :
        /\ Call(w, step, t, s)
        /\ order[TxnOf[t]] # "none"
        /\ step = "cancel" => s = order[TxnOf[t]]
  BY DEF Callback, CompletePayment, PaymeCreate, PaymePerform, PaymeCancel, OrderStatus
<1>2. /\ proc'[w].at = step /\ proc'[w].t = t /\ proc'[w].o = TxnOf[t]
      /\ proc'[w].status = s
      /\ \A v \in Worker : v # w => proc'[v] = proc[v]
  BY <1>1, CallType DEF Inv
<1>3. UNCHANGED <<order, voucher, payments, rows, spent, lock>>
  BY DEF Callback, CompletePayment, PaymeCreate, PaymePerform, PaymeCancel, orderVars,
         grantVars
<1>4. TypeOK'
  BY CallbackTypeOK DEF Inv
<1>5. LockedCommit'
  BY <1>2, <1>3 DEF Inv, LockedCommit, At
<1>6. CallsKnown'
  BY <1>1, <1>2, <1>3 DEF Inv, CallsKnown, InCall
<1>7. CancelSeen'
  <2> SUFFICES ASSUME NEW v \in Worker, At(v, "cancel")', proc'[v].status = "paid"
               PROVE  HasPayment(proc[v].o)'
    BY DEF CancelSeen
  <2>1. CASE v = w
    <3>1. order[TxnOf[t]] = "paid" /\ TxnOf[t] \in Order
      BY <1>1, <1>2, <2>1 DEF At, OrderAssumption
    <3>2. \E x \in payments : TxnOf[x] = TxnOf[t]
      BY <3>1 DEF Inv, PaidIsGranted
    <3> QED BY <1>2, <1>3, <2>1, <3>2 DEF HasPayment
  <2>2. CASE v # w
    BY <1>2, <1>3, <2>2 DEF Inv, CancelSeen, At, HasPayment
  <2> QED BY <2>1, <2>2
<1> QED BY <1>3, <1>4, <1>5, <1>6, <1>7
        DEF Inv, OneGrant, PaidIsGranted, VoucherTaken, GrantHasOrder

LEMMA LockInv ==
  ASSUME Inv, OrderAssumption, NEW w \in Worker, LockOrder(w)
  PROVE  Inv'
<1>1. TypeOK'
  BY LockTypeOK DEF Inv
<1>2. UNCHANGED <<order, voucher, payments, rows, spent>>
  BY DEF LockOrder, orderVars, grantVars
<1>3. CASE Return(w) /\ UNCHANGED lock
  BY <1>1, <1>2, <1>3, ReturnQuiet, LeavesInv DEF Leaves, Inv
<1>4. CASE ~ (Return(w) /\ UNCHANGED lock)
  <2> DEFINE p == [proc[w] EXCEPT !.at = "commit", !.status = order[proc[w].o],
                                  !.had = rows[proc[w].o]]
  <2>1. proc[w] \in Calling /\ At(w, "apply")
    BY AtCall DEF LockOrder, Inv
  <2>2. /\ p.at = "commit" /\ p.o = proc[w].o /\ p.t = proc[w].t
        /\ p.status = order[proc[w].o] /\ p.had = rows[proc[w].o]
    BY <2>1 DEF Calling
  <2>3. proc' = [proc EXCEPT ![w] = p] /\ lock' = w /\ lock = NoWorker
    BY <1>4 DEF LockOrder, Unlocked, Inv, TypeOK
  <2>4. proc'[w] = p /\ \A v \in Worker : v # w => proc'[v] = proc[v]
    BY <2>3 DEF Inv, TypeOK
  <2> HIDE DEF p
  <2>5. LockedCommit'
    BY <1>2, <2>2, <2>3, <2>4 DEF Inv, LockedCommit, At, OrderAssumption
  <2>6. CallsKnown'
    BY <1>2, <2>1, <2>2, <2>4 DEF Inv, CallsKnown, InCall, At
  <2>7. CancelSeen'
    BY <1>2, <2>2, <2>4 DEF Inv, CancelSeen, At, HasPayment
  <2> QED BY <1>1, <1>2, <2>5, <2>6, <2>7
          DEF Inv, OneGrant, PaidIsGranted, VoucherTaken, GrantHasOrder
<1> QED BY <1>3, <1>4

(* The write of a cancellation, which waited for the lock.                  *)
LEMMA CancelInv ==
  ASSUME Inv, OrderAssumption, NEW w \in Worker, PaymeCancelWrite(w)
  PROVE  Inv'
<1> DEFINE o == proc[w].o
<1>1. TypeOK' /\ o \in Order
  BY OrderTypeOK, AtCall DEF Inv, PaymeCancelWrite
<1>2. UNCHANGED <<voucher, payments, rows, spent, lock>> /\ lock = NoWorker
  BY DEF PaymeCancelWrite, grantVars, Unlocked
<1>3. ~ InCall(w)' /\ \A v \in Worker : v # w => proc'[v] = proc[v]
  BY ReturnQuiet DEF PaymeCancelWrite, Inv
<1>4. /\ \A x \in Order : x # o => order'[x] = order[x]
      /\ order'[o] \in {"failed", "refunded"}
      /\ order'[o] = "refunded" => order[o] = "refunded" \/ proc[w].status = "paid"
  BY <1>1 DEF PaymeCancelWrite, Inv, TypeOK
<1>5. LockedCommit'
  BY <1>2, <1>3 DEF Inv, LockedCommit, At, InCall, OrderAssumption
<1>6. CallsKnown'
  <2> SUFFICES ASSUME NEW v \in Worker, InCall(v)'
               PROVE  proc'[v].o = TxnOf[proc'[v].t] /\ order'[proc'[v].o] # "none"
    BY DEF CallsKnown
  <2>1. proc'[v] = proc[v] /\ InCall(v)
    BY <1>3 DEF InCall
  <2>2. proc[v].o = TxnOf[proc[v].t] /\ order[proc[v].o] # "none" /\ proc[v].o \in Order
    BY <2>1, AtCall DEF Inv, CallsKnown, InCall, At
  <2> QED BY <1>4, <2>1, <2>2
<1>7. CancelSeen'
  BY <1>2, <1>3 DEF Inv, CancelSeen, At, InCall, HasPayment
<1>8. PaidIsGranted'
  <2>1. order'[o] = "refunded" => HasPayment(o)
    BY <1>1, <1>4 DEF Inv, PaidIsGranted, CancelSeen, PaymeCancelWrite, HasPayment
  <2> QED BY <1>2, <1>4, <2>1 DEF Inv, PaidIsGranted, HasPayment
<1>9. OneGrant' /\ VoucherTaken' /\ GrantHasOrder'
  BY <1>2, <1>4 DEF Inv, OneGrant, VoucherTaken, GrantHasOrder
<1> QED BY <1>1, <1>5, <1>6, <1>7, <1>8, <1>9 DEF Inv

(* What the two commits of applyPaymentSuccess have in common.              *)
Commits(w) ==
  /\ At(w, "commit") /\ MarkPaid(w) /\ \E n \in Nat : Grant(w, n)
  /\ Leaves(w)

LEMMA CommitsCommit ==
  ASSUME Inv, OrderAssumption, NEW w \in Worker, CommitExtension(w) \/ CommitSession(w)
  PROVE  Commits(w)
<1>1. CASE CommitExtension(w)
  <2>1. TimeOf(w) \in Nat
    BY <1>1, MarkPaidType DEF CommitExtension, Inv
  <2>2. Leaves(w)
    BY <1>1, ReturnQuiet DEF CommitExtension, Release, Leaves, Inv
  <2> QED BY <1>1, <2>1, <2>2 DEF CommitExtension, Commits
<1>2. CASE CommitSession(w)
  <2> DEFINE extra == IF proc[w].o \in Profile THEN balance ELSE 0
             p == [Idle EXCEPT !.at = "url", !.o = proc[w].o, !.kept = extra]
  <2>1. TimeOf(w) + extra \in Nat
    BY <1>2, MarkPaidType DEF CommitSession, Inv, TypeOK
  <2>2. p.at = "url"
    BY DEF Idle
  <2>3. proc' = [proc EXCEPT ![w] = p] /\ Grant(w, TimeOf(w) + extra)
        /\ MarkPaid(w) /\ At(w, "commit")
    BY <1>2 DEF CommitSession
  <2>4. proc'[w] = p /\ \A v \in Worker : v # w => proc'[v] = proc[v]
    BY <2>3 DEF Inv, TypeOK
  <2>5. lock' = lock \/ lock = w
    BY <1>2 DEF CommitSession, Release
  <2> HIDE DEF p, extra
  <2>6. Leaves(w)
    BY <2>2, <2>4, <2>5 DEF Leaves, InCall
  <2> QED BY <2>1, <2>3, <2>6 DEF Commits
<1> QED BY <1>1, <1>2

(* The commit writes one grant, if there was none, and nothing is redeemed  *)
(* for an order that has one.                                               *)
LEMMA CommitWrites ==
  ASSUME Inv, OrderAssumption, NEW w \in Worker, Commits(w), NEW o, o = proc[w].o
  PROVE  /\ o \in Order /\ lock = w
         /\ rows' = [rows EXCEPT ![o] = 1]
         /\ order' = [order EXCEPT ![o] = "paid"]
         /\ UNCHANGED voucher
         /\ payments' = payments \union {proc[w].t}
         /\ proc[w].t \in Txn /\ TxnOf[proc[w].t] = o
         /\ \/ spent' = spent
                /\ (rows[o] = 0 /\ voucher[o] # NoVoucher => spent[voucher[o]] # "active")
            \/ /\ rows[o] = 0 /\ voucher[o] \in Voucher
               /\ spent[voucher[o]] = "active"
               /\ spent' = [spent EXCEPT ![voucher[o]] = o]
<1>1. At(w, "commit") /\ MarkPaid(w) /\ \E n \in Nat : Grant(w, n)
  BY DEF Commits
<1>2. o \in Order /\ proc[w].t \in Txn
  BY <1>1, AtCall DEF Inv
<1>3. lock = w /\ proc[w].had = rows[o] /\ proc[w].status = order[o]
  BY <1>1 DEF Inv, LockedCommit
<1>4. TxnOf[proc[w].t] = o
  BY <1>1 DEF Inv, CallsKnown, InCall, At
<1>5. rows' = [rows EXCEPT ![o] = 1]
  <2>1. rows' = IF rows[o] = 0 THEN [rows EXCEPT ![o] = rows[o] + 1] ELSE rows
    BY <1>1, <1>3 DEF Grant
  <2>2. rows[o] \in {0, 1} /\ rows \in [Order -> Nat]
    BY <1>2 DEF Inv, OneGrant, TypeOK
  <2>3. CASE rows[o] = 0
    BY <1>2, <2>1, <2>3
  <2>4. CASE rows[o] = 1
    BY <1>2, <2>1, <2>2, <2>4
  <2> QED BY <2>2, <2>3, <2>4
<1>6. /\ order' = [order EXCEPT ![o] = "paid"] /\ UNCHANGED voucher
      /\ payments' = payments \union {proc[w].t}
      /\ spent' = IF Redeems(w) THEN [spent EXCEPT ![voucher[o]] = o] ELSE spent
  BY <1>1 DEF MarkPaid
<1>7. Redeems(w) => /\ rows[o] = 0 /\ voucher[o] \in Voucher
                    /\ spent[voucher[o]] = "active"
  BY <1>2 DEF Redeems, Inv, VoucherTaken, OneGrant, TypeOK
<1>8. ~ Redeems(w) /\ rows[o] = 0 /\ voucher[o] # NoVoucher => spent[voucher[o]] # "active"
  <2> SUFFICES ASSUME ~ Redeems(w), rows[o] = 0, voucher[o] # NoVoucher,
                      spent[voucher[o]] = "active"
               PROVE  FALSE
    OBVIOUS
  <2>1. order[o] = "paid"
    BY <1>3 DEF Redeems
  <2>2. PICK t \in payments : TxnOf[t] = o
    BY <1>2, <2>1 DEF Inv, PaidIsGranted
  <2>3. rows[o] > 0
    BY <2>2 DEF Inv, PaidIsGranted
  <2> QED BY <2>3
<1> QED BY <1>2, <1>3, <1>4, <1>5, <1>6, <1>7, <1>8

LEMMA CommitInv ==
  ASSUME Inv, OrderAssumption, NEW w \in Worker, CommitExtension(w) \/ CommitSession(w)
  PROVE  Inv'
<1> DEFINE o == proc[w].o
<1>1. TypeOK' /\ Commits(w) /\ Leaves(w)
  BY ExtensionTypeOK, SessionTypeOK, CommitsCommit DEF Inv, Commits
<1>2. /\ o \in Order /\ lock = w
      /\ rows' = [rows EXCEPT ![o] = 1]
      /\ order' = [order EXCEPT ![o] = "paid"]
      /\ UNCHANGED voucher
      /\ payments' = payments \union {proc[w].t}
      /\ proc[w].t \in Txn /\ TxnOf[proc[w].t] = o
  BY <1>1, CommitWrites
<1>3. \/ /\ spent' = spent
         /\ rows[o] = 0 /\ voucher[o] # NoVoucher => spent[voucher[o]] # "active"
      \/ /\ rows[o] = 0 /\ voucher[o] \in Voucher
         /\ spent[voucher[o]] = "active"
         /\ spent' = [spent EXCEPT ![voucher[o]] = o]
  BY <1>1, CommitWrites
<1> HIDE DEF o
<1>4. OneGrant' /\ GrantHasOrder'
  BY <1>2 DEF Inv, OneGrant, GrantHasOrder, TypeOK
<1>5. LockedCommit'
  BY <1>1, <1>2 DEF Inv, LockedCommit, At, Leaves, InCall
<1>6. CallsKnown'
  BY <1>1, <1>2 DEF Inv, CallsKnown, InCall, Leaves, TypeOK
<1>7. CancelSeen'
  BY <1>1, <1>2 DEF Inv, CancelSeen, At, InCall, Leaves, HasPayment
<1>8. PaidIsGranted'
  <2>1. \A t \in payments' : rows'[TxnOf[t]] > 0
    BY <1>2 DEF Inv, PaidIsGranted, TypeOK
  <2>2. \A x \in Order : order'[x] \in {"paid", "refunded"}
                           => \E t \in payments' : TxnOf[t] = x
    BY <1>2 DEF Inv, PaidIsGranted, TypeOK
  <2> QED BY <2>1, <2>2 DEF PaidIsGranted
<1>9. VoucherTaken'
  <2> SUFFICES ASSUME NEW x \in Order, rows'[x] > 0, voucher[x] # NoVoucher
               PROVE  spent'[voucher[x]] # "active"
    BY <1>2 DEF VoucherTaken
  <2>1. o # "active"
    BY <1>2 DEF OrderAssumption
  <2>2. voucher[x] \in Voucher /\ spent \in [Voucher -> Order \union {"active", "elsewhere"}]
    BY DEF Inv, TypeOK
  <2>3. CASE x # o
    <3>1. rows[x] > 0
      BY <1>2, <2>3 DEF Inv, TypeOK
    <3>2. spent[voucher[x]] # "active"
      BY <3>1 DEF Inv, VoucherTaken
    <3> QED BY <1>3, <2>1, <2>2, <3>2
  <2>4. CASE x = o
    <3>1. rows[o] \in {0, 1}
      BY <1>2 DEF Inv, OneGrant
    <3>2. rows[o] = 1 => spent[voucher[o]] # "active"
      BY <1>2, <2>4 DEF Inv, VoucherTaken
    <3> QED BY <1>3, <2>1, <2>2, <2>4, <3>1, <3>2
  <2> QED BY <2>3, <2>4
<1> QED BY <1>1, <1>4, <1>5, <1>6, <1>7, <1>8, <1>9 DEF Inv

(* Steps no handler takes.                                                  *)
LEMMA OrderStepInv ==
  ASSUME Inv, OrderAssumption, NEW o \in Order, UNCHANGED <<payments, rows, spent, lock, proc>>,
         \A x \in Order : x # o => order'[x] = order[x] /\ voucher'[x] = voucher[x],
         TypeOK',
         \/ /\ order[o] = "none" /\ order'[o] = "payment_pending"
         \/ /\ order[o] # "none" /\ order'[o] = "failed" /\ lock = NoWorker
            /\ voucher' = voucher
  PROVE  Inv'
<1>1. \A w \in Worker : InCall(w) => /\ proc[w].o = TxnOf[proc[w].t]
                                     /\ order[proc[w].o] # "none"
                                     /\ proc[w].o \in Order
  BY AtCall DEF Inv, CallsKnown, InCall, At
<1>2. LockedCommit'
  <2> SUFFICES ASSUME NEW w \in Worker, At(w, "commit")
               PROVE  order'[proc[w].o] = order[proc[w].o]
    BY DEF Inv, LockedCommit, At
  <2>1. lock = w /\ w # NoWorker
    BY DEF Inv, LockedCommit, OrderAssumption
  <2>2. order[o] = "none" /\ proc[w].o # o /\ proc[w].o \in Order
    BY <1>1, <2>1 DEF InCall, At
  <2> QED BY <2>2
<1>3. CallsKnown'
  <2> SUFFICES ASSUME NEW w \in Worker, InCall(w)
               PROVE  proc[w].o = TxnOf[proc[w].t] /\ order'[proc[w].o] # "none"
    BY DEF CallsKnown, InCall
  <2> QED BY <1>1
<1>4. CancelSeen'
  BY DEF Inv, CancelSeen, At, HasPayment
<1>5. PaidIsGranted'
  BY DEF Inv, PaidIsGranted
<1>6. VoucherTaken'
  <2> SUFFICES ASSUME NEW x \in Order, rows[x] > 0, voucher'[x] # NoVoucher
               PROVE  spent[voucher'[x]] # "active"
    BY DEF VoucherTaken
  <2>1. order[x] # "none"
    BY DEF Inv, GrantHasOrder
  <2>2. voucher'[x] = voucher[x]
    BY <2>1
  <2> QED BY <2>2 DEF Inv, VoucherTaken
<1>7. GrantHasOrder'
  BY DEF Inv, GrantHasOrder
<1> QED BY <1>2, <1>3, <1>4, <1>5, <1>6, <1>7 DEF Inv, OneGrant

LEMMA CheckoutInv ==
  ASSUME Inv, OrderAssumption, NEW o \in Order, CreateCheckout(o)
  PROVE  Inv'
<1>1. TypeOK'
  BY CheckoutTypeOK DEF Inv
<1>2. \A x \in Order : x # o => order'[x] = order[x] /\ voucher'[x] = voucher[x]
  BY DEF CreateCheckout, Inv, TypeOK
<1>3. order[o] = "none" /\ order'[o] = "payment_pending"
  BY DEF CreateCheckout, Inv, TypeOK
<1> QED BY <1>1, <1>2, <1>3, OrderStepInv DEF CreateCheckout, grantVars

LEMMA ClickErrorInv ==
  ASSUME Inv, OrderAssumption, NEW t \in Txn, ClickError(t)
  PROVE  Inv'
<1>1. TypeOK' /\ TxnOf[t] \in Order
  BY ClickTypeOK DEF Inv, OrderAssumption
<1>2. /\ \A x \in Order : x # TxnOf[t] => order'[x] = order[x]
      /\ order'[TxnOf[t]] = "failed" /\ order[TxnOf[t]] # "none"
  BY <1>1 DEF ClickError, Inv, TypeOK
<1> QED BY <1>1, <1>2, OrderStepInv DEF ClickError, Unlocked, grantVars

(* Steps that touch neither orders nor handlers.                            *)
LEMMA UnrelatedInv ==
  ASSUME Inv, TypeOK', UNCHANGED <<order, voucher, payments, rows, lock, proc>>,
         \A v \in Voucher : spent[v] # "active" => spent'[v] # "active"
  PROVE  Inv'
<1>1. VoucherTaken'
  BY DEF Inv, VoucherTaken, TypeOK
<1> QED BY <1>1 DEF Inv, OneGrant, LockedCommit, CallsKnown, CancelSeen, PaidIsGranted,
                    GrantHasOrder, At, InCall, HasPayment

LEMMA RedeemInv ==
  ASSUME Inv, NEW v \in Voucher, RedeemVoucher(v)
  PROVE  Inv'
<1>1. TypeOK'
  BY VoucherTypeOK DEF Inv
<1>2. \A x \in Voucher : spent[x] # "active" => spent'[x] # "active"
  BY DEF RedeemVoucher, Inv, TypeOK
<1> QED BY <1>1, <1>2, UnrelatedInv DEF RedeemVoucher, orderVars, grantVars

LEMMA NextInv ==
  ASSUME Inv, OrderAssumption, [Next]_vars
  PROVE  Inv'
<1>1. TypeOK'
  BY NextTypeOK DEF Inv
<1>2. CASE UNCHANGED vars
  BY <1>1, <1>2, UnrelatedInv DEF vars, orderVars, grantVars
<1>3. CASE \E w \in Worker : HandlerStep(w)
  BY <1>3, PassiveInv, CancelInv, LockInv, CommitInv DEF HandlerStep
<1>4. CASE \E w \in Worker, t \in Txn : Callback(w, t)
  BY <1>4, CallbackInv
<1>5. CASE \E t \in Txn : ClickPrepare(t)
  BY <1>1, <1>5, UnrelatedInv DEF ClickPrepare, grantVars
<1>6. CASE \E t \in Txn : ClickError(t)
  BY <1>6, ClickErrorInv
<1>7. CASE \E o \in Order : CreateCheckout(o)
  BY <1>7, CheckoutInv
<1>8. CASE \E o \in Order : Deliver(o) \/ DeliveryFails(o) \/ FinishGrant(o)
  BY <1>1, <1>8, UnrelatedInv DEF Deliver, DeliveryFails, FinishGrant, orderVars
<1>9. CASE \E v \in Voucher : RedeemVoucher(v)
  BY <1>9, RedeemInv
<1> QED BY <1>2, <1>3, <1>4, <1>5, <1>6, <1>7, <1>8, <1>9 DEF Next

LEMMA Invariant == Spec => []Inv
<1>1. Init => Inv
  BY InitInv, OrderAssumption
<1>2. Inv /\ [Next]_vars => Inv'
  BY NextInv, OrderAssumption
<1> QED BY <1>1, <1>2, PTL DEF Spec

(* No interleaving of callbacks, cancellations, crashes and checkouts       *)
(* leaves a recorded payment, or a paid or refunded order, without a grant: *)
(* applyPaymentSuccess writes them in one transaction, and Payme's          *)
(* cancellation refunds only what such a transaction wrote.                 *)
THEOREM Granted == Spec => []PaidIsGranted
<1>1. Inv => PaidIsGranted
  BY DEF Inv
<1> QED BY <1>1, Invariant, PTL

-----------------------------------------------------------------------------
(* The time of an order: what was bought, and one voucher at most.  Only    *)
(* the commit that makes the grant can have spent a voucher for the order.  *)
SpentHasGrant == \A o \in Order, v \in Voucher : spent[v] = o => rows[o] > 0

LEMMA CommitTime ==
  ASSUME Inv, SpentHasGrant, VoucherCountedOnce, OrderAssumption, NEW w \in Worker,
         CommitExtension(w) \/ CommitSession(w)
  PROVE  SpentHasGrant' /\ VoucherCountedOnce'
<1> DEFINE o == proc[w].o
<1>1. Commits(w) /\ At(w, "commit") /\ MarkPaid(w)
  BY CommitsCommit DEF Commits
<1>2. /\ o \in Order
      /\ rows' = [rows EXCEPT ![o] = 1]
      /\ order' = [order EXCEPT ![o] = "paid"]
      /\ orderDur' = [orderDur EXCEPT ![o] = TimeOf(w)]
      /\ spent' = IF Redeems(w) THEN [spent EXCEPT ![voucher[o]] = o] ELSE spent
      /\ TimeOf(w) = orderDur[o] + (IF Redeems(w) THEN VoucherTime ELSE 0)
  BY <1>1, CommitWrites DEF MarkPaid, TimeOf
<1>3. order[o] # "none" /\ o \notin {"active", "elsewhere"}
  BY <1>1, <1>2 DEF Inv, CallsKnown, InCall, At, OrderAssumption
<1>4. Redeems(w) => /\ rows[o] = 0 /\ voucher[o] \in Voucher
                    /\ spent[voucher[o]] = "active"
  BY <1>2 DEF Redeems, Inv, VoucherTaken, OneGrant, TypeOK
<1>5. /\ rows \in [Order -> Nat] /\ order \in [Order -> OrderStatus]
      /\ orderDur \in [Order -> Nat]
      /\ spent \in [Voucher -> Order \union {"active", "elsewhere"}]
  BY DEF Inv, TypeOK
<1> HIDE DEF o
<1>6. SpentHasGrant'
  BY <1>2, <1>4, <1>5 DEF SpentHasGrant
<1>7. ASSUME NEW x \in Order, order'[x] # "none"
      PROVE  orderDur'[x] = Bought[x] + (IF \E v \in Voucher : spent'[v] = x
                                         THEN VoucherTime ELSE 0)
  <2>1. order[x] # "none"
    BY <1>2, <1>3, <1>5, <1>7
  <2>2. orderDur[x] = Bought[x] + (IF \E v \in Voucher : spent[v] = x
                                   THEN VoucherTime ELSE 0)
    BY <2>1 DEF VoucherCountedOnce
  <2>3. CASE ~ Redeems(w)
    <3>1. orderDur' = orderDur /\ spent' = spent
      BY <1>2, <1>5, <2>3
    <3> QED BY <2>2, <3>1
  <2>4. CASE Redeems(w) /\ x # o
    <3>1. \A v \in Voucher : spent'[v] = x <=> spent[v] = x
      BY <1>2, <1>3, <1>4, <1>5, <1>7, <2>4 DEF OrderAssumption
    <3>2. orderDur'[x] = orderDur[x]
      BY <1>2, <1>5, <2>4
    <3> QED BY <2>2, <3>1, <3>2
  <2>5. CASE Redeems(w) /\ x = o
    <3>1. \A v \in Voucher : spent[v] # x
      BY <1>2, <1>4, <2>5 DEF SpentHasGrant
    <3>2. spent'[voucher[o]] = x /\ voucher[o] \in Voucher
      BY <1>2, <1>4, <1>5, <2>5
    <3>3. orderDur'[x] = orderDur[x] + VoucherTime
      BY <1>2, <1>5, <2>5
    <3>4. orderDur[x] = Bought[x] + 0
      BY <2>2, <3>1
    <3> QED BY <3>2, <3>3, <3>4 DEF OrderAssumption
  <2> QED BY <2>3, <2>4, <2>5
<1> QED BY <1>6, <1>7 DEF VoucherCountedOnce

LEMMA CheckoutTime ==
  ASSUME Inv, SpentHasGrant, VoucherCountedOnce, OrderAssumption, NEW o \in Order,
         CreateCheckout(o)
  PROVE  SpentHasGrant' /\ VoucherCountedOnce'
<1>1. rows[o] = 0
  BY DEF CreateCheckout, Inv, GrantHasOrder, OneGrant
<1>2. \A v \in Voucher : spent[v] # o
  BY <1>1 DEF SpentHasGrant
<1>3. UNCHANGED <<rows, spent>>
  BY DEF CreateCheckout, grantVars
<1>4. /\ orderDur'[o] = Bought[o]
      /\ \A x \in Order : x # o => orderDur'[x] = orderDur[x] /\ order'[x] = order[x]
  BY DEF CreateCheckout, Inv, TypeOK
<1>5. Bought[o] = Bought[o] + 0
  BY DEF OrderAssumption
<1> QED BY <1>2, <1>3, <1>4, <1>5 DEF SpentHasGrant, VoucherCountedOnce

(* Steps that neither spend a voucher for an order nor change its time.     *)
LEMMA SameTime ==
  ASSUME SpentHasGrant, VoucherCountedOnce, OrderAssumption, UNCHANGED <<rows, orderDur>>,
         \A x \in Order : order'[x] # "none" => order[x] # "none",
         \A x \in Order, v \in Voucher : spent'[v] = x <=> spent[v] = x
  PROVE  SpentHasGrant' /\ VoucherCountedOnce'
  BY DEF SpentHasGrant, VoucherCountedOnce

LEMMA NextTime ==
  ASSUME Inv, SpentHasGrant, VoucherCountedOnce, OrderAssumption, [Next]_vars
  PROVE  SpentHasGrant' /\ VoucherCountedOnce'
<1>1. CASE UNCHANGED vars
  BY <1>1, SameTime DEF vars, orderVars, grantVars
<1>2. CASE \E w \in Worker : HandlerStep(w)
  <2>1. PICK w \in Worker : HandlerStep(w)
    BY <1>2
  <2>2. CASE CommitExtension(w) \/ CommitSession(w)
    BY <2>2, CommitTime
  <2>3. CASE PaymeCancelWrite(w)
    <3>1. proc[w].o \in Order /\ order[proc[w].o] # "none"
      BY <2>3, AtCall DEF PaymeCancelWrite, Inv, CallsKnown, InCall, At
    <3>2. \A x \in Order : order'[x] # "none" => order[x] # "none"
      BY <2>3, <3>1 DEF PaymeCancelWrite, Inv, TypeOK
    <3> QED BY <2>3, <3>2, SameTime DEF PaymeCancelWrite, grantVars
  <2>4. CASE ~ (CommitExtension(w) \/ CommitSession(w) \/ PaymeCancelWrite(w))
    <3>1. UNCHANGED <<rows, orderDur, order, spent>>
      BY <2>1, <2>4 DEF HandlerStep, PaymeCreateWrite, LockOrder, RollbackExtension,
                        MakeURL, URLFails, StartOk, Stop, orderVars, grantVars
    <3> QED BY <3>1, SameTime
  <2> QED BY <2>2, <2>3, <2>4
<1>3. CASE \E w \in Worker, t \in Txn : Callback(w, t)
  <2>1. UNCHANGED <<rows, orderDur, order, spent>>
    BY <1>3 DEF Callback, CompletePayment, PaymeCreate, PaymePerform, PaymeCancel,
                orderVars, grantVars
  <2> QED BY <2>1, SameTime
<1>4. CASE \E t \in Txn : ClickPrepare(t) \/ ClickError(t)
  <2>1. UNCHANGED <<rows, orderDur, spent>>
    BY <1>4 DEF ClickPrepare, ClickError, grantVars
  <2>2. \A x \in Order : order'[x] # "none" => order[x] # "none"
    BY <1>4 DEF ClickPrepare, ClickError, Inv, TypeOK
  <2> QED BY <2>1, <2>2, SameTime
<1>5. CASE \E o \in Order : CreateCheckout(o)
  BY <1>5, CheckoutTime
<1>6. CASE \E o \in Order : Deliver(o) \/ DeliveryFails(o) \/ FinishGrant(o)
  BY <1>6, SameTime DEF Deliver, DeliveryFails, FinishGrant, orderVars
<1>7. CASE \E v \in Voucher : RedeemVoucher(v)
  <2>1. UNCHANGED <<rows, orderDur, order>>
    BY <1>7 DEF RedeemVoucher, orderVars, grantVars
  <2>2. \A x \in Order, v \in Voucher : spent'[v] = x <=> spent[v] = x
    BY <1>7 DEF RedeemVoucher, Inv, TypeOK, OrderAssumption
  <2> QED BY <2>1, <2>2, SameTime
<1> QED BY <1>1, <1>2, <1>3, <1>4, <1>5, <1>6, <1>7 DEF Next

(* The time of an order is what it bought and, once, the time of the        *)
(* voucher that was spent for it, however many orders named the voucher and *)
(* however often the callback came: applyPaymentSuccess adds it in the      *)
(* transaction that redeems it.                                             *)
THEOREM VoucherOnce == Spec => []VoucherCountedOnce
<1>1. Init => SpentHasGrant /\ VoucherCountedOnce
  BY OrderAssumption DEF Init, SpentHasGrant, VoucherCountedOnce, OrderAssumption
<1>2. Inv /\ SpentHasGrant /\ VoucherCountedOnce /\ [Next]_vars
        => SpentHasGrant' /\ VoucherCountedOnce'
  BY NextTime, OrderAssumption
<1> QED BY <1>1, <1>2, Invariant, PTL DEF Spec

-----------------------------------------------------------------------------
(* The balance.                                                             *)

(* What a step does to the ledger: nothing, one debit, one refund of what   *)
(* was debited, or one return.                                              *)
DebitStep(o, n) ==
  /\ debit[o] = 0 /\ debit' = [debit EXCEPT ![o] = n] /\ balance' = balance - n
  /\ UNCHANGED <<refunded, returned>>
RefundStep(o) ==
  /\ o \notin refunded /\ debit[o] > 0
  /\ refunded' = refunded \union {o} /\ balance' = balance + debit[o]
  /\ UNCHANGED <<debit, returned>>
ReturnStep(o, n) ==
  /\ returned[o] = 0 /\ returned' = [returned EXCEPT ![o] = n] /\ balance' = balance + n
  /\ UNCHANGED <<debit, refunded>>
LedgerStep ==
  \/ UNCHANGED ledgerVars
  \/ \E o \in Order : RefundStep(o) \/ \E n \in Nat : DebitStep(o, n) \/ ReturnStep(o, n)

LEMMA HandlerLedger ==
  ASSUME TypeOK, NEW w \in Worker, HandlerStep(w)
  PROVE  LedgerStep
<1>1. CASE CommitSession(w)
  <2> DEFINE o == proc[w].o
             extra == IF o \in Profile THEN balance ELSE 0
  <2>1. o \in Order /\ Debit(o, extra) /\ UNCHANGED <<refunded, returned>>
    BY <1>1, AtCall DEF CommitSession
  <2>2. extra \in Nat
    BY DEF TypeOK
  <2> HIDE DEF o, extra
  <2>3. UNCHANGED ledgerVars \/ DebitStep(o, extra)
    BY <2>1 DEF Debit, DebitStep, ledgerVars
  <2> QED BY <2>1, <2>2, <2>3 DEF LedgerStep
<1>2. CASE URLFails(w)
  <2>1. proc[w].o \in Order /\ UNCHANGED <<debit, returned>>
    BY <1>2, AtStart DEF URLFails
  <2>2. UNCHANGED ledgerVars \/ RefundStep(proc[w].o)
    BY <1>2, <2>1 DEF URLFails, RefundStep, ledgerVars
  <2> QED BY <2>1, <2>2 DEF LedgerStep
<1>3. CASE ~ (CommitSession(w) \/ URLFails(w))
  <2>1. UNCHANGED ledgerVars
    BY <1>3 DEF HandlerStep, PaymeCreateWrite, PaymeCancelWrite, LockOrder, CommitExtension,
                RollbackExtension, MakeURL, StartOk, Stop
  <2> QED BY <2>1 DEF LedgerStep
<1> QED BY <1>1, <1>2, <1>3

LEMMA NextLedger ==
  ASSUME TypeOK, [Next]_vars
  PROVE  LedgerStep
<1>1. CASE \E w \in Worker : HandlerStep(w)
  BY <1>1, HandlerLedger
<1>2. CASE \E o \in Order : FinishGrant(o)
  <2>1. PICK o \in Order : FinishGrant(o)
    BY <1>2
  <2>2. PICK left \in Nat :
          IF o \in owned /\ returned[o] = 0
          THEN balance' = balance + left /\ returned' = [returned EXCEPT ![o] = left]
          ELSE UNCHANGED <<balance, returned>>
    BY <2>1 DEF FinishGrant, TypeOK
  <2>3. UNCHANGED <<debit, refunded>>
    BY <2>1 DEF FinishGrant
  <2>4. UNCHANGED ledgerVars \/ ReturnStep(o, left)
    BY <2>2, <2>3 DEF ReturnStep, ledgerVars
  <2> QED BY <2>4 DEF LedgerStep
<1>3. CASE ~ ((\E w \in Worker : HandlerStep(w)) \/ \E o \in Order : FinishGrant(o))
  <2>1. UNCHANGED ledgerVars
    BY <1>3 DEF Next, Callback, CompletePayment, PaymeCreate, PaymePerform, PaymeCancel,
                ClickPrepare, ClickError, CreateCheckout, Deliver, DeliveryFails,
                RedeemVoucher, vars
  <2> QED BY <2>1 DEF LedgerStep
<1> QED BY <1>1, <1>2, <1>3

(* A refund presupposes a debit, so no debit comes after the refund of its  *)
(* grant, where it would be missing from the sum.                           *)
Balanced == BalanceConserved /\ \A o \in refunded : debit[o] > 0

LEMMA InitBalanced == ASSUME OrderAssumption, Init PROVE Balanced
<1>1. \A o \in Order : debit[o] = returned[o] /\ debit[o] \in Int
  BY DEF Init
<1>2. IsFiniteSet(Order) /\ Order \ refunded = Order /\ balance = Savings /\ Savings \in Int
  BY DEF Init, OrderAssumption
<1>3. Sum(Order, debit) = Sum(Order, returned)
  BY <1>1, <1>2, SumAgree
<1>4. BalanceConserved
  BY <1>2, <1>3 DEF BalanceConserved
<1> QED BY <1>4 DEF Balanced, Init

LEMMA StepBalanced ==
  ASSUME OrderAssumption, TypeOK, TypeOK', Balanced, LedgerStep
  PROVE  Balanced'
<1> DEFINE kept == Order \ refunded
<1>1. IsFiniteSet(Order) /\ IsFiniteSet(kept) /\ Savings \in Int
  BY FS_Subset DEF OrderAssumption
<1>2. \A o \in Order : /\ debit[o] \in Int /\ debit'[o] \in Int
                       /\ returned[o] \in Int /\ returned'[o] \in Int
  BY DEF TypeOK
<1>3. Sum(kept, debit) \in Int /\ Sum(Order, returned) \in Int /\ balance \in Int
  BY <1>1, <1>2, SumInt DEF TypeOK
<1>4. balance + Sum(kept, debit) = Savings + Sum(Order, returned)
  BY DEF Balanced, BalanceConserved
<1>5. CASE UNCHANGED ledgerVars
  BY <1>5 DEF ledgerVars, Balanced, BalanceConserved
<1>6. ASSUME NEW o \in Order, NEW n \in Nat, DebitStep(o, n)
      PROVE  Balanced'
  <2>1. o \in kept /\ kept' = kept /\ balance' = balance - n /\ returned' = returned
    BY <1>6 DEF DebitStep, Balanced
  <2>2. debit[o] = 0 /\ debit'[o] = n /\ \A x \in Order \ {o} : debit'[x] = debit[x]
    BY <1>6 DEF DebitStep, TypeOK
  <2>3. Sum(kept, debit') = Sum(kept, debit) + (debit'[o] - debit[o])
    <3> HIDE DEF kept
    <3>1. kept \subseteq Order
      BY DEF kept
    <3>2. o \in kept /\ (\A y \in kept : debit[y] \in Int /\ debit'[y] \in Int)
          /\ \A y \in kept \ {o} : debit[y] = debit'[y]
      BY <1>2, <2>1, <2>2, <3>1
    <3> QED BY <1>1, <3>2, SumChange
  <2>4. Sum(kept', debit') = Sum(kept, debit) + n
    <3>1. Sum(kept, debit') = Sum(kept, debit) + n
      BY <1>3, <2>2, <2>3
    <3>2. Sum(kept', debit') = Sum(kept, debit')
      BY <2>1
    <3> QED BY <3>1, <3>2
  <2>5. Sum(Order, returned') = Sum(Order, returned)
    BY <2>1
  <2>6. balance' + Sum(kept', debit') = Savings + Sum(Order, returned')
    BY <1>1, <1>3, <1>4, <2>1, <2>4, <2>5
  <2>7. BalanceConserved'
    BY <2>6 DEF BalanceConserved
  <2> QED BY <1>6, <2>1, <2>2, <2>7 DEF Balanced, DebitStep, TypeOK
<1>7. ASSUME NEW o \in Order, RefundStep(o)
      PROVE  Balanced'
  <2>1. o \in kept /\ kept' = kept \ {o} /\ balance' = balance + debit[o]
        /\ debit' = debit /\ returned' = returned
    BY <1>7 DEF RefundStep
  <2>2. Sum(kept, debit) = debit[o] + Sum(kept \ {o}, debit)
    BY <1>1, <1>2, <2>1, SumRemove
  <2>3. Sum(kept \ {o}, debit) \in Int
    <3>1. IsFiniteSet(kept \ {o})
      BY <1>1, FS_Subset
    <3> QED BY <1>2, <3>1, SumInt
  <2>4. debit[o] \in Int /\ Sum(kept', debit') = Sum(kept \ {o}, debit)
    BY <1>2, <2>1
  <2>5. Sum(Order, returned') = Sum(Order, returned)
    BY <2>1
  <2>6. balance' + Sum(kept', debit') = Savings + Sum(Order, returned')
    BY <1>1, <1>3, <1>4, <2>1, <2>2, <2>3, <2>4, <2>5
  <2>7. BalanceConserved'
    BY <2>6 DEF BalanceConserved
  <2> QED BY <1>7, <2>7 DEF Balanced, RefundStep
<1>8. ASSUME NEW o \in Order, NEW n \in Nat, ReturnStep(o, n)
      PROVE  Balanced'
  <2>1. kept' = kept /\ debit' = debit /\ balance' = balance + n
    BY <1>8 DEF ReturnStep
  <2>2. returned[o] = 0 /\ returned'[o] = n
        /\ \A x \in Order \ {o} : returned'[x] = returned[x]
    BY <1>8 DEF ReturnStep, TypeOK
  <2>3. Sum(Order, returned') = Sum(Order, returned) + (returned'[o] - returned[o])
    BY <1>1, <1>2, <2>2, SumChange
  <2>4. Sum(kept', debit') = Sum(kept, debit)
    BY <2>1
  <2>5. Sum(Order, returned') = Sum(Order, returned) + n
    BY <1>3, <2>2, <2>3
  <2>6. balance' + Sum(kept', debit') = Savings + Sum(Order, returned')
    BY <1>1, <1>3, <1>4, <2>1, <2>4, <2>5
  <2>7. BalanceConserved'
    BY <2>6 DEF BalanceConserved
  <2> QED BY <1>8, <2>7 DEF Balanced, ReturnStep
<1> QED BY <1>5, <1>6, <1>7, <1>8 DEF LedgerStep

(* No second is made or lost between the orders and the balance: what the   *)
(* player has is what he had, less the debits that were not refunded, plus  *)
(* the returns, however callbacks, refunds and ends of sessions interleave. *)
THEOREM Conserved == Spec => []BalanceConserved
<1>1. Init => Balanced
  BY InitBalanced, OrderAssumption
<1>2. TypeOK /\ TypeOK' /\ Balanced /\ [Next]_vars => Balanced'
  BY NextLedger, StepBalanced, OrderAssumption
<1>3. Balanced => BalanceConserved
  BY DEF Balanced
<1> QED BY <1>1, <1>2, <1>3, TypeCorrect, PTL DEF Spec

-----------------------------------------------------------------------------
(* The callbacks implement Purchase.                                        *)

LEMMA CommitBuys ==
  ASSUME Inv, OrderAssumption, NEW w \in Worker, CommitExtension(w) \/ CommitSession(w)
  PROVE  [P!Next]_(P!vars)
<1> DEFINE o == proc[w].o
<1>1. Commits(w)
  BY CommitsCommit
<1>2. /\ o \in Order
      /\ rows' = [rows EXCEPT ![o] = 1]
      /\ \/ spent' = spent
         \/ /\ rows[o] = 0 /\ voucher[o] \in Voucher
            /\ spent[voucher[o]] = "active"
            /\ spent' = [spent EXCEPT ![voucher[o]] = o]
  BY <1>1, CommitWrites
<1>3. UNCHANGED refunded /\ debit \in [Order -> Nat] /\ rows \in [Order -> Nat]
  BY DEF CommitExtension, CommitSession, ledgerVars, Inv, TypeOK
<1>4. \/ debit' = debit
      \/ debit[o] = 0 /\ \E n \in Nat : debit' = [debit EXCEPT ![o] = n]
  <2>1. CASE CommitExtension(w)
    BY <2>1 DEF CommitExtension, ledgerVars
  <2>2. CASE CommitSession(w)
    <3> DEFINE extra == IF o \in Profile THEN balance ELSE 0
    <3>1. extra \in Nat /\ Debit(o, extra)
      BY <2>2 DEF CommitSession, Inv, TypeOK
    <3> QED BY <3>1 DEF Debit
  <2> QED BY <2>1, <2>2
<1> HIDE DEF o
<1>5. P!Debited(o)
  BY <1>2, <1>3, <1>4 DEF P!Debited
<1>6. rows[o] \in {0, 1}
  BY <1>2 DEF Inv, OneGrant
<1>7. CASE rows[o] = 0
  BY <1>2, <1>3, <1>5, <1>7 DEF P!Next, P!Buy
<1>8. CASE rows[o] = 1
  <2>1. rows' = rows /\ spent' = spent
    BY <1>2, <1>3, <1>8
  <2>2. CASE debit' = debit
    BY <1>3, <2>1, <2>2 DEF P!vars
  <2>3. CASE debit[o] = 0
    BY <1>2, <1>3, <1>5, <1>8, <2>1, <2>3 DEF P!Next, P!DebitLater
  <2> QED BY <1>4, <2>2, <2>3
<1> QED BY <1>6, <1>7, <1>8

LEMMA HandlerImplements ==
  ASSUME Inv, OrderAssumption, NEW w \in Worker, HandlerStep(w)
  PROVE  [P!Next]_(P!vars)
<1>1. CASE CommitExtension(w) \/ CommitSession(w)
  BY <1>1, CommitBuys
<1>2. CASE URLFails(w)
  <2> DEFINE o == proc[w].o
  <2>1. o \in Order /\ debit \in [Order -> Nat]
    BY <1>2, AtStart DEF URLFails, Inv, TypeOK
  <2>2. UNCHANGED <<rows, spent, debit>>
    BY <1>2 DEF URLFails
  <2>3. \/ refunded' = refunded
        \/ debit[o] # 0 /\ o \notin refunded /\ refunded' = refunded \union {o}
    BY <1>2, <2>1 DEF URLFails
  <2> QED BY <2>1, <2>2, <2>3 DEF P!Next, P!Refund, P!vars
<1>3. CASE ~ (CommitExtension(w) \/ CommitSession(w) \/ URLFails(w))
  BY <1>3 DEF HandlerStep, PaymeCreateWrite, PaymeCancelWrite, LockOrder, RollbackExtension,
              MakeURL, StartOk, Stop, orderVars, grantVars, ledgerVars, P!vars
<1> QED BY <1>1, <1>2, <1>3

LEMMA NextImplements ==
  ASSUME Inv, OrderAssumption, [Next]_vars
  PROVE  [P!Next]_(P!vars)
<1>1. CASE UNCHANGED vars
  BY <1>1 DEF vars, grantVars, ledgerVars, P!vars
<1>2. CASE \E w \in Worker : HandlerStep(w)
  BY <1>2, HandlerImplements
<1>3. CASE \E w \in Worker, t \in Txn : Callback(w, t)
  BY <1>3 DEF Callback, CompletePayment, PaymeCreate, PaymePerform, PaymeCancel,
              grantVars, ledgerVars, P!vars
<1>4. CASE \E t \in Txn : ClickPrepare(t) \/ ClickError(t)
  BY <1>4 DEF ClickPrepare, ClickError, grantVars, ledgerVars, P!vars
<1>5. CASE \E o \in Order : CreateCheckout(o)
  BY <1>5 DEF CreateCheckout, grantVars, ledgerVars, P!vars
<1>6. CASE \E o \in Order : Deliver(o) \/ DeliveryFails(o) \/ FinishGrant(o)
  BY <1>6 DEF Deliver, DeliveryFails, FinishGrant, ledgerVars, P!vars
<1>7. CASE \E v \in Voucher : RedeemVoucher(v)
  BY <1>7 DEF RedeemVoucher, grantVars, ledgerVars, P!vars, P!Next, P!SpendElsewhere
<1> QED BY <1>1, <1>2, <1>3, <1>4, <1>5, <1>6, <1>7 DEF Next

(* Whatever the providers send, however often and in whatever order, an     *)
(* order is turned into one grant, its voucher is spent for one order, the  *)
(* player debited for it once and refunded once: every step of the          *)
(* callbacks is a step of Purchase or changes nothing Purchase sees.        *)
THEOREM Implements == Spec => OncePerOrder
<1>1. Init => P!Init
  BY DEF Init, P!Init
<1>2. Inv /\ [Next]_vars => [P!Next]_(P!vars)
  BY NextImplements, OrderAssumption
<1> QED BY <1>1, <1>2, Invariant, PTL DEF Spec, OncePerOrder, P!Spec
=============================================================================
