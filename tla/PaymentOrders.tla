--------------------------- MODULE PaymentOrders ---------------------------
(***************************************************************************)
(* Payment orders of one gaming PC and the callbacks of the providers that *)
(* turn them into game access grants.                                      *)
(*                                                                         *)
(* A callback is handled by a request handler (Worker).  It reads the      *)
(* order without a lock, decides, and then runs applyPaymentSuccess, whose *)
(* transaction locks the order row and, by its join, the row of the PC; or *)
(* it updates the order.  Providers repeat callbacks, send them late and   *)
(* concurrently.  What becomes of a grant afterwards is GrantSession's     *)
(* matter: here it starts, fails and ends as the environment pleases.      *)
(*                                                                         *)
(* One player, one club, one price: time and its value coincide.  The      *)
(* grants of an order are one record and a count.                          *)
(***************************************************************************)
EXTENDS Integers, FiniteSets, Sums

CONSTANTS
  Order,        \* ids of rows of payment_orders, all for one PC
  Txn,          \* the providers' payment ids
  Voucher,
  Worker,       \* request handlers
  NoOrder, NoTxn, NoVoucher, NoWorker,
  Via,          \* the provider of each order: "click", "payme" or "mock"
  TxnOf,        \* the order each provider payment is for
  Profile,      \* the orders of the signed-in player
  Bought,       \* the time each order pays for
  VoucherTime,  \* the time on every voucher
  Savings,      \* the player's balance at the start
  Direct        \* TRUE: an edge node, or a mobile test payment, starts the
                \* session itself; FALSE: the Cloud leaves it to the Controller

ASSUME OrderAssumption ==
  /\ IsFiniteSet(Order) /\ NoOrder \notin Order /\ NoTxn \notin Txn
  /\ NoVoucher \notin Voucher /\ NoWorker \notin Worker
  /\ Order \intersect {"active", "elsewhere"} = {}
  /\ Via \in [Order -> {"click", "payme", "mock"}]
  /\ TxnOf \in [Txn -> Order]
  /\ Profile \subseteq Order
  /\ Bought \in [Order -> Nat \ {0}]
  /\ VoucherTime \in Nat
  /\ Savings \in Nat
  /\ Direct \in BOOLEAN

VARIABLES
  order,     \* payment_orders.status
  ext,       \* .extension_grant_id, as the order of that grant
  voucher,   \* .voucher_id
  paymentID, \* .provider_payment_id
  orderDur,  \* .duration_seconds
  payments,  \* the provider payments with a row in payments
  rows,      \* number of rows of game_access_grants with this payment_order_id
  grant,     \* .status of that grant
  dur,       \* .duration_seconds
  core,      \* the grants with a core_session_id
  parent,    \* .parent_grant_id
  owned,     \* the grants with a player_id
  balance,   \* the player's balance
  debit,     \* the session-start row of each grant in the ledger, 0 if none
  refunded,  \* the grants with a session-refund row
  returned,  \* the session-return row of each grant, 0 if none
  spent,     \* vouchers: "active", "elsewhere", or the order that redeemed it
  lock,      \* the handler whose transaction holds the order and PC rows
  proc       \* where each handler is, and its local variables

orderVars  == <<order, ext, voucher, paymentID, orderDur, payments>>
grantVars  == <<rows, grant, dur, core, parent, owned>>
ledgerVars == <<balance, debit, refunded, returned>>
vars == <<orderVars, grantVars, ledgerVars, spent, lock, proc>>

-----------------------------------------------------------------------------
OrderStatus == {"none", "payment_pending", "paid", "failed", "refunded"}
GrantStatus == {"none", "pending", "accepted", "extended", "ended",
                "start_failed"}
Idle == [at |-> "idle", o |-> NoOrder, t |-> NoTxn, status |-> "none",
         had |-> 0, kept |-> 0]
Calling == [at: {"create", "cancel", "apply", "commit"}, o: Order, t: Txn,
            status: OrderStatus, had: Nat, kept: {0}]
Starting == [at: {"url", "start"}, o: Order, t: {NoTxn}, status: {"none"},
             had: {0}, kept: Nat]

TypeOK ==
  /\ order \in [Order -> OrderStatus]
  /\ ext \in [Order -> Order \union {NoOrder}]
  /\ voucher \in [Order -> Voucher \union {NoVoucher}]
  /\ paymentID \in [Order -> Txn \union {NoTxn}]
  /\ orderDur \in [Order -> Nat]
  /\ payments \subseteq Txn
  /\ rows \in [Order -> Nat]
  /\ grant \in [Order -> GrantStatus]
  /\ dur \in [Order -> Nat]
  /\ core \subseteq Order
  /\ parent \in [Order -> Order \union {NoOrder}]
  /\ owned \subseteq Order
  /\ balance \in Nat
  /\ debit \in [Order -> Nat]
  /\ refunded \subseteq Order
  /\ returned \in [Order -> Nat]
  /\ spent \in [Voucher -> Order \union {"active", "elsewhere"}]
  /\ lock \in Worker \union {NoWorker}
  /\ proc \in [Worker -> Calling \union Starting \union {Idle}]

Init ==
  /\ order = [o \in Order |-> "none"]
  /\ ext = [o \in Order |-> NoOrder]
  /\ voucher = [o \in Order |-> NoVoucher]
  /\ paymentID = [o \in Order |-> NoTxn]
  /\ orderDur = [o \in Order |-> 0]
  /\ payments = {}
  /\ rows = [o \in Order |-> 0]
  /\ grant = [o \in Order |-> "none"]
  /\ dur = [o \in Order |-> 0]
  /\ core = {}
  /\ parent = [o \in Order |-> NoOrder]
  /\ owned = {}
  /\ balance = Savings
  /\ debit = [o \in Order |-> 0]
  /\ refunded = {}
  /\ returned = [o \in Order |-> 0]
  /\ spent = [v \in Voucher |-> "active"]
  /\ lock = NoWorker
  /\ proc = [w \in Worker |-> Idle]

-----------------------------------------------------------------------------
At(w, step) == proc[w].at = step
Return(w) == proc' = [proc EXCEPT ![w] = Idle]
Call(w, step, t, seen) ==
  /\ At(w, "idle")
  /\ proc' = [proc EXCEPT ![w] = [Idle EXCEPT !.at = step, !.o = TxnOf[t], !.t = t,
                                              !.status = seen]]

(* An UPDATE of the order outside applyPaymentSuccess waits for its lock.   *)
Unlocked == lock = NoWorker

(* handleCreateCheckout: a session QR of an occupied PC extends the running *)
(* session; otherwise the order is for a session of its own.  The cached    *)
(* status of the PC lags, so both can happen while a session runs.  The     *)
(* voucher is looked at, not taken.                                         *)
CreateCheckout(o) ==
  /\ order[o] = "none"
  /\ \E v \in Voucher \union {NoVoucher} :
       /\ v # NoVoucher => spent[v] = "active"
       /\ voucher' = [voucher EXCEPT ![o] = v]
  /\ order' = [order EXCEPT ![o] = "payment_pending"]
  /\ orderDur' = [orderDur EXCEPT ![o] = Bought[o]]
  /\ \/ UNCHANGED ext
     \/ \E r \in Order :
          /\ grant[r] = "accepted" /\ r \in core
          /\ ext' = [ext EXCEPT ![o] = r]
  /\ IF Via[o] = "mock"
     THEN \E t \in Txn : /\ TxnOf[t] = o
                         /\ paymentID' = [paymentID EXCEPT ![o] = t]
     ELSE UNCHANGED paymentID
  /\ UNCHANGED <<payments, grantVars, ledgerVars, spent, lock, proc>>

(* Click's prepare: only an order that is not paid yet.  The first click    *)
(* payment to come is kept.                                                 *)
FirstID(o, t) == [paymentID EXCEPT ![o] = IF @ = NoTxn THEN t ELSE @]

ClickPrepare(t) ==
  /\ Via[TxnOf[t]] = "click" /\ Unlocked
  /\ order[TxnOf[t]] \notin {"none", "paid"}
  /\ paymentID' = FirstID(TxnOf[t], t)
  /\ UNCHANGED <<order, ext, voucher, orderDur, payments, grantVars, ledgerVars, spent,
                 lock, proc>>

(* Click's complete without an error, and completeMockPayment, which uses   *)
(* the id made at checkout: whatever the status of the order.               *)
CompletePayment(w, t) ==
  LET o == TxnOf[t] IN
  /\ Via[o] # "payme" /\ order[o] # "none"
  /\ Via[o] = "mock" => t = paymentID[o]
  /\ Call(w, "apply", t, "none")
  /\ UNCHANGED <<orderVars, grantVars, ledgerVars, spent, lock>>

(* Click's complete with an error.                                          *)
ClickError(t) ==
  LET o == TxnOf[t] IN
  /\ Via[o] = "click" /\ Unlocked
  /\ order[o] \notin {"none", "paid"}
  /\ order' = [order EXCEPT ![o] = "failed"]
  /\ UNCHANGED <<ext, voucher, paymentID, orderDur, payments, grantVars, ledgerVars, spent,
                 lock, proc>>

(* Payme's CreateTransaction reads the order, and records the transaction   *)
(* if the order is payable and no other transaction was recorded.           *)
PaymeCreate(w, t) ==
  LET o == TxnOf[t] IN
  /\ Via[o] = "payme"
  /\ order[o] = "payment_pending" /\ paymentID[o] \in {NoTxn, t}
  /\ Call(w, "create", t, "none")
  /\ UNCHANGED <<orderVars, grantVars, ledgerVars, spent, lock>>

PaymeCreateWrite(w) ==
  /\ At(w, "create") /\ Unlocked
  /\ paymentID' = [paymentID EXCEPT ![proc[w].o] = proc[w].t]
  /\ Return(w)
  /\ UNCHANGED <<order, ext, voucher, orderDur, payments, grantVars, ledgerVars, spent, lock>>

(* PerformTransaction: a paid order is reported as performed, and nothing   *)
(* is done.                                                                 *)
PaymePerform(w, t) ==
  LET o == TxnOf[t] IN
  /\ Via[o] = "payme" /\ paymentID[o] = t
  /\ order[o] = "payment_pending"
  /\ Call(w, "apply", t, "none")
  /\ UNCHANGED <<orderVars, grantVars, ledgerVars, spent, lock>>

(* CancelTransaction: what was read decides between failed and refunded.    *)
PaymeCancel(w, t) ==
  LET o == TxnOf[t] IN
  /\ Via[o] = "payme" /\ paymentID[o] = t
  /\ order[o] \in {"payment_pending", "paid"}
  /\ Call(w, "cancel", t, order[o])
  /\ UNCHANGED <<orderVars, grantVars, ledgerVars, spent, lock>>

PaymeCancelWrite(w) ==
  LET o == proc[w].o IN
  /\ At(w, "cancel") /\ Unlocked
  /\ order' = [order EXCEPT ![o] = IF @ = "refunded" THEN @
                                   ELSE IF proc[w].status = "paid"
                                        THEN "refunded" ELSE "failed"]
  /\ Return(w)
  /\ UNCHANGED <<ext, voucher, paymentID, orderDur, payments, grantVars, ledgerVars, spent,
                 lock>>

-----------------------------------------------------------------------------
(* applyPaymentSuccess.                                                     *)

(* Mutant: the order is read without FOR UPDATE.                            *)
LockOrderUnlocked(w) ==
  LET o == proc[w].o IN
  /\ At(w, "apply")
  /\ IF grant[o] \in {"accepted", "extended"}
     THEN Return(w)
     ELSE proc' = [proc EXCEPT ![w].at = "commit", ![w].status = order[o],
                               ![w].had = rows[o]]
  /\ UNCHANGED <<orderVars, grantVars, ledgerVars, spent, lock>>

(* The rows are locked, the status of the order and the order's grant read. *)
(* A grant that runs already ends the call.                                 *)
LockOrder(w) ==
  LET o == proc[w].o IN
  /\ At(w, "apply") /\ Unlocked
  /\ IF grant[o] \in {"accepted", "extended"}
     THEN Return(w) /\ UNCHANGED lock
     ELSE /\ lock' = w
          /\ proc' = [proc EXCEPT ![w].at = "commit", ![w].status = order[o],
                                  ![w].had = rows[o]]
  /\ UNCHANGED <<orderVars, grantVars, ledgerVars, spent>>

Release(w) == lock' = IF lock = w THEN NoWorker ELSE lock

(* The voucher of an order that was not paid before is redeemed, if it is   *)
(* still there; the order goes on without it if not.                        *)
Redeems(w) ==
  LET v == voucher[proc[w].o] IN
  /\ v # NoVoucher
  /\ proc[w].status # "paid"
  /\ spent[v] = "active"

(* Mutant: the time is added though the voucher was gone.                   *)
TimeWithVoucher(w) ==
  orderDur[proc[w].o] + (IF voucher[proc[w].o] # NoVoucher /\ proc[w].status # "paid"
                         THEN VoucherTime ELSE 0)

TimeOf(w) == orderDur[proc[w].o] + (IF Redeems(w) THEN VoucherTime ELSE 0)

(* The order is paid, the payment recorded, the voucher spent.              *)
MarkPaid(w) ==
  LET o == proc[w].o IN
  /\ order' = [order EXCEPT ![o] = "paid"]
  /\ paymentID' = FirstID(o, proc[w].t)
  /\ payments' = payments \union {proc[w].t}
  /\ spent' = IF Redeems(w) THEN [spent EXCEPT ![voucher[o]] = o] ELSE spent
  /\ orderDur' = [orderDur EXCEPT ![o] = TimeOf(w)]
  /\ UNCHANGED <<ext, voucher>>

(* The order's grant is made, or set back to pending whatever it was.       *)
Grant(w, time) ==
  LET o == proc[w].o IN
  /\ rows' = IF proc[w].had = 0 THEN [rows EXCEPT ![o] = @ + 1] ELSE rows
  /\ grant' = [grant EXCEPT ![o] = "pending"]
  /\ dur' = [dur EXCEPT ![o] = time]

(* A paid extension: a pending child of the session the order was made for. *)
CommitExtension(w) ==
  LET o == proc[w].o
      root == ext[o]
  IN  /\ At(w, "commit") /\ root # NoOrder
      /\ grant[root] = "accepted" /\ root \in core
      /\ MarkPaid(w) /\ Grant(w, TimeOf(w))
      /\ parent' = [parent EXCEPT ![o] = root]
      /\ core' = core \union {o}
      /\ owned' = IF o \in Profile THEN owned \union {o, root} ELSE owned
      /\ Release(w) /\ Return(w)
      /\ UNCHANGED ledgerVars

(* Mutant: the order is marked paid in a transaction of its own.            *)
RollbackExtensionKeepsPaid(w) ==
  LET root == ext[proc[w].o] IN
  /\ At(w, "commit") /\ root # NoOrder
  /\ ~ (grant[root] = "accepted" /\ root \in core)
  /\ MarkPaid(w) /\ Release(w) /\ Return(w)
  /\ UNCHANGED <<grantVars, ledgerVars>>

(* The session is over: everything is rolled back, and the provider told to *)
(* come again.                                                              *)
RollbackExtension(w) ==
  LET root == ext[proc[w].o] IN
  /\ At(w, "commit") /\ root # NoOrder
  /\ ~ (grant[root] = "accepted" /\ root \in core)
  /\ Release(w) /\ Return(w)
  /\ UNCHANGED <<orderVars, grantVars, ledgerVars, spent>>

(* Mutant: the ledger key is not unique.                                    *)
DebitAgain(o, extra) ==
  /\ balance' = balance - extra
  /\ debit' = [debit EXCEPT ![o] = extra]

(* recordPlayerTime with the key "session-start:<grant>": a second entry is *)
(* a completed no-op.                                                       *)
Debit(o, extra) ==
  IF debit[o] = 0 THEN /\ balance' = balance - extra
                       /\ debit' = [debit EXCEPT ![o] = extra]
  ELSE UNCHANGED <<balance, debit>>

(* A session of its own, with the player's balance added to what was paid.  *)
CommitSession(w) ==
  LET o == proc[w].o
      extra == IF o \in Profile THEN balance ELSE 0
  IN  /\ At(w, "commit") /\ ext[o] = NoOrder
      /\ MarkPaid(w) /\ Grant(w, TimeOf(w) + extra)
      /\ Debit(o, extra)
      /\ owned' = IF o \in Profile THEN owned \union {o} ELSE owned
      /\ Release(w)
      /\ proc' = [proc EXCEPT ![w] = [Idle EXCEPT !.at = "url", !.o = o,
                                                  !.kept = extra]]
      /\ UNCHANGED <<core, parent, refunded, returned>>

(* createSessionExtendURL.  If it fails, refundPlayerBalance gives back the *)
(* debit of a grant that is still pending without a core session, and a     *)
(* pending grant without a debit fails.                                     *)
MakeURL(w) ==
  /\ At(w, "url")
  /\ IF Direct
     THEN proc' = [proc EXCEPT ![w].at = "start", ![w].kept = 0]
     ELSE Return(w)
  /\ UNCHANGED <<orderVars, grantVars, ledgerVars, spent, lock>>

URLFails(w) ==
  LET o == proc[w].o
      fails == grant[o] = "pending" /\ (proc[w].kept > 0 => o \notin core)
      refund == fails /\ proc[w].kept > 0 /\ debit[o] > 0 /\ o \notin refunded
  IN  /\ At(w, "url")
      /\ grant' = IF fails THEN [grant EXCEPT ![o] = "start_failed"] ELSE grant
      /\ balance' = IF refund THEN balance + debit[o] ELSE balance
      /\ refunded' = IF refund THEN refunded \union {o} ELSE refunded
      /\ Return(w)
      /\ UNCHANGED <<orderVars, rows, dur, core, parent, owned, debit, returned,
                     spent, lock>>

(* StartSession and the update after it; without an answer the grant is     *)
(* left alone.                                                              *)
StartOk(w) ==
  /\ At(w, "start")
  /\ grant' = [grant EXCEPT ![proc[w].o] = "accepted"]
  /\ core' = core \union {proc[w].o}
  /\ Return(w)
  /\ UNCHANGED <<orderVars, rows, dur, parent, owned, ledgerVars, spent, lock>>

(* The start is not answered, or the process dies: a transaction that was   *)
(* open is rolled back.                                                     *)
Stop(w) ==
  /\ ~ At(w, "idle")
  /\ Release(w) /\ Return(w)
  /\ UNCHANGED <<orderVars, grantVars, ledgerVars, spent>>

-----------------------------------------------------------------------------
(* What else happens to grants, vouchers and the balance: GrantSession.     *)

Deliver(o) ==
  /\ grant[o] = "pending"
  /\ IF parent[o] = NoOrder
     THEN grant' = [grant EXCEPT ![o] = "accepted"]
     ELSE /\ grant[parent[o]] = "accepted"
          /\ grant' = [grant EXCEPT ![o] = "extended"]
  /\ core' = core \union {o}
  /\ UNCHANGED <<orderVars, rows, dur, parent, owned, ledgerVars, spent, lock, proc>>

DeliveryFails(o) ==
  /\ grant[o] = "pending" /\ parent[o] = NoOrder
  /\ grant' = [grant EXCEPT ![o] = "start_failed"]
  /\ UNCHANGED <<orderVars, rows, dur, core, parent, owned, ledgerVars, spent, lock,
                 proc>>

(* The session ends with its children; the unused time is returned once.    *)
FinishGrant(o) ==
  /\ grant[o] = "accepted"
  /\ grant' = [x \in Order |->
                 IF x = o \/ (parent[x] = o /\ grant[x] \in {"pending", "extended"})
                 THEN "ended" ELSE grant[x]]
  /\ \E left \in {0, dur[o]} :
       IF o \in owned /\ returned[o] = 0
       THEN /\ balance' = balance + left
            /\ returned' = [returned EXCEPT ![o] = left]
       ELSE UNCHANGED <<balance, returned>>
  /\ UNCHANGED <<orderVars, rows, dur, core, parent, owned, debit, refunded, spent,
                 lock, proc>>

RedeemVoucher(v) ==
  /\ spent[v] = "active"
  /\ spent' = [spent EXCEPT ![v] = "elsewhere"]
  /\ UNCHANGED <<orderVars, grantVars, ledgerVars, lock, proc>>

-----------------------------------------------------------------------------
Callback(w, t) ==
  \/ CompletePayment(w, t)
  \/ PaymeCreate(w, t) \/ PaymePerform(w, t) \/ PaymeCancel(w, t)

HandlerStep(w) ==
  \/ PaymeCreateWrite(w) \/ PaymeCancelWrite(w)
  \/ LockOrder(w) \/ CommitExtension(w) \/ RollbackExtension(w)
  \/ CommitSession(w) \/ MakeURL(w) \/ URLFails(w) \/ StartOk(w) \/ Stop(w)

Next ==
  \/ \E w \in Worker : HandlerStep(w) \/ \E t \in Txn : Callback(w, t)
  \/ \E t \in Txn : ClickPrepare(t) \/ ClickError(t)
  \/ \E o \in Order : \/ CreateCheckout(o) \/ Deliver(o) \/ DeliveryFails(o)
                      \/ FinishGrant(o)
  \/ \E v \in Voucher : RedeemVoucher(v)

Spec == Init /\ [][Next]_vars

-----------------------------------------------------------------------------
(* Repeated, concurrent and late callbacks, crashes and retries turn an     *)
(* order into one grant, spend its voucher for one order, debit the player  *)
(* once and refund him once.                                                *)
P == INSTANCE Purchase WITH
  Order <- Order, Voucher <- Voucher,
  rows <- rows, spent <- spent, debit <- debit, refunded <- refunded
OncePerOrder == P!Spec

(* A payment is recorded, and an order is paid, only together with a grant: *)
(* a callback that fails half way leaves nothing the provider could take    *)
(* for an accepted payment.                                                 *)
PaidIsGranted ==
  /\ \A t \in payments : rows[TxnOf[t]] > 0
  /\ \A o \in Order : order[o] \in {"paid", "refunded"}
                        => \E t \in payments : TxnOf[t] = o

(* A voucher entered for several orders, or redeemed at a PC meanwhile,     *)
(* adds its time to one order only, and once.                               *)
VoucherCountedOnce ==
  \A o \in Order : order[o] # "none" =>
    orderDur[o] = Bought[o] + (IF \E v \in Voucher : spent[v] = o
                               THEN VoucherTime ELSE 0)

(* The balance is what was saved, less the debits that were not refunded,   *)
(* plus the returns.                                                        *)
BalanceConserved ==
  balance + Sum(Order \ refunded, debit) = Savings + Sum(Order, returned)

(* What a comment of the code says, and the code does not keep.             *)

(* server.go, applyPaymentSuccess: "A profile payment starts one continuous *)
(* session: the time just purchased plus the player's existing club         *)
(* balance", so a session is as long as what was paid and debited for it.   *)
FullSession ==
  \A o \in Order : grant[o] \in {"pending", "accepted"} /\ parent[o] = NoOrder =>
    dur[o] = orderDur[o] + (IF o \in refunded THEN 0 ELSE debit[o])
=============================================================================
