\* A Click and a Payme order that may be for the same voucher.
SPECIFICATION Spec
CONSTANTS
  o1 = o1
  o2 = o2
  t1 = t1
  t2 = t2
  v1 = v1
  w1 = w1
  w2 = w2
  Order = {o1, o2}
  Txn = {t1, t2}
  Voucher = {v1}
  Worker = {w1, w2}
  NoOrder = NoOrder
  NoTxn = NoTxn
  NoVoucher = NoVoucher
  NoWorker = NoWorker
  Via <- ClickThenPayme
  TxnOf <- OneTxnEach
  Profile = {o1}
  Bought <- OneEach
  VoucherTime = 1
  Savings = 1
  Direct = TRUE
SYMMETRY AnyWorker
INVARIANT PaidIsGranted
INVARIANT VoucherCountedOnce
INVARIANT BalanceConserved
PROPERTY OncePerOrder
CHECK_DEADLOCK FALSE
