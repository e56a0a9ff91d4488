\* A test payment whose callback is repeated, for a player with a balance.
SPECIFICATION Spec
CONSTANTS
  o1 = o1
  o2 = o2
  t1 = t1
  t2 = t2
  v1 = v1
  w1 = w1
  w2 = w2
  Order = {o1}
  Txn = {t1}
  Voucher = {}
  Worker = {w1}
  NoOrder = NoOrder
  NoTxn = NoTxn
  NoVoucher = NoVoucher
  NoWorker = NoWorker
  Via <- Mock
  TxnOf <- OneTxnEach
  Profile = {o1}
  Bought <- OneEach
  VoucherTime = 1
  Savings = 1
  Direct = FALSE
INVARIANT FullSession
CHECK_DEADLOCK FALSE
