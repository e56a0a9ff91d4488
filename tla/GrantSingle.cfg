\* One session, bought with a balance or a voucher: no time is lost or doubled in any
\* order of events, and a paid start is delivered.
SPECIFICATION FairSpec
CONSTANTS
  g1 = g1
  g2 = g2
  w1 = w1
  sync = sync
  NoGrant = NoGrant
  Grant = {g1, g2}
  Worker = {w1, sync}
  Sync = sync
  Balance = {g1}
  Dur <- OneAndTwo
  Grace = 1
  Reported = {1}
  Reports = "deadline"
  FailureEvents = TRUE
  Lossy = FALSE
  MaxGrants = 1
  Bounds <- SingleBounds
INVARIANTS
  TypeOK
  TimeConserved
PROPERTIES
  ReturnWithinPlan
  PaidStartIsDelivered
