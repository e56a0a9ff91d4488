\* One grant bought with the balance and one with a voucher, either of them the
\* root and the other its extension: how long the session is to run, who owns it
\* when its time is returned, and where that goes.
SPECIFICATION Spec
CONSTANTS
  g1 = g1
  g2 = g2
  w1 = w1
  sync = sync
  NoGrant = NoGrant
  Grant = {g1, g2}
  Worker = {w1, sync}
  Sync = sync
  Balance = {g2}
  Dur <- AllOne
  Grace = 1
  Reported = {1}
  Reports = "deadline"
  FailureEvents = FALSE
  Lossy = TRUE
  MaxGrants = 2
  Bounds <- ExtendedBounds
INVARIANTS
  ExtensionCountedOnce
  AgentAgreesOnDuration
PROPERTIES
  ReturnOnce
