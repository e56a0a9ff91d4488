\* Two grants at two prices, one of them on each node if it comes to that.
SPECIFICATION Spec
CONSTANTS
  Cloud = Cloud
  Controller = Controller
  None = None
  Grant = {g1, g2}
  Old = Old
  Prices = {2, 3}
  Credit = 2
  OldReturn = 1
  MaxRepairs = 1
INVARIANTS
  TypeOK
  NoProfit
PROPERTIES
  SpendsOnlyLedger
  RepairIsClean
  LedgersMeet
