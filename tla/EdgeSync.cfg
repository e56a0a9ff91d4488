\* The databases of a club; which changes may come together is in MCEdgeSync.
SPECIFICATION Spec
CONSTANTS
  Cloud = Cloud
  Primary = Primary
  Manager = Manager
  Mixes <- AllMixes
  MaxInFlight = 2
INVARIANTS
  ReturnedOnlyIfEnded
  CloudOwnsCatalog
PROPERTIES
  CancelledStays
  Converges
  OwnerStatusWins
