\* Two players, a PC, two bookings that touch or collide, two requests at once.
SPECIFICATION Spec
CONSTANTS
  Player = {p1, p2}
  PC = {c1}
  None = None
  Starts = {2, 5}
  Lengths = {1}
  MaxAhead = 5
  SessionTime = 2
  MaxRequests = 2
  MaxBookings = 2
  MaxSessions = 1
  MaxNow = 7
INVARIANTS
  NoDoubleBooking
  OnePerPlayer
  CompletedWasUsed
PROPERTIES
  CancelledStays
  BookingsClose
CHECK_DEADLOCK FALSE
