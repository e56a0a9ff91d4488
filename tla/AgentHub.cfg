\* Two sockets, one call; the Agent may be gone for good.
SPECIFICATION HubSpec
CONSTANTS
  c1 = c1
  Call = {c1}
  NoSocket = NoSocket
  MaxSockets = 2
  SendBuffer = 1
  MaxRestarts = 1
PROPERTIES
  ReplacedIsSilent
  CallsReturn
  PresenceSettles
CHECK_DEADLOCK FALSE
