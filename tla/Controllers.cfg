\* Two connections, one command, two faults; the Agent may be gone for good.
SPECIFICATION Spec
CONSTANTS
  Primary = Primary
  Manager = Manager
  None = None
  MaxConns = 2
  MaxCommands = 1
  MaxInFlight = 2
  MaxFaults = 2
INVARIANTS
  OneExecutor
PROPERTIES
  LeaseFollowsAgent
  QueueIsKept
CHECK_DEADLOCK FALSE
