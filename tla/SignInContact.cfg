\* A number shared with the bot.  A person with the app, or two with the web page of a PC, one fault.
SPECIFICATION Spec
CONSTANTS
  Person = {p1, p2}
  None = None
  MaxCodes = 2
  MaxAttempts = 2
  MaxPairs = 3
  MaxCalls = 2
  MaxLogins = 2
  MaxMessages = 1
  MaxFaults = 1
CHECK_DEADLOCK FALSE
PROPERTY
  ContactVerifies
