\* Two keys, two requests and three questions at once, five faults.
SPECIFICATION OpsSpec
CONSTANTS
  MaxKeys = 2
  MaxPosts = 2
  MaxPolls = 3
  MaxFaults = 5
INVARIANTS
  AtMostOnce
  NeverForgotten
PROPERTIES
  Recovered
CHECK_DEADLOCK FALSE
