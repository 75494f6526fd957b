SPECIFICATION Spec
CONSTANTS
  MaxTurns = 3
  Retries = 2
  MaxCalls = 2
INVARIANT EveryMessageReturned
CHECK_DEADLOCK FALSE
