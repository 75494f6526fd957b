SPECIFICATION ConnectionSpec
CONSTANTS
  Base = 16
  HeaderLen = 2
  MaxFrame = 2
  Message <- MCMessage
  MaxMessages = 2
  MaxEvents = 1
INVARIANTS AnsweredInOrder StartedExactly
PROPERTIES EveryRequestAnswered
CHECK_DEADLOCK FALSE
