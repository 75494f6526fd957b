SPECIFICATION CommandSpec
CONSTANTS
  MaxChildren = 2
  MaxOutput = 3
INVARIANT ResultIsTrue
PROPERTY InterruptEnds
CHECK_DEADLOCK FALSE
