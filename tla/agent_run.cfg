SPECIFICATION ProgressSpec
CONSTANTS
  MaxTurns = 2
  Retries = 1
  MaxCalls = 2
  MaxDeltas = 1
  MaxOdd = 1
INVARIANTS CallsAnswered TraceComplete EffectsOnce ViewIsSnapshot FinishedIsFinal OpenWereCut
PROPERTIES RunEnds
CHECK_DEADLOCK FALSE
