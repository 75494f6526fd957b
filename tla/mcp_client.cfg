SPECIFICATION FairSpec
CONSTANTS
  NoCall = NoCall
  Call = {c1, c2}
  Cancellable = {c1, c2}
  MaxNoise = 2
  Mortal = TRUE
INVARIANTS OwnAnswer HandshakeFirst
PROPERTIES CancelledLetsGo CallReturns
CHECK_DEADLOCK FALSE
