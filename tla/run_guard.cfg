SPECIFICATION FairSpec
CONSTANTS
  Session = {s1, s2}
  Prompt = {p1, p2}
  Abort = {a1}
  Conn = {c1}
  NoId = NoId
  None = None
INVARIANTS TypeOK RunMutex SlotOwned InterruptHasCause AbortedIsCancelled
PROPERTIES LockSpec SessionsFreed RequestAnswered
CHECK_DEADLOCK FALSE
