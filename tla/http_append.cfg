SPECIFICATION NativeSpec
CONSTANTS
  p1 = p1
  p2 = p2
  a1 = a1
  t1 = t1
  NoCall = NoCall
  TheSession = s1
  Call = {p1, a1}
  Kind <- MCKind
  TraceLen = {1, 2}
  Chars = 4
  Window = 0
  ReserveOutput = 2
  SummaryPrefix <- MCSummary
  Workloads <- MCOverHttp
  MaxCrash = 1
INVARIANT AckedMessageStored
CHECK_DEADLOCK FALSE
