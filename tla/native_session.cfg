SPECIFICATION NativeSpec
CONSTANTS
  p1 = p1
  p2 = p2
  a1 = a1
  t1 = t1
  NoCall = NoCall
  TheSession = s1
  Call = {p1, p2, a1, t1}
  Kind <- MCKind
  TraceLen = {1, 2}
  Chars = 4
  Window = 5
  ReserveOutput = 2
  SummaryPrefix <- MCSummary
  Workloads <- MCWorkloads
  MaxCrash = 1
INVARIANTS RowOrdered TurnsContiguous AgentSeesPrompt AckedTurnStored
PROPERTIES TranscriptSpec
CHECK_DEADLOCK FALSE
