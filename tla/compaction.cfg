SPECIFICATION Spec
CONSTANTS
  Role <- MCRole
  Chars <- MCChars
  Windows <- MCWindows
  Batches <- MCBatches
  MaxHistory = 5
  ReserveOutput = 2
  SummaryPrefix <- MCSummary
INVARIANTS ScanIsLongest CompactIdempotent CompactedFits
PROPERTIES TranscriptSpec
