SPECIFICATION OrderlySpec
CONSTANTS
  r1 = r1
  r2 = r2
  r3 = r3
  r4 = r4
  Requests <- TwoRequests
  Malformed = {}
  Faults = {"reject"}
  MaxFaults = 0
  BufferSize = 1
  MaxPending = 1
  NotUTF8 = {}
  LongLines = {}
  MaxParseErrors = 1
  MaxRuns = 3
INVARIANT ChainSurvivesRestart
