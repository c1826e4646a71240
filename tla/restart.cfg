SPECIFICATION RestartSpec
CONSTANTS
  r1 = r1
  r2 = r2
  r3 = r3
  r4 = r4
  Requests <- FourRequests
  Malformed = {}
  Faults = {"reject", "torn", "nosync"}
  MaxFaults = 1
  BufferSize = 1
  MaxPending = 1
  NotUTF8 = {}
  LongLines <- OneLong
  MaxParseErrors = 1
  MaxRuns = 3
SYMMETRY Interchangeable
INVARIANTS
  EachRunChained
  NotRecordedTwice
  LossBounded
  VerifierDecidesChain
  FirstRunTamperEvident
