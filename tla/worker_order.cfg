\* Room for every early entry (four requests, three of which may have to wait).
SPECIFICATION FairSpec
CONSTANTS
  r1 = r1
  r2 = r2
  r3 = r3
  r4 = r4
  r5 = r5
  Requests <- FourRequests
  Malformed = {}
  Faults = {"reject"}
  MaxFaults = 1
  BufferSize = 1
  MaxPending = 3
INVARIANTS
  TypeOK
  ChainLinked
  Accounted
  InSequenceOrder
  NoneReadyParked
  ShutdownFlushes
PROPERTIES
  ImplementsAuditLog
  EventuallyRecorded
  ShutdownReturns
