SPECIFICATION FairSpec
CONSTANTS
  r1 = r1
  r2 = r2
  r3 = r3
  r4 = r4
  r5 = r5
  Requests <- ThreeRequests
  Malformed <- OneMalformed
  Faults = {"reject"}
  MaxFaults = 1
  BufferSize = 1
  MaxPending = 3
PROPERTIES
  EventuallyRecorded
