SPECIFICATION Spec
CONSTANTS
  r1 = r1
  r2 = r2
  r3 = r3
  r4 = r4
  r5 = r5
  Requests <- FiveRequests
  Malformed <- OneMalformed
  Faults = {"reject"}
  MaxFaults = 1
  BufferSize = 2
  MaxPending = 1
SYMMETRY Interchangeable
INVARIANTS
  PendingBounded
PROPERTIES
  ImplementsAuditLog
  GivesUpOnlyWhenFull
