SPECIFICATION FairProxySpec
CONSTANTS
  s1 = s1
  s2 = s2
  q1 = q1
  Requests <- TwoStreamsAndOneRequest
  Streams <- TwoStreams
  Malformed = {}
  Faults = {}
  MaxFaults = 0
  BufferSize = 1
  MaxPending = 2
INVARIANTS
  HandlersRecorded
  OnlyMonitorsFindClosed
PROPERTIES
  RecordedDespiteSlowStreams
  SignalEnds
