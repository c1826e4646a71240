SPECIFICATION FairSpec
CONSTANTS
  MaxSize = 2
  MaxBytes = 3
INVARIANTS
  TypeOK
  AtMostOneEntry
  
  CompleteIsReadable
  IncompleteHasReason
  CompleteOnlyIfEnded
PROPERTY EveryStreamRecorded
