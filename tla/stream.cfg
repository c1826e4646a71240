SPECIFICATION Spec
CONSTANTS
  Wanted = {0}
  Legacy = FALSE
  MaxEvents = 6
INVARIANTS
  ContentRebuilt
  ArgumentsKept
  FinishRebuilt
CHECK_DEADLOCK FALSE
