SPECIFICATION Spec
CONSTANTS
  MaxSize = 2
  MaxBytes = 3
INVARIANT DisconnectMeansClient
