SPECIFICATION Spec
CONSTANTS
  Requests = {r1, r2}
  Bodies <- SoundBodies
  MinSize = 2
  MaxFailed = 1
  MaxRuns = 2
  MaxDays = 2
SYMMETRY Alike
INVARIANTS
  BodiesRestorable
  LargeExtracted
CHECK_DEADLOCK FALSE
