CONSTANTS
  Chan = {0, 1}
  HALF = 64
  FULL = 100
  INT = 512
  DeltaOffset = 8
  DeltaGain = 8
  IdenTemp = 30
  DeltaTemp = 20
  TestAdc = FALSE
  Values = {63}
  Ranges = {2, 3}
  Files <- MCFiles
  Beyond = {7, 119}
  Writable = TRUE
  SpiFails = FALSE
SPECIFICATION Spec
INVARIANTS CalibApplied
