CONSTANTS
  Carriers = {"SPEC", "SVEC"}
  BusyAbort = "skip"
  UserCmds = {"stop", "auto"}
  Careful = FALSE
  Failures = {"alloc", "rawio", "xfer", "dma"}
  NotOnSpec = {}
  ShotChoices = {1, 2}
  BufLen = 2
  UINT = 8
SPECIFICATION Spec
INVARIANTS TypeOK OnlyDeathStrands
CHECK_DEADLOCK FALSE
