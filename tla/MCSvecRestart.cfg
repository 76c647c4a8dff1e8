CONSTANTS
  Carriers = {"SVEC"}
  BusyAbort = "wait"
  UserCmds = {}
  Careful = FALSE
  Failures = {}
  NotOnSpec = {}
  ShotChoices = {1, 2}
  BufLen = 3
  UINT = 8
SPECIFICATION Spec
INVARIANTS TransferFresh
CHECK_DEADLOCK FALSE
