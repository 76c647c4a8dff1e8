CONSTANTS
  Carriers = {"SPEC"}
  BusyAbort = "wait"
  UserCmds = {"stop"}
  Careful = TRUE
  Failures = {"xfer"}
  NotOnSpec = {}
  ShotChoices = {1, 2}
  BufLen = 3
  UINT = 8
SPECIFICATION Spec
INVARIANTS ErrorStops
CHECK_DEADLOCK FALSE
