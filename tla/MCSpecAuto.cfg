CONSTANTS
  Carriers = {"SPEC"}
  BusyAbort = "wait"
  UserCmds = {"auto"}
  Careful = TRUE
  Failures = {}
  NotOnSpec = {}
  ShotChoices = {1, 2}
  BufLen = 3
  UINT = 8
SPECIFICATION Spec
INVARIANTS RestartAfterRun
CHECK_DEADLOCK FALSE
