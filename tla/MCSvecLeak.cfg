CONSTANTS
  Carriers = {"SVEC"}
  BusyAbort = "wait"
  UserCmds = {"stop", "auto"}
  Careful = FALSE
  Failures = {}
  NotOnSpec = {}
  ShotChoices = {1, 2}
  BufLen = 3
  UINT = 8
SPECIFICATION Spec
PROPERTIES AbortFreesAll
CHECK_DEADLOCK FALSE
