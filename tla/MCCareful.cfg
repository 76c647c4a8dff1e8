CONSTANTS
  Carriers = {"SPEC", "SVEC"}
  BusyAbort = "wait"
  UserCmds = {"stop", "auto", "trigger", "shots"}
  Careful = TRUE
  Failures = {"alloc", "rawio", "pll", "xfer"}
  NotOnSpec = {"auto", "xfer"}
  ShotChoices = {1, 2}
  BufLen = 3
  UINT = 8
SPECIFICATION FairSpec
INVARIANTS NoFault BusyHasOwner BlocksAccounted TransferWhole TransferFresh DisabledIsSilent NoWarn HandlerNeverWaits ScatterlistOnce
PROPERTIES Implements BusyEnds ArmedEnds CallReturns
