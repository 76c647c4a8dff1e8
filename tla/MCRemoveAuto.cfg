CONSTANTS
  Carriers = {"SVEC"}
  Failing = {}
  Busids = {0}
SPECIFICATION LifeSpec
INVARIANT RemovalSilences
CHECK_DEADLOCK FALSE
