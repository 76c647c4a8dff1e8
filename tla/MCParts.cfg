CONSTANTS
  Chan = {0}
  HALF = 64
  FULL = 100
  INT = 512
  DeltaOffset = 8
  DeltaGain = 8
  IdenTemp = 30
  DeltaTemp = 20
  TestAdc = FALSE
  Values <- Edges
  Ranges = {0, 1, 2, 3, 4, 5, 6}
  Files <- MCFiles
  Beyond = {7, 119}
  Writable = FALSE
  SpiFails = FALSE
  Carriers = {"SPEC", "SVEC"}
  Failing = {"workqueue", "trigger", "zio_driver", "fmc_driver", "gateware", "carrier", "check", "onewire", "zio", "dma_mask", "adc_irq", "dma_irq", "pin"}
  Busids = {0, 1}
  WORD = 2048
  FIELD = 4
  MEMORY = 128
  DPRAM = 3
  Counts = {0, 1, 2, 4, 5, 12, 14, 254, 2047}
  Readers = {"reader", "atomic"}
  Atomic = {"atomic"}
  JIFFIES = 20
  U32 = 1048576
  Temps <- MCTemps
  PowerOn = 1360
  Tables <- MCTables
  Bases = {0, 64}
  Slots = {0, 1, 2, 3}
  Lists <- MCLists
  Pools = {0, 9, 200}
  Stale <- MCStale
  ItemSize = 4
  HALFADDR = 16
SPECIFICATION PartsSpec
INVARIANTS TypeOK AdcTracks DacTracks CalibSane GainSane
  LifeTypeOK Supported NothingElseLeaks
  ChainAlive SilentWhenGone NoFault
  ConfTypeOK CoreFollows BlocksAreShots CoreFits BlocksInMemory ArmedListens
  Measured ShortWait FindsIndexed FailsWithout WholeChain
PROPERTIES DacMonotonic Acknowledged RemoveEnds
CHECK_DEADLOCK FALSE
