CONSTANTS
  WORD = 2048
  FIELD = 4
  MEMORY = 128
  DPRAM = 3
  Counts = {0, 1, 2, 4, 5, 12, 14, 254, 2047}
SPECIFICATION ConfSpec
INVARIANT AcceptedFits
CHECK_DEADLOCK FALSE
