CONSTANTS
  BTB_BITS = 1
  LHT_INDEX = 0
  LHT_BITS = 1
  GHR_BITS = 1
  RAS_SIZE = 2
  Code <- MCCode
  Width = 3
  MaxFetch = 7
SPECIFICATION FSpec
INVARIANTS RasHoldsCalls PredictionIsPlausible
CHECK_DEADLOCK FALSE
