SPECIFICATION Spec
CONSTANTS
  XLEN = 16
  PMP_NUMBER = 2
  Garbage = {0}
  BTB_BITS = 1
  LHT_INDEX = 0
  LHT_BITS = 1
  GHR_BITS = 1
  RAS_SIZE = 2
  Programs <- MCPrograms
  PlainPrograms <- MCPlainPrograms
  Mem0 <- MCMem0
  GprCount = 3
  RESET = 64
  Latencies = {1, 2}
  MaxInsts = 6
  MaxStops = 1
INVARIANTS CommitsMatch MemoryInStep DifftestAgrees
PROPERTIES ExecReturns
CHECK_DEADLOCK FALSE
