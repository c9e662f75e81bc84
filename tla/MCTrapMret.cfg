SPECIFICATION Spec
CONSTANTS
  XLEN = 16
  PMP_NUMBER = 2
  Harts = {0, 1}
  Addrs = {4, 12}
  CfgWords <- MCCfgWords
  PmpAddrs <- MCPmpAddrs
  Yields = {0}
  MaxNest = 2
INVARIANT MretRestoresLevel
CHECK_DEADLOCK FALSE
