CONSTANTS
  Addr <- MCAddr
  Prog <- MCProg
  Next_eip <- MCNext_eip
  Entry = 0
  Handler = 3
  BpAddrs = {1, 3}
  NR_BP = 3
  Steps = {1, 2}
SPECIFICATION Spec
INVARIANTS PoolPartition Recoverable
PROPERTIES OneStopPerArrival RunThroughOnlyForgotten
CHECK_DEADLOCK FALSE
