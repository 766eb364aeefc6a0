CONSTANTS
  Addr <- MCAddr
  Prog <- MCProg
  Next_eip <- MCNext_eip
  Entry = 0
  Handler = 3
  BpAddrs = {1}
  NR_BP = 1
  Steps = {1}
SPECIFICATION Spec
PROPERTIES NeverRunThrough
CHECK_DEADLOCK FALSE
