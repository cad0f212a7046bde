CONSTANTS
  t1 = t1
  t2 = t2
  t3 = t3
  Threads = {t1, t2}
  ArrayLen = 1
  MaxStorages = 3
  MaxValues = 4
  Ops <- MCPops
SPECIFICATION Spec
INVARIANTS NothingIsLost
CHECK_DEADLOCK FALSE
