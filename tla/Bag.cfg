CONSTANTS
  t1 = t1
  t2 = t2
  t3 = t3
  Threads = {t1, t2, t3}
  ArrayLen = 2
  MaxStorages = 3
  MaxValues = 5
  Ops <- MCOps
SPECIFICATION Spec
INVARIANTS EachValueOnce InUseIsKept
CHECK_DEADLOCK FALSE
