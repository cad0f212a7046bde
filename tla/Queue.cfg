CONSTANTS
  t1 = t1
  t2 = t2
  Threads = {t1, t2}
  MaxEntries = 4
  Ops <- MCOps
SPECIFICATION FairSpec
INVARIANTS EmptyIsEmpty
PROPERTIES IsFifo PushEnds
CHECK_DEADLOCK FALSE
