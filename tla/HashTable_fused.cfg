CONSTANTS
  t1 = t1
  t2 = t2
  Threads = {t1, t2}
  AsyncThreads = {t2}
  Keys = {1, 2}
  HashRange = 2
  Hash <- MCHash
  Sizes = {1, 2}
  MaxArrays = 2
  RangeLen = 1
  MaxRehashers = 2
  Types = {"OPTIMISTIC"}
  Ops <- MCOps
  CallsAgain = TRUE
SPECIFICATION Spec
INVARIANTS InBounds
CHECK_DEADLOCK FALSE
