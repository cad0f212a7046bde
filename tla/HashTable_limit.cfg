CONSTANTS
  t1 = t1
  t2 = t2
  Threads = {t1, t2}
  AsyncThreads = {t2}
  Keys = {1, 2}
  HashRange = 4
  Hash <- MCHash
  Sizes = {2, 4}
  MaxArrays = 3
  RangeLen = 2
  MaxRehashers = 1
  Types = {"SEQUENTIAL"}
  Ops <- MCLimit
  CallsAgain = FALSE
SPECIFICATION Spec
INVARIANTS ClaimsExact
CHECK_DEADLOCK FALSE
