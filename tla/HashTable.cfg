CONSTANTS
  t1 = t1
  t2 = t2
  Threads = {t1, t2}
  AsyncThreads = {t2}
  Keys = {1, 2}
  HashRange = 2
  Hash <- MCHash
  Sizes = {1, 2}
  MaxArrays = 3
  RangeLen = 1
  MaxRehashers = 2
  Types = {"SEQUENTIAL", "OPTIMISTIC"}
  Ops <- MCOps
  CallsAgain = FALSE
SPECIFICATION Spec
INVARIANTS OneHome DetachedIsCleared ClaimsExact TargetsAlive LockIsAuthority LookupsAreReal
CHECK_DEADLOCK FALSE
