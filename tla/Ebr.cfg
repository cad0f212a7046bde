CONSTANTS
  c1 = c1
  c2 = c2
  o1 = o1
  Collectors = {c1, c2}
  Objects = {o1}
  Keepers = {c1}
SPECIFICATION FairSpec
INVARIANTS RetiredOnce LinkedAlive GuardedIsKept GuardHoldsEpoch
PROPERTIES LeftBehindIsFreed
CHECK_DEADLOCK FALSE
