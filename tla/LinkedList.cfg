CONSTANTS
  t1 = t1
  t2 = t2
  Threads = {t1, t2}
  Initial = 3
  MaxEntries = 4
  Markable = {1}
  Uses <- MCUses
  Marks = {FALSE}
SPECIFICATION Spec
INVARIANTS LiveIsReachable WalkSkipsNothing CountsExact HeldIsAllocated ClaimsAreOwned
CHECK_DEADLOCK FALSE
