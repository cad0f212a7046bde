CONSTANTS
  c1 = c1
  c2 = c2
  c3 = c3
  o1 = o1
  Collectors = {c1, c2, c3}
  Objects = {o1}
  Keepers = {}
SPECIFICATION Spec
SYMMETRY Symmetry
INVARIANTS RetiredOnce LinkedAlive GuardedIsKept GuardHoldsEpoch
CHECK_DEADLOCK FALSE
