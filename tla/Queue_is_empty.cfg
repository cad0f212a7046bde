CONSTANTS
  t1 = t1
  t2 = t2
  Threads = {t1, t2}
  MaxEntries = 2
  Ops <- MCOps
SPECIFICATION Spec
INVARIANTS NonEmptyIsNonEmpty
CHECK_DEADLOCK FALSE
