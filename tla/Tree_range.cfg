CONSTANTS
  t1 = t1
  t2 = t2
  t3 = t3
  Threads = {t1, t2, t3}
  Capacity = 2
  MaxRefused = 1
  Workloads <- MCRange
SPECIFICATION Spec
INVARIANTS RangeInside
