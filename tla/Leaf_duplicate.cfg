CONSTANTS
  t1 = t1
  t2 = t2
  Threads = {t1, t2}
  Keys = {1, 2, 3}
  num_entries = 2
  removed_rank = 3
SPECIFICATION Spec
SYMMETRY Symmetry
INVARIANTS DuplicateIsReal
CHECK_DEADLOCK FALSE
