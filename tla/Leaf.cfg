CONSTANTS
  t1 = t1
  t2 = t2
  Threads = {t1, t2}
  Keys = {1, 2, 3}
  num_entries = 3
  removed_rank = 7
SPECIFICATION Spec
SYMMETRY Symmetry
INVARIANTS RanksInOrder SplitLosesNothing SnapshotsValid LoopsAgree SplitMakesRoom
PROPERTIES RefinesLeafSet
CHECK_DEADLOCK FALSE
