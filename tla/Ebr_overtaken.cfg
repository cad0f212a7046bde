CONSTANTS
  c1 = c1
  c2 = c2
  c3 = c3
  o1 = o1
  Collectors = {c1, c2, c3}
  Objects = {o1}
  Keepers = {c1, c2, c3}
SPECIFICATION Spec
SYMMETRY Symmetry
INVARIANTS KeptWhenOvertaken
CHECK_DEADLOCK FALSE
