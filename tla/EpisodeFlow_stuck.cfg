SPECIFICATION Spec
CONSTANTS
  w1 = w1  w2 = w2
  Worker = {w1}
  MaxChapters = 1
  Durations = {FALSE}
  ShortPlans = {0, 1}
  LongPlans = {0, 1}
  MaxFailures = 0
  MaxSlips = 0
  MaxRepairs = 0
  NoTask = NoTask
SYMMETRY Symmetry
CHECK_DEADLOCK FALSE
INVARIANTS
  MergedIsCompleted
