SPECIFICATION Spec
CONSTANTS
  w1 = w1  w2 = w2
  Worker = {w1, w2}
  MaxChapters = 3
  Durations = {TRUE, FALSE}
  ShortPlans = {0, 1, 3}
  LongPlans = {0, 1, 2}
  MaxFailures = 1
  MaxSlips = 1
  MaxRepairs = 1
  NoTask = NoTask
SYMMETRY Symmetry
CHECK_DEADLOCK FALSE
INVARIANTS
  FinalHasEveryChapter
  
  FanInFires
  FanOutReachesAll
