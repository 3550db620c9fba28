SPECIFICATION Spec
CONSTANTS
  w1 = w1  w2 = w2  j1 = j1  r1 = r1  r2 = r2  r3 = r3
  Worker = {w1, w2}
  Job = {j1}
  Request = {r1, r2}
  Chapter = {}
  Long = {}
  Gated = {}
  Hurried = {}
  Ops = {"retry"}
  RetryStage = {"merge"}
  MaxRetries = 0
  MaxFailures = 0
  MaxCrashes = 0
  MaxShutdowns = 0
  PromoteLimit = 1
  MaxReady = 1
  NoTask = NoTask
SYMMETRY Symmetry
CHECK_DEADLOCK FALSE
INVARIANTS
  MutualExclusion
