SPECIFICATION Spec
CONSTANTS
  w1 = w1  w2 = w2  j1 = j1  r1 = r1  r2 = r2  r3 = r3
  Worker = {w1, w2}
  Job = {j1}
  Request = {r1, r2}
  Chapter = {}
  Long = {}
  Gated = {}
  Hurried = {}
  Ops = {"retry", "cancel"}
  RetryStage = {"merge"}
  MaxRetries = 1
  MaxFailures = 2
  MaxCrashes = 0
  MaxShutdowns = 1
  PromoteLimit = 2
  MaxReady = 1
  NoTask = NoTask
SYMMETRY Symmetry
CHECK_DEADLOCK FALSE
INVARIANTS
  ShutdownDrains
