SPECIFICATION FairSpec
CONSTANTS
  w1 = w1  w2 = w2  j1 = j1  r1 = r1  r2 = r2  r3 = r3
  Worker = {w1}
  Job = {j1}
  Request = {r1, r2}
  Chapter = {j1}
  Long = {j1}
  Gated = {j1}
  Hurried = {j1}
  Ops = {"retry","start","retry_current","resume","cancel","confirm","retry_asr"}
  RetryStage = {"tts_duration"}
  MaxRetries = 1
  MaxFailures = 1
  MaxCrashes = 1
  MaxShutdowns = 0
  PromoteLimit = 2
  MaxReady = 1
  NoTask = NoTask
CHECK_DEADLOCK FALSE
INVARIANTS
  AdvanceFollowsCompletion
PROPERTIES
  JobSettles
  CancelSettles
  QueueDrains
