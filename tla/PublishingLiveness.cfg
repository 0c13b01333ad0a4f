CONSTANTS
  Posts = {t1}
  Channels = {c1}
  Requests = {r1}
  Operations = {"schedule", "publishNow", "unschedule", "retry"}
  Workers = {w1, w2}
  MaxVersion = 1
  MaxTries = 2
  MaxStalls = 1
  MaxAttempts = 2
  MaxFaults = 1
  Faults = {"crash", "error", "redis", "flush", "lost_answer", "lost_lock", "slow", "token", "disconnect", "expiry"}
SPECIFICATION BusyFairSpec
CHECK_DEADLOCK FALSE
PROPERTIES
  EveryPostSettles
