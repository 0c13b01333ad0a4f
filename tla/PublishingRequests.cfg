CONSTANTS
  Posts = {t1}
  Channels = {c1}
  Requests = {r1, r2}
  Operations = {"schedule", "publishNow", "unschedule", "retry"}
  Workers = {w1}
  MaxVersion = 2
  MaxTries = 2
  MaxStalls = 1
  MaxAttempts = 2
  MaxFaults = 1
  Faults = {"expiry"}
SPECIFICATION Spec
SYMMETRY Symmetry
CHECK_DEADLOCK FALSE
INVARIANTS
  RetryHasTryLeft
  ScheduledHasJob
PROPERTIES
  SettledStays
