CONSTANTS
  Posts = {t1}
  Channels = {c1}
  Requests = {r1}
  Operations = {"schedule", "publishNow", "unschedule", "retry"}
  Workers = {w1, w2}
  MaxVersion = 2
  MaxTries = 2
  MaxStalls = 1
  MaxAttempts = 2
  MaxFaults = 1
  Faults = {"crash", "slow", "disconnect", "flush"}
SPECIFICATION Spec
SYMMETRY Symmetry
CHECK_DEADLOCK FALSE
INVARIANTS
  OnceUnlessDisturbed
  ClaimIsCurrent
PROPERTIES
  NeverEarly
