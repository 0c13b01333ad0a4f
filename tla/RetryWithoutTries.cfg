CONSTANTS
  Posts = {t1}
  Channels = {c1}
  Requests = {r1}
  Operations = {"publishNow", "retry"}
  Workers = {w1, w2}
  MaxVersion = 2
  MaxTries = 3
  MaxStalls = 1
  MaxAttempts = 3
  MaxFaults = 1
  Faults = {}
SPECIFICATION Spec
SYMMETRY Symmetry
CHECK_DEADLOCK FALSE
INVARIANTS
  FreshVersionIsRetried
