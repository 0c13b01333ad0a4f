CONSTANTS
  Posts = {t1}
  Channels = {c1}
  Requests = {r1}
  Operations = {"schedule", "publishNow", "unschedule", "retry"}
  Workers = {w1, w2}
  MaxVersion = 1
  MaxTries = 3
  MaxStalls = 1
  MaxAttempts = 3
  MaxFaults = 2
  Faults = {"crash", "error", "lost_answer", "lost_lock", "slow", "expiry"}
SPECIFICATION Spec
SYMMETRY Symmetry
CHECK_DEADLOCK FALSE
INVARIANTS
  TypeOK
  OneClaimant
  RunKnowsPage
  PendingIsOffPage
  AttemptOnRecord
PROPERTIES
  ImplementsDelivery
