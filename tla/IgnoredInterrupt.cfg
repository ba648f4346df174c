SPECIFICATION Spec
CONSTANTS
  Procs = {p1, p2}
  Requests = {r1, r2}
  Nobody = Nobody
  MaxRequests = 2
  MaxReplans = 1
  MaxRetries = 1
  IgnoredInterrupts = TRUE
INVARIANTS RunningIsOnRecord
SYMMETRY Symmetry
CHECK_DEADLOCK FALSE
