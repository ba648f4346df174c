SPECIFICATION GovernanceSpec
CONSTANTS
  Procs = {p1, p2}
  Requests = {r1, r2}
  Nobody = Nobody
  MaxRequests = 1
  MaxReplans = 1
  MaxRetries = 1
  IgnoredInterrupts = FALSE
  Deliveries <- MCDeliveries
  Final <- MCFinal
  Obligations = {"work"}
  Owned = {"work"}
  Contexts = {}
  Acceptances = {"test"}
  Governs <- MCGoverns
  SuppliedTests = {}
  BuilderTests = {"test"}
  Plans <- MCPlans
INVARIANTS GovernanceTypeOK NoOverlap RunningIsOnRecord AllowancesHold NothingLost
PROPERTIES LockReturned AssignmentKept
CHECK_DEADLOCK FALSE
