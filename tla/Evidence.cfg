SPECIFICATION Spec
CONSTANTS
  Keys = {k1, k2}
  Helpers = {h1, h2}
  Attempts = {a1, a2, a3, a4}
  Versions = {v1, v2}
  Nobody = Nobody
  MaxDisturbances = 1
  MaxNoProgress = 2
  MaxRecurring = 1
  MaxFindings = 2
  MaxEntries = 2
  MaxMishaps = 2
  Sessions = {s1, s2}
  Models = {m1, m2}
  Unreported = Unreported
  MaxSpent = 3
  MaxSetbacks = 1
INVARIANTS EvidenceTypeOK FailureWins StalledRepairs ChargedOnce
PROPERTIES GenuinePasses OpenRetained
SYMMETRY Interchangeable
CHECK_DEADLOCK FALSE
