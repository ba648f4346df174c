SPECIFICATION ChecksSpec
CONSTANTS
  Keys = {k1, k2}
  Helpers = {h1, h2}
  Attempts = {a1, a2, a3, a4}
  Versions = {v1, v2}
  Nobody = Nobody
  MaxDisturbances = 0
INVARIANTS LaterFailureWins
CHECK_DEADLOCK FALSE
