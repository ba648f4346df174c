SPECIFICATION FairSpec
CONSTANTS
  Paths = {f1}
  Snapshots = {b1, b2}
  NoSnapshot = NoSnapshot
  MaxReplans = 1
  MaxRemediations = 1
  Corrections = TRUE
  MaxCommits = 2
INVARIANTS TypeOK BaselineKept RollbackReproduces WorkKept
PROPERTIES RecoveryEnds
