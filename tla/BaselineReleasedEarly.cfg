SPECIFICATION Spec
CONSTANTS
  Paths = {f1, f2}
  Snapshots = {b1, b2}
  NoSnapshot = NoSnapshot
  MaxReplans = 1
  MaxRemediations = 1
  Corrections = FALSE
  MaxCommits = 2
INVARIANTS RecordedStateRestored
SYMMETRY Symmetry
