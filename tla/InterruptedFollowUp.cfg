SPECIFICATION Spec
CONSTANTS
  Threshold = 1
  Limits = {"policy"}
  StopKeys = {"pause"}
  MaxKeys = 2
  MaxRejections = 0
  Overlapping = TRUE
INVARIANTS CommandAnswered
CHECK_DEADLOCK FALSE
