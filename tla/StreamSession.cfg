SPECIFICATION FairSpec
CONSTANTS
  Threshold = 1
  Limits = {"policy"}
  StopKeys = {"pause"}
  MaxKeys = 2
  MaxRejections = 1
  Overlapping = FALSE
INVARIANTS
  TypeOK
  TurnsAnswered
  CommandAnswered
PROPERTIES
  StopIsFinal
  CommandEnds
CHECK_DEADLOCK FALSE
