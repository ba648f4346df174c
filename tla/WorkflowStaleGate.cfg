SPECIFICATION FairSpec
CONSTANTS
  Kinds <- ChangeOnly
  Gates <- Always
  Yolos <- Never
  Prescribed <- Never
  HonestArchive = TRUE
  MaxRetries = 1
  MaxRequests = 2
  MaxProduct = 1
  MaxDirections = 0
  MaxIterations = 2
INVARIANTS RepairedIsReverified
CHECK_DEADLOCK FALSE
