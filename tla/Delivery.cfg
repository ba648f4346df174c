SPECIFICATION DeliverySpec
CONSTANTS
  Kinds <- AllKinds
  Gates <- Either
  Yolos <- Either
  Prescribed <- Never
  HonestArchive = TRUE
  MaxRetries = 1
  MaxRequests = 2
  MaxProduct = 2
  MaxDirections = 1
  MaxIterations = 2
  Inputs = {i1, i2, i3}
  SoundInputs = {i1, i2}
  Introductions = {c1, c2}
  Settings = {e1, e2}
  Absent = Absent
  MaxWrites = 2
  Products = {t1, t2, t3}
  OnlySlice = {t1, t2}
  Unreadable = Unreadable
  Nothing = Nothing
  MaxSlices = 2
INVARIANTS DeliveryTypeOK ReviewedDelivery ArchivedBeforeCommit DirectionHeard PreflightHolds
PROPERTIES DeliveryPromised DeliveryEnds EvidenceHonest
CHECK_DEADLOCK FALSE
