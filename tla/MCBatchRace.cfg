SPECIFICATION Spec
CONSTANTS
  k1 = k1
  k2 = k2
  b1 = b1
  b2 = b2
  b3 = b3
  b4 = b4
  Sessions = {w1, w2}
  Committed = Committed
  Nobody = Nobody
  Batches = {b1, b2}
  Content <- CrossedUpserts
  Absent = Absent
  IdentName <- Lower
  Upsert = TRUE
  PerMessage = TRUE
  CreateModel = TRUE
  Earlier <- OrdersModel
  MaxFaults = 0
PROPERTIES AlreadyExistsTolerated
CHECK_DEADLOCK FALSE
