SPECIFICATION FairSpec
CONSTANTS
  k1 = k1
  k2 = k2
  b1 = b1
  b2 = b2
  b3 = b3
  b4 = b4
  Sessions = {w1, w2}
  Committed = Committed
  Nobody = Nobody
  Batches = {b1, b2, b3, b4}
  Content <- Inserts
  Absent = Absent
  IdentName <- Lower
  Upsert = FALSE
  PerMessage = FALSE
  CreateModel = FALSE
  Earlier <- OrdersModel
  MaxFaults = 2
INVARIANTS WholeDocument ColumnsThere
PROPERTIES AllOrNothing ImplementsAtomicBatches InsertKeeps BatchAnswered
CHECK_DEADLOCK FALSE
