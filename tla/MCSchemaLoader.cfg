SPECIFICATION Spec
CONSTANTS
  w1 = w1
  w2 = w2
  u1 = u1
  u2 = u2
  Workers = {w1, w2}
  Urls = {u1, u2}
  TTLs = {2}
  MaxFetch = 1
  MaxTime = 4
  MaxVersion = 2
  Free = Free
SYMMETRY Symmetry
INVARIANTS TypeOK CacheBounds
PROPERTIES ServedFresh RegressionIsRecent SweptInTime
