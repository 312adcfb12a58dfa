SPECIFICATION FairSpec
CONSTANTS
  w1 = w1
  w2 = w2
  u1 = u1
  u2 = u2
  Workers = {w1, w2}
  Urls = {u1}
  TTLs = {0, 1}
  MaxFetch = 1
  MaxTime = 3
  MaxVersion = 2
  Free = Free
PROPERTIES ServedFresh LoadReturns
