SPECIFICATION FairSpec
CONSTANTS
  Workers = {w1, w2}
  Closer = closer
  Handles = {h1, h2, h3, h4}
  None = None
  MaxFaults = 1
  MaxCloses = 2
INVARIANTS TypeOK SinkSound NeverNil OnePool Released
PROPERTY CallsReturn
CHECK_DEADLOCK FALSE
