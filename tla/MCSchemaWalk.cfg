SPECIFICATION FairSpec
CONSTANTS
  a = a
  b = b
  c = c
  p = p
  q = q
  Nodes = {a, b, c}
  Root = a
  Keys = {p, q}
  Graphs <- SmallGraphs
  MaxDepth = 5
INVARIANTS TypeOK GuardIsPath LandingBounded PlansEverything
PROPERTY Ends
CHECK_DEADLOCK FALSE
