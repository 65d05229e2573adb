CONSTANTS
  s1 = s1
  s2 = s2
  s3 = s3
  s4 = s4
  s5 = s5
  p1 = p1
  p2 = p2
  Starts = {s1, s2, s3, s4, s5}
  Clients = {p1, p2}
  FlowOf <- SameFlow
  Faults = {"refused", "lost"}
CHECK_DEADLOCK FALSE
SPECIFICATION MCSpec
INVARIANTS
  FlowInv
  LiveFlowKept
  SweepComplete
PROPERTY PollingEnds
