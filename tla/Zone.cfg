SPECIFICATION FairSpec
CONSTANTS
  a = a
  b = b
  Members = {a, b}
  QueueLimit = 1
  MaxId = 2
  Plans <- ThreePlans
INVARIANTS DeliveredInOrder 
PROPERTIES SessionLossReleases BothEndsRelease
CHECK_DEADLOCK FALSE
