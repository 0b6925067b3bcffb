SPECIFICATION FairSpec
CONSTANTS
  MaxWrites <- DialerSendsOne
  MaxSequence = 3
  MaxStreams = 2
  MaxDrops = 1
  QueueCap = 1
  StartPath = "direct"
CHECK_DEADLOCK FALSE
INVARIANTS QueuedOnce QueuedInOrder AckedMeansQueued
 
