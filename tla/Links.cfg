SPECIFICATION FairSpec
CONSTANTS
  Threads = 3
  Requests = {r1}
  MaxConns = 3
  Reconnect = TRUE
INVARIANTS NoLostWakeup
PROPERTIES CloseEndsLinks
CHECK_DEADLOCK FALSE
