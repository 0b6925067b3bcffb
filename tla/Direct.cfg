SPECIFICATION FairSpec
CONSTANTS
  Sessions = {1, 2, 3}
  Starts <- ConnectorFirst
  Budgets <- OneFault
CHECK_DEADLOCK FALSE
 
PROPERTIES Introduced BothStart
