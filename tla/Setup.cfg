\* The front ends, the rules, and channels from the request to their release.
SPECIFICATION FairSpec
CONSTANTS
  Octet = 4
  Octets = 2
  MaxPort = 4
  HTTPPort = 1
  HTTPSPort = 3
  Hosts <- MCHosts
  Resolve <- MCResolve
  Links = {"l1", "l2"}
  QueueSize = 2
  MaxUp = 1
  MaxDown = 1
  Plans <- SetupPlans
CHECK_DEADLOCK FALSE
INVARIANTS ReplyTruthful  
PROPERTIES  Settles 
