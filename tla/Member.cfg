\* Two members, two UDP clients at a, which runs in VLAN mode too.
SPECIFICATION FairSpec
CONSTANTS
  a = a
  b = b
  Addresses <- Two
  Members <- Two
  Ports <- MCPorts
  MaxRules = 4
  ServicePort = 3
  Frames <- MCFrames
  Settings <- MCSettings
  FirstSettings <- Open
  MaxSends = 1
  MaxDelay = 2
  Plans <- MCPlans
INVARIANTS InFlightFresh 
PROPERTIES AcceptedInOrder 
CHECK_DEADLOCK FALSE
