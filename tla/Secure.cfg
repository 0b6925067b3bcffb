SPECIFICATION Spec
CONSTANTS
  Links = {"l1", "l2"}
  Inbound = 1
  DialerQueue = 1
  Plans <- SecurePlans
INVARIANTS NonceChain PumpInOrder EndedIsNeverStuck
 
CHECK_DEADLOCK FALSE
