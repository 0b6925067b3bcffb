SPECIFICATION FairSpec
CONSTANTS
  Tokens = {t1, t2}
  Ports <- OnePort
  WaitClient = TRUE
  MaxTasks = 2
INVARIANTS ServedWhileOpen
PROPERTIES CloseUnbinds
CHECK_DEADLOCK FALSE
