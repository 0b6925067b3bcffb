SPECIFICATION Spec
CONSTANTS
  MaxReads = 3
  MaxArrivals = 1
  MaxBreaks = 1
  BufferSize = 2
  QueueCap = 1
  MinDelay = 1
  MaxDelay = 1
  DelayStep = 1
INVARIANTS StreamIntact BatchHasWaker 
PROPERTIES ImplementsPipe
CHECK_DEADLOCK FALSE
