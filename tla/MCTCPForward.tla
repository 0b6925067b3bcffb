---------------------------- MODULE MCTCPForward ----------------------------
\* The constants of TCPForward are given directly in the configurations.
EXTENDS TCPForward

\* When the connection has ended and no goroutine, timer or cleanup of the end
\* can take a step, nothing of the channel is left: no goroutine waits for room,
\* for a signal or for a cancel that will not come (forwarder.go, ProcessReads;
\* relay.go, HandleSocksTCPForward, doCleanup).
StuckIsReleased ==
  conn # "open" /\ ~ENABLED (ReadStep \/ FlusherStep \/ WriterStep \/ OwnerStep \/ CleanupStep \/ TimerFires \/ TimerSignals)
    => owner = "gone" /\ cleanup = "done" /\ reader = "done" /\ flusher = "gone"
=============================================================================
