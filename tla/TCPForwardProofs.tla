-------------------------- MODULE TCPForwardProofs --------------------------
(***************************************************************************)
(* Proofs about TCPForward, for any number of payloads, any buffer size    *)
(* and any delays: types, the stream that stays intact, the batch that     *)
(* has a waker, and the implementation of Pipe.                            *)
(***************************************************************************)
EXTENDS TCPForward, SequenceTheorems, TLAPS

\* The numbers up to n are a sequence, and the next number extends it.
LEMMA UpToLemma ==
  ASSUME NEW n \in Nat
  PROVE  /\ UpTo(n) \in Seq(Numbers)
         /\ Len(UpTo(n)) = n
         /\ Append(UpTo(n), n + 1) = UpTo(n + 1)
<1>1. UpTo(n) \in Seq(Numbers) /\ Len(UpTo(n)) = n
  BY DEF UpTo, Numbers
<1>2. UpTo(n + 1) \in Seq(Numbers) /\ Len(UpTo(n + 1)) = n + 1
  BY DEF UpTo, Numbers
<1>3. \A i \in 1 .. n + 1 : Append(UpTo(n), n + 1)[i] = UpTo(n + 1)[i]
  BY <1>1, AppendProperties DEF UpTo, Numbers
<1>4. Append(UpTo(n), n + 1) \in Seq(Numbers) /\ Len(Append(UpTo(n), n + 1)) = n + 1
  BY <1>1, AppendProperties DEF Numbers
<1> HIDE DEF UpTo
<1> QED  BY <1>1, <1>2, <1>3, <1>4, SeqEqual, Zenon

-----------------------------------------------------------------------------
(* Types.                                                                  *)

\* The adjusted delay is a delay.
LEMMA AdjustDelayType ==
  ASSUME NEW d \in Nat, NEW speed \in Speeds
  PROVE  AdjustDelay(d, speed) \in Nat
<1>1. speed \in {"high", "medium", "low"}
  BY Zenon DEF Speeds
<1>2. d \div 2 \in Nat
  OBVIOUS
<1>3. CASE speed = "high"
  BY <1>3, ForwardAssumption DEF AdjustDelay
<1>4. CASE speed = "low"
  BY <1>4, Zenon DEF AdjustDelay
<1>5. CASE speed = "medium"
  BY <1>2, <1>5, ForwardAssumption, Zenon DEF AdjustDelay
<1> QED  BY <1>1, <1>3, <1>4, <1>5, Zenon

\* errChan holds at most two errors.
LEMMA OfferedType ==
  ASSUME TypeOK, NEW e \in {"read", "failure"}
  PROVE  Offered(e) \in Seq({"read", "failure"}) /\ Len(Offered(e)) <= 2
BY AppendProperties DEF Offered, TypeOK

\* A goroutine goes on after its flush in a place it has.
LEMMA ResumesType ==
  ASSUME TypeOK, NEW g \in {"reader", "flusher"}, Resumes(g)
  PROVE  /\ reader' \in {"check", "read", "append", "arm", "signal", "done"} \cup Flushing
         /\ flusher' \in {"wait", "flush", "gone"}
         /\ cancelled' \in BOOLEAN
<1>1. CASE g = "reader"
  <2>1. /\ reader' = CASE reader = "full" -> "check" [] reader = "error" -> "signal" [] OTHER -> "done"
        /\ flusher' = flusher
    BY <1>1, Zenon DEF Resumes
  <2>2. cancelled' \in BOOLEAN
    BY <1>1, Zenon DEF Resumes
  <2> QED  BY <2>1, <2>2, Zenon DEF TypeOK
<1>2. CASE g # "reader"
  BY <1>2, Zenon DEF Resumes, TypeOK
<1> QED  BY <1>1, <1>2, Zenon

\* Every step keeps the types.
LEMMA TypeStep ==
  ASSUME TypeOK, [Next]_vars
  PROVE  TypeOK'
<1> USE ForwardAssumption DEF batching, inbound, world, ending
<1>1. ASSUME NEW g \in {"reader", "flusher"}, FlushEmpty(g) PROVE TypeOK'
  <2>1. delay' \in Nat
    BY <1>1, AdjustDelayType, Zenon DEF FlushEmpty, TypeOK
  <2>2. Resumes(g)
    BY <1>1, Zenon DEF FlushEmpty
  <2>3. /\ timer' = "nil" /\ fresh' \in BOOLEAN
        /\ UNCHANGED <<side, mu, taken, batch, firing, signal, sent, world, errors, inbound, ending, failed>>
    BY <1>1, Zenon DEF FlushEmpty
  <2> QED  BY <2>1, <2>2, <2>3, ResumesType DEF TypeOK
<1>2. ASSUME NEW g \in {"reader", "flusher"}, FlushStarts(g) PROVE TypeOK'
  BY <1>2 DEF FlushStarts, WantsFlush, TypeOK, Numbers
<1>3. ASSUME NEW g \in {"reader", "flusher"}, FlushSends(g) PROVE TypeOK'
  <2>1. delay' \in Nat
    BY <1>3, AdjustDelayType, Zenon DEF FlushSends, TypeOK
  <2>2. Resumes(g)
    BY <1>3, Zenon DEF FlushSends
  <2>3. sent' \in Seq(Numbers) /\ batch' \in Seq(Numbers)
    BY <1>3, ConcatProperties DEF FlushSends, TypeOK
  <2>4. /\ mu' = "free" /\ fresh' \in BOOLEAN
        /\ UNCHANGED <<side, taken, timer, firing, signal, world, errors, inbound, ending, failed>>
    BY <1>3, Zenon DEF FlushSends
  <2> QED  BY <2>1, <2>2, <2>3, <2>4, ResumesType DEF TypeOK
<1>4. ASSUME NEW g \in {"reader", "flusher"}, FlushFails(g) PROVE TypeOK'
  <2>1. errors' \in Seq({"read", "failure"}) /\ Len(errors') <= 2
    BY <1>4, OfferedType, Zenon DEF FlushFails
  <2>2. Resumes(g)
    BY <1>4, Zenon DEF FlushFails
  <2> QED  BY <1>4, <2>1, <2>2, ResumesType DEF FlushFails, TypeOK
<1>5. ASSUME CheckContext PROVE TypeOK'
  BY <1>5 DEF CheckContext, Flushing, TypeOK, Numbers
<1>6. ASSUME ReadData PROVE TypeOK'
  BY <1>6 DEF ReadData, TypeOK, Numbers
<1>7. ASSUME ReadFails PROVE TypeOK'
  BY <1>7 DEF ReadFails, Flushing, TypeOK, Numbers
<1>8. ASSUME AppendRead PROVE TypeOK'
  BY <1>8 DEF AppendRead, Flushing, TypeOK, Numbers
<1>9. ASSUME ArmTimer PROVE TypeOK'
  BY <1>9 DEF ArmTimer, TypeOK, Numbers
<1>10. ASSUME SignalError PROVE TypeOK'
  <2>1. errors' \in Seq({"read", "failure"}) /\ Len(errors') <= 2
    BY <1>10, OfferedType, Zenon DEF SignalError
  <2> QED  BY <1>10, <2>1 DEF SignalError, TypeOK, Flushing
<1>11. ASSUME TakeSignal PROVE TypeOK'
  <2>1. /\ signal' \in BOOLEAN /\ flusher' = "flush"
        /\ UNCHANGED <<side, reader, mu, taken, batch, delay, timer, firing, fresh, sent, world, cancelled, errors,
                       inbound, ending, failed>>
    BY <1>11, Zenon DEF TakeSignal
  <2> QED  BY <2>1 DEF TypeOK
<1>12. ASSUME FlusherEnds PROVE TypeOK'
  BY <1>12 DEF FlusherEnds, TypeOK, Numbers
<1>13. ASSUME TimerFires PROVE TypeOK'
  BY <1>13 DEF TimerFires, TypeOK, Numbers
<1>14. ASSUME TimerSignals PROVE TypeOK'
  BY <1>14 DEF TimerSignals, TypeOK, Numbers
<1>15. ASSUME TakeMessage PROVE TypeOK'
  BY <1>15 DEF TakeMessage, TypeOK, Numbers
<1>16. ASSUME WriteMessage PROVE TypeOK'
  BY <1>16 DEF WriteMessage, TypeOK, Numbers
<1>17. ASSUME WriteFails PROVE TypeOK'
  BY <1>17 DEF WriteFails, TypeOK, Numbers
<1>18. ASSUME ReportFailure PROVE TypeOK'
  BY <1>18 DEF ReportFailure, TypeOK, Numbers
<1>19. ASSUME StartDrain PROVE TypeOK'
  BY <1>19 DEF StartDrain, TypeOK, Numbers
<1>20. ASSUME DrainEnds PROVE TypeOK'
  BY <1>20 DEF DrainEnds, TypeOK, Numbers
<1>21. ASSUME OwnerTakesError PROVE TypeOK'
  BY <1>21 DEF OwnerTakesError, Wakes, Disconnects, CanWrite, TypeOK, Numbers
<1>22. ASSUME OwnerCancelled PROVE TypeOK'
  BY <1>22 DEF OwnerCancelled, Wakes, Disconnects, CanWrite, TypeOK, Numbers
<1>23. ASSUME OwnerDone PROVE TypeOK'
  BY <1>23 DEF OwnerDone, Wakes, Disconnects, CanWrite, TypeOK, Numbers
<1>24. ASSUME OwnerLeaves PROVE TypeOK'
  <2>1. told' \in {"no", "read", "other"}
    BY <1>24, Zenon DEF OwnerLeaves, Disconnects, TypeOK
  <2>2. /\ cancelled' \in BOOLEAN /\ conn' \in {"open", "eof", "reset", "closed"}
        /\ cleanup' \in {"none", "queued", "cancelled", "done"}
    BY <1>24, Zenon DEF OwnerLeaves, Shut, Requeued, TypeOK
  <2>3. /\ owner' = "half"
        /\ UNCHANGED <<side, reader, batching, sent, link, breaks, errors, inbound, reason, failed>>
    BY <1>24, Zenon DEF OwnerLeaves
  <2> QED  BY <2>1, <2>2, <2>3 DEF TypeOK
<1>25. ASSUME OwnerGone PROVE TypeOK'
  BY <1>25 DEF OwnerGone, Shut, TypeOK, Numbers
<1>26. ASSUME CleanupCancels PROVE TypeOK'
  BY <1>26 DEF CleanupCancels, TypeOK, Numbers
<1>27. ASSUME CleanupCloses PROVE TypeOK'
  BY <1>27 DEF CleanupCloses, TypeOK, Numbers
<1>28. ASSUME DataArrives PROVE TypeOK'
  <2>1. arrived + 1 \in Numbers /\ queue \in Seq(Numbers) /\ Len(queue) \in Nat
    BY DEF TypeOK, Numbers
  <2>2. /\ Append(queue, arrived + 1) \in Seq(Numbers)
        /\ Len(Append(queue, arrived + 1)) = Len(queue) + 1
    BY <2>1, AppendProperties, Zenon
  <2>3. queue' \in Seq(Numbers) /\ Len(queue') <= QueueCap
    BY <1>28, <2>1, <2>2 DEF DataArrives, TypeOK
  <2> QED  BY <1>28, <2>3 DEF DataArrives, TypeOK
<1>29. ASSUME PeerDisconnects PROVE TypeOK'
  BY <1>29 DEF PeerDisconnects, TypeOK, Numbers
<1>30. ASSUME IdleTimeout PROVE TypeOK'
  BY <1>30 DEF IdleTimeout, TypeOK, Numbers
<1>31. ASSUME ConnEnds PROVE TypeOK'
  BY <1>31 DEF ConnEnds, TypeOK, Numbers
<1>32. ASSUME LinkDrops PROVE TypeOK'
  BY <1>32 DEF LinkDrops, TypeOK, Numbers
<1>33. ASSUME LinkReturns PROVE TypeOK'
  BY <1>33 DEF LinkReturns, TypeOK, Numbers
<1>34. ASSUME UNCHANGED vars PROVE TypeOK'
  BY <1>34 DEF vars, TypeOK
<1> HIDE DEF TypeOK
<1> QED  BY <1>1, <1>2, <1>3, <1>4, <1>5, <1>6, <1>7, <1>8, <1>9, <1>10, <1>11, <1>12, <1>13, <1>14, <1>15, <1>16, <1>17, <1>18, <1>19, <1>20, <1>21, <1>22, <1>23, <1>24, <1>25, <1>26, <1>27, <1>28, <1>29, <1>30, <1>31, <1>32, <1>33, <1>34, Zenon
     DEF Next, ReadStep, FlusherStep, WriterStep, OwnerStep, CleanupStep, World, Flush

-----------------------------------------------------------------------------
(* The batch.                                                              *)

Core == <<reader, mu, taken, batch, timer, firing, signal, flusher, sent, failed>>
Quiet == WriterStep \/ OwnerStep \/ CleanupStep \/ World \/ UNCHANGED vars

\* The other goroutines, the peers and the link leave the batch alone, and no
\* step takes a cancellation back.
LEMMA QuietStep ==
  ASSUME Quiet
  PROVE  UNCHANGED Core /\ (cancelled => cancelled')
<1> USE DEF Core, batching, inbound, world, ending
<1>1. ASSUME TakeMessage PROVE UNCHANGED Core /\ (cancelled => cancelled')
  BY <1>1, Zenon DEF TakeMessage
<1>2. ASSUME WriteMessage PROVE UNCHANGED Core /\ (cancelled => cancelled')
  BY <1>2, Zenon DEF WriteMessage
<1>3. ASSUME WriteFails PROVE UNCHANGED Core /\ (cancelled => cancelled')
  BY <1>3, Zenon DEF WriteFails
<1>4. ASSUME ReportFailure PROVE UNCHANGED Core /\ (cancelled => cancelled')
  BY <1>4, Zenon DEF ReportFailure
<1>5. ASSUME StartDrain PROVE UNCHANGED Core /\ (cancelled => cancelled')
  BY <1>5, Zenon DEF StartDrain
<1>6. ASSUME DrainEnds PROVE UNCHANGED Core /\ (cancelled => cancelled')
  BY <1>6, Zenon DEF DrainEnds
<1>7. ASSUME OwnerTakesError PROVE UNCHANGED Core /\ (cancelled => cancelled')
  BY <1>7, Zenon DEF OwnerTakesError, Wakes
<1>8. ASSUME OwnerCancelled PROVE UNCHANGED Core /\ (cancelled => cancelled')
  BY <1>8, Zenon DEF OwnerCancelled, Wakes
<1>9. ASSUME OwnerDone PROVE UNCHANGED Core /\ (cancelled => cancelled')
  BY <1>9, Zenon DEF OwnerDone, Wakes
<1>10. ASSUME OwnerLeaves PROVE UNCHANGED Core /\ (cancelled => cancelled')
  BY <1>10, Zenon DEF OwnerLeaves
<1>11. ASSUME OwnerGone PROVE UNCHANGED Core /\ (cancelled => cancelled')
  BY <1>11, Zenon DEF OwnerGone
<1>12. ASSUME CleanupCancels PROVE UNCHANGED Core /\ (cancelled => cancelled')
  BY <1>12, Zenon DEF CleanupCancels
<1>13. ASSUME CleanupCloses PROVE UNCHANGED Core /\ (cancelled => cancelled')
  BY <1>13, Zenon DEF CleanupCloses
<1>14. ASSUME DataArrives PROVE UNCHANGED Core /\ (cancelled => cancelled')
  BY <1>14, Zenon DEF DataArrives
<1>15. ASSUME PeerDisconnects PROVE UNCHANGED Core /\ (cancelled => cancelled')
  BY <1>15, Zenon DEF PeerDisconnects
<1>16. ASSUME IdleTimeout PROVE UNCHANGED Core /\ (cancelled => cancelled')
  BY <1>16, Zenon DEF IdleTimeout
<1>17. ASSUME ConnEnds PROVE UNCHANGED Core /\ (cancelled => cancelled')
  BY <1>17, Zenon DEF ConnEnds
<1>18. ASSUME LinkDrops PROVE UNCHANGED Core /\ (cancelled => cancelled')
  BY <1>18, Zenon DEF LinkDrops
<1>19. ASSUME LinkReturns PROVE UNCHANGED Core /\ (cancelled => cancelled')
  BY <1>19, Zenon DEF LinkReturns
<1>20. ASSUME UNCHANGED vars PROVE UNCHANGED Core /\ (cancelled => cancelled')
  BY <1>20, Zenon DEF vars
<1> HIDE DEF Core
<1> QED  BY <1>1, <1>2, <1>3, <1>4, <1>5, <1>6, <1>7, <1>8, <1>9, <1>10, <1>11, <1>12, <1>13, <1>14, <1>15, <1>16, <1>17, <1>18, <1>19, <1>20, Zenon
     DEF Quiet, WriterStep, OwnerStep, CleanupStep, World

\* No step loses, doubles or exchanges a payload.
LEMMA StreamStep ==
  ASSUME TypeOK, StreamIntact, [Next]_vars
  PROVE  StreamIntact'
<1> USE DEF batching, inbound, world, ending
<1>1. ASSUME NEW g \in {"reader", "flusher"}, FlushEmpty(g) PROVE StreamIntact'
  BY <1>1, Zenon DEF FlushEmpty, StreamIntact, UpTo
<1>2. ASSUME NEW g \in {"reader", "flusher"}, FlushStarts(g) PROVE StreamIntact'
  BY <1>2, Zenon DEF FlushStarts, StreamIntact, UpTo
<1>3. ASSUME NEW g \in {"reader", "flusher"}, FlushSends(g) PROVE StreamIntact'
  <2>1. sent \in Seq(Numbers) /\ batch \in Seq(Numbers)
    BY Zenon DEF TypeOK
  <2>2. sent' = sent \o batch /\ batch' = <<>> /\ taken' = taken
    BY <1>3, Zenon DEF FlushSends
  <2>3. sent \o batch \in Seq(Numbers)
    BY <2>1, ConcatProperties, Zenon
  <2>4. (sent \o batch) \o <<>> = sent \o batch
    BY <2>3, ConcatEmptySeq, Zenon
  <2> QED  BY <2>2, <2>4, Zenon DEF StreamIntact, UpTo
<1>4. ASSUME NEW g \in {"reader", "flusher"}, FlushFails(g) PROVE StreamIntact'
  BY <1>4, Zenon DEF FlushFails, StreamIntact, UpTo
<1>5. ASSUME CheckContext PROVE StreamIntact'
  BY <1>5, Zenon DEF CheckContext, StreamIntact, UpTo
<1>6. ASSUME ReadData PROVE StreamIntact'
  BY <1>6, Zenon DEF ReadData, StreamIntact, UpTo
<1>7. ASSUME ReadFails PROVE StreamIntact'
  BY <1>7, Zenon DEF ReadFails, StreamIntact, UpTo
<1>8. ASSUME AppendRead PROVE StreamIntact'
  <2>1. sent \in Seq(Numbers) /\ batch \in Seq(Numbers) /\ taken \in Nat /\ taken + 1 \in Numbers
    BY DEF TypeOK, Numbers
  <2>2. sent' = sent /\ batch' = Append(batch, taken + 1) /\ taken' = taken + 1
    BY <1>8, Zenon DEF AppendRead
  <2>3. sent \o Append(batch, taken + 1) = Append(sent \o batch, taken + 1)
    <3>1. /\ <<taken + 1>> \in Seq(Numbers)
          /\ Append(batch, taken + 1) = batch \o <<taken + 1>>
          /\ sent \o batch \in Seq(Numbers)
      BY <2>1, AppendIsConcat, ConcatProperties
    <3>2. Append(sent \o batch, taken + 1) = (sent \o batch) \o <<taken + 1>>
      BY <2>1, <3>1, AppendIsConcat, Zenon
    <3>3. (sent \o batch) \o <<taken + 1>> = sent \o (batch \o <<taken + 1>>)
      BY <2>1, <3>1, ConcatAssociative
    <3> QED  BY <3>1, <3>2, <3>3, Zenon
  <2>4. Append(UpTo(taken), taken + 1) = UpTo(taken + 1)
    BY <2>1, UpToLemma, Zenon
  <2>5. UpTo(taken)' = UpTo(taken + 1)
    BY <2>2, Zenon DEF UpTo
  <2> QED  BY <2>2, <2>3, <2>4, <2>5, Zenon DEF StreamIntact
<1>9. ASSUME ArmTimer PROVE StreamIntact'
  BY <1>9, Zenon DEF ArmTimer, StreamIntact, UpTo
<1>10. ASSUME SignalError PROVE StreamIntact'
  BY <1>10, Zenon DEF SignalError, StreamIntact, UpTo
<1>11. ASSUME TakeSignal PROVE StreamIntact'
  BY <1>11, Zenon DEF TakeSignal, StreamIntact, UpTo
<1>12. ASSUME FlusherEnds PROVE StreamIntact'
  BY <1>12, Zenon DEF FlusherEnds, StreamIntact, UpTo
<1>13. ASSUME TimerFires PROVE StreamIntact'
  BY <1>13, Zenon DEF TimerFires, StreamIntact, UpTo
<1>14. ASSUME TimerSignals PROVE StreamIntact'
  BY <1>14, Zenon DEF TimerSignals, StreamIntact, UpTo
<1>15. ASSUME Quiet PROVE StreamIntact'
  BY <1>15, QuietStep, Zenon DEF Core, StreamIntact, UpTo
<1> HIDE DEF StreamIntact
<1> QED  BY <1>1, <1>2, <1>3, <1>4, <1>5, <1>6, <1>7, <1>8, <1>9, <1>10, <1>11, <1>12, <1>13, <1>14, <1>15, Zenon
     DEF Next, Quiet, ReadStep, FlusherStep, Flush

\* Every step keeps what holding batchMu means, and a fired timer heard.
LEMMA LockStep ==
  ASSUME TypeOK, LockInv, [Next]_vars
  PROVE  LockInv'
<1> USE DEF batching, inbound, world, ending
<1>1. ASSUME NEW g \in {"reader", "flusher"}, FlushEmpty(g) PROVE LockInv'
  BY <1>1, Zenon DEF FlushEmpty, WantsFlush, Resumes, Flushing, TypeOK, LockInv, Waker
<1>2. ASSUME NEW g \in {"reader", "flusher"}, FlushStarts(g) PROVE LockInv'
  BY <1>2, Zenon DEF FlushStarts, WantsFlush, Flushing, TypeOK, LockInv, Waker
<1>3. ASSUME NEW g \in {"reader", "flusher"}, FlushSends(g) PROVE LockInv'
  BY <1>3, Zenon DEF FlushSends, Resumes, Flushing, TypeOK, LockInv, Waker
<1>4. ASSUME NEW g \in {"reader", "flusher"}, FlushFails(g) PROVE LockInv'
  BY <1>4, Zenon DEF FlushFails, Resumes, Flushing, TypeOK, LockInv, Waker
<1>5. ASSUME CheckContext PROVE LockInv'
  BY <1>5, Zenon DEF CheckContext, Flushing, TypeOK, LockInv, Waker
<1>6. ASSUME ReadData PROVE LockInv'
  BY <1>6, Zenon DEF ReadData, TypeOK, LockInv, Waker, Flushing
<1>7. ASSUME ReadFails PROVE LockInv'
  BY <1>7, Zenon DEF ReadFails, Flushing, TypeOK, LockInv, Waker
<1>8. ASSUME AppendRead PROVE LockInv'
  BY <1>8, Zenon DEF AppendRead, Flushing, TypeOK, LockInv, Waker
<1>9. ASSUME ArmTimer PROVE LockInv'
  BY <1>9, Zenon DEF ArmTimer, TypeOK, LockInv, Waker, Flushing
<1>10. ASSUME SignalError PROVE LockInv'
  BY <1>10, Zenon DEF SignalError, Flushing, TypeOK, LockInv, Waker
<1>11. ASSUME TakeSignal PROVE LockInv'
  BY <1>11, Zenon DEF TakeSignal, TypeOK, LockInv, Waker, Flushing
<1>12. ASSUME FlusherEnds PROVE LockInv'
  BY <1>12, Zenon DEF FlusherEnds, TypeOK, LockInv, Waker, Flushing
<1>13. ASSUME TimerFires PROVE LockInv'
  BY <1>13 DEF TimerFires, TypeOK, LockInv, Waker, Flushing
<1>14. ASSUME TimerSignals PROVE LockInv'
  BY <1>14, Zenon DEF TimerSignals, TypeOK, LockInv, Waker, Flushing
<1>15. ASSUME Quiet PROVE LockInv'
  BY <1>15, QuietStep, Zenon DEF Core, LockInv, Waker
<1> HIDE DEF LockInv
<1> QED  BY <1>1, <1>2, <1>3, <1>4, <1>5, <1>6, <1>7, <1>8, <1>9, <1>10, <1>11, <1>12, <1>13, <1>14, <1>15, Zenon
     DEF Next, Quiet, ReadStep, FlusherStep, Flush

\* Every step leaves a waiting batch a waker.
LEMMA WakerStep ==
  ASSUME TypeOK, LockInv, BatchHasWaker, [Next]_vars
  PROVE  BatchHasWaker'
<1> USE DEF batching, inbound, world, ending
<1>1. ASSUME NEW g \in {"reader", "flusher"}, FlushEmpty(g) PROVE BatchHasWaker'
  BY <1>1, Zenon DEF FlushEmpty, WantsFlush, Resumes, Flushing, TypeOK, LockInv, BatchHasWaker, Waker
<1>2. ASSUME NEW g \in {"reader", "flusher"}, FlushStarts(g) PROVE BatchHasWaker'
  BY <1>2, Zenon DEF FlushStarts, WantsFlush, Flushing, TypeOK, LockInv, BatchHasWaker, Waker
<1>3. ASSUME NEW g \in {"reader", "flusher"}, FlushSends(g) PROVE BatchHasWaker'
  BY <1>3, Zenon DEF FlushSends, Resumes, Flushing, TypeOK, LockInv, BatchHasWaker, Waker
<1>4. ASSUME NEW g \in {"reader", "flusher"}, FlushFails(g) PROVE BatchHasWaker'
  BY <1>4, Zenon DEF FlushFails, Resumes, Flushing, TypeOK, LockInv, BatchHasWaker, Waker
<1>5. ASSUME CheckContext PROVE BatchHasWaker'
  BY <1>5, Zenon DEF CheckContext, Flushing, TypeOK, LockInv, BatchHasWaker, Waker
<1>6. ASSUME ReadData PROVE BatchHasWaker'
  BY <1>6, Zenon DEF ReadData, TypeOK, LockInv, BatchHasWaker, Waker
<1>7. ASSUME ReadFails PROVE BatchHasWaker'
  BY <1>7, Zenon DEF ReadFails, Flushing, TypeOK, LockInv, BatchHasWaker, Waker
<1>8. ASSUME AppendRead PROVE BatchHasWaker'
  BY <1>8, Zenon DEF AppendRead, Flushing, TypeOK, LockInv, BatchHasWaker, Waker
<1>9. ASSUME ArmTimer PROVE BatchHasWaker'
  BY <1>9, Zenon DEF ArmTimer, TypeOK, LockInv, BatchHasWaker, Waker
<1>10. ASSUME SignalError PROVE BatchHasWaker'
  BY <1>10, Zenon DEF SignalError, Flushing, TypeOK, LockInv, BatchHasWaker, Waker
<1>11. ASSUME TakeSignal PROVE BatchHasWaker'
  BY <1>11, Zenon DEF TakeSignal, TypeOK, LockInv, BatchHasWaker, Waker
<1>12. ASSUME FlusherEnds PROVE BatchHasWaker'
  BY <1>12, Zenon DEF FlusherEnds, TypeOK, LockInv, BatchHasWaker, Waker
<1>13. ASSUME TimerFires PROVE BatchHasWaker'
  BY <1>13 DEF TimerFires, TypeOK, LockInv, BatchHasWaker, Waker
<1>14. ASSUME TimerSignals PROVE BatchHasWaker'
  BY <1>14, Zenon DEF TimerSignals, TypeOK, LockInv, BatchHasWaker, Waker
<1>15. ASSUME Quiet PROVE BatchHasWaker'
  BY <1>15, QuietStep, Zenon DEF Core, BatchHasWaker, Waker
<1> HIDE DEF BatchHasWaker
<1> QED  BY <1>1, <1>2, <1>3, <1>4, <1>5, <1>6, <1>7, <1>8, <1>9, <1>10, <1>11, <1>12, <1>13, <1>14, <1>15, Zenon
     DEF Next, Quiet, ReadStep, FlusherStep, Flush
-----------------------------------------------------------------------------
(* The end of the stream.                                                  *)

\* An error that is offered is the only new one.
LEMMA OfferedLemma ==
  ASSUME TypeOK, NEW e \in {"read", "failure"}
  PROVE  \A i \in DOMAIN Offered(e) : Offered(e)[i] = e \/ (i \in DOMAIN errors /\ Offered(e)[i] = errors[i])
<1>1. errors \in Seq({"read", "failure"})
  BY Zenon DEF TypeOK
<1>2. CASE Len(errors) < 2
  BY <1>1, <1>2, AppendProperties DEF Offered
<1>3. CASE ~(Len(errors) < 2)
  BY <1>3, Zenon DEF Offered
<1> QED  BY <1>2, <1>3, Zenon

\* Every step keeps the end behind the last payload, and told once.
LEMMA EndStep ==
  ASSUME TypeOK, LockInv, EndInv, [Next]_vars
  PROVE  EndInv'
<1> USE DEF batching, inbound, world, ending
<1>1. ASSUME NEW g \in {"reader", "flusher"}, FlushEmpty(g) PROVE EndInv'
  BY <1>1, Zenon DEF FlushEmpty, WantsFlush, Resumes, Flushing, TypeOK, LockInv, EndInv, EndReported
<1>2. ASSUME NEW g \in {"reader", "flusher"}, FlushStarts(g) PROVE EndInv'
  BY <1>2, Zenon DEF FlushStarts, WantsFlush, TypeOK, LockInv, EndInv, EndReported
<1>3. ASSUME NEW g \in {"reader", "flusher"}, FlushSends(g) PROVE EndInv'
  BY <1>3, Zenon DEF FlushSends, Resumes, Flushing, TypeOK, LockInv, EndInv, EndReported
<1>4. ASSUME NEW g \in {"reader", "flusher"}, FlushFails(g) PROVE EndInv'
  BY <1>4, Zenon DEF FlushFails, EndInv
<1>5. ASSUME CheckContext PROVE EndInv'
  BY <1>5, Zenon DEF CheckContext, TypeOK, EndInv, EndReported
<1>6. ASSUME ReadData PROVE EndInv'
  BY <1>6, Zenon DEF ReadData, TypeOK, EndInv, EndReported
<1>7. ASSUME ReadFails PROVE EndInv'
  BY <1>7, Zenon DEF ReadFails, TypeOK, EndInv, EndReported
<1>8. ASSUME AppendRead PROVE EndInv'
  BY <1>8, Zenon DEF AppendRead, TypeOK, EndInv, EndReported
<1>9. ASSUME ArmTimer PROVE EndInv'
  BY <1>9, Zenon DEF ArmTimer, TypeOK, EndInv, EndReported
<1>10. ASSUME SignalError PROVE EndInv'
  <2>1. ~failed => batch = <<>>
    BY <1>10, Zenon DEF SignalError, EndInv
  <2>2. reader' = "exit" /\ UNCHANGED <<side, batch, owner, told, failed>>
    BY <1>10, Zenon DEF SignalError
  <2> QED  BY <2>1, <2>2, Zenon DEF EndInv
<1>11. ASSUME TakeSignal PROVE EndInv'
  BY <1>11, Zenon DEF TakeSignal, TypeOK, EndInv, EndReported
<1>12. ASSUME FlusherEnds PROVE EndInv'
  BY <1>12, Zenon DEF FlusherEnds, TypeOK, EndInv, EndReported
<1>13. ASSUME TimerFires PROVE EndInv'
  BY <1>13, Zenon DEF TimerFires, TypeOK, EndInv, EndReported
<1>14. ASSUME TimerSignals PROVE EndInv'
  BY <1>14, Zenon DEF TimerSignals, TypeOK, EndInv, EndReported
<1>15. ASSUME TakeMessage PROVE EndInv'
  BY <1>15, Zenon DEF TakeMessage, TypeOK, EndInv, EndReported
<1>16. ASSUME WriteMessage PROVE EndInv'
  BY <1>16, Zenon DEF WriteMessage, TypeOK, EndInv, EndReported
<1>17. ASSUME WriteFails PROVE EndInv'
  BY <1>17, Zenon DEF WriteFails, TypeOK, EndInv, EndReported
<1>18. ASSUME ReportFailure PROVE EndInv'
  <2>1. errors' = Offered("failure") /\ UNCHANGED <<side, reader, batch, owner, reason, told, failed>>
    BY <1>18, Zenon DEF ReportFailure, Offered
  <2>2. EndReported' => EndReported
    BY <2>1, OfferedLemma, Zenon DEF EndReported
  <2> QED  BY <2>1, <2>2, Zenon DEF EndInv
<1>19. ASSUME StartDrain PROVE EndInv'
  BY <1>19, Zenon DEF StartDrain, TypeOK, EndInv, EndReported
<1>20. ASSUME DrainEnds PROVE EndInv'
  BY <1>20, Zenon DEF DrainEnds, TypeOK, EndInv, EndReported
<1>21. ASSUME OwnerTakesError PROVE EndInv'
  <2>1. errors \in Seq({"read", "failure"}) /\ errors # <<>>
    BY <1>21, Zenon DEF OwnerTakesError, TypeOK
  <2>2. /\ errors' = Tail(errors) /\ owner' = "leaving" /\ reason' = Head(errors)
        /\ told' = "read" => Head(errors) = "read" \/ told = "read"
        /\ side = "socks" => told' = told
        /\ owner = "waiting"
        /\ UNCHANGED <<side, reader, batch, failed>>
    BY <1>21, Zenon DEF OwnerTakesError, Wakes, Disconnects
  <2>3. /\ Head(errors) = errors[1] /\ 1 \in DOMAIN errors
        /\ \A i \in DOMAIN Tail(errors) : i + 1 \in DOMAIN errors /\ Tail(errors)[i] = errors[i + 1]
    BY <2>1
  <2>4. EndReported' => EndReported
    BY <2>2, <2>3, Zenon DEF EndReported
  <2> QED  BY <2>2, <2>4, Zenon DEF EndInv
<1>22. ASSUME OwnerCancelled PROVE EndInv'
  BY <1>22, Zenon DEF OwnerCancelled, Wakes, Disconnects, TypeOK, EndInv, EndReported
<1>23. ASSUME OwnerDone PROVE EndInv'
  BY <1>23, Zenon DEF OwnerDone, Wakes, Disconnects, TypeOK, EndInv, EndReported
<1>24. ASSUME OwnerLeaves PROVE EndInv'
  BY <1>24, Zenon DEF OwnerLeaves, Disconnects, TypeOK, EndInv, EndReported
<1>25. ASSUME OwnerGone PROVE EndInv'
  BY <1>25, Zenon DEF OwnerGone, TypeOK, EndInv, EndReported
<1>26. ASSUME CleanupCancels PROVE EndInv'
  BY <1>26, Zenon DEF CleanupCancels, TypeOK, EndInv, EndReported
<1>27. ASSUME CleanupCloses PROVE EndInv'
  BY <1>27, Zenon DEF CleanupCloses, TypeOK, EndInv, EndReported
<1>28. ASSUME DataArrives PROVE EndInv'
  BY <1>28, Zenon DEF DataArrives, TypeOK, EndInv, EndReported
<1>29. ASSUME PeerDisconnects PROVE EndInv'
  BY <1>29, Zenon DEF PeerDisconnects, TypeOK, EndInv, EndReported
<1>30. ASSUME IdleTimeout PROVE EndInv'
  BY <1>30, Zenon DEF IdleTimeout, TypeOK, EndInv, EndReported
<1>31. ASSUME ConnEnds PROVE EndInv'
  BY <1>31, Zenon DEF ConnEnds, TypeOK, EndInv, EndReported
<1>32. ASSUME LinkDrops PROVE EndInv'
  BY <1>32, Zenon DEF LinkDrops, TypeOK, EndInv, EndReported
<1>33. ASSUME LinkReturns PROVE EndInv'
  BY <1>33, Zenon DEF LinkReturns, TypeOK, EndInv, EndReported
<1>34. ASSUME UNCHANGED vars PROVE EndInv'
  BY <1>34, Zenon DEF vars, EndInv, EndReported
<1> HIDE DEF EndInv
<1> QED  BY <1>1, <1>2, <1>3, <1>4, <1>5, <1>6, <1>7, <1>8, <1>9, <1>10, <1>11, <1>12, <1>13, <1>14, <1>15, <1>16, <1>17, <1>18, <1>19, <1>20, <1>21, <1>22, <1>23, <1>24, <1>25, <1>26, <1>27, <1>28, <1>29, <1>30, <1>31, <1>32, <1>33, <1>34, Zenon
     DEF Next, ReadStep, FlusherStep, WriterStep, OwnerStep, CleanupStep, World, Flush

\* A step that leaves the payloads, the failures and what the peer was told
\* alone is a stuttering step of the pipe.
LEMMA PipeStutter ==
  ASSUME UNCHANGED <<taken, sent, failed, told>>
  PROVE  UNCHANGED Stream!pipe
BY Zenon DEF Stream!pipe

\* Telling the peer that the connection ended announces the end of the pipe.
LEMMA PipeAnnounce ==
  ASSUME TypeOK, StreamIntact, EndInv, UNCHANGED <<taken, sent, failed>>, told = "no",
         NEW why \in {"none", "read", "failure"}, Disconnects(why), why = "read" => EndReported
  PROVE  Stream!Announce \/ UNCHANGED Stream!pipe
<1>1. CASE ~failed /\ told' = "read"
  <2>1. why = "read"
    BY <1>1, Zenon DEF Disconnects
  <2>2. batch = <<>>
    BY <1>1, <2>1, Zenon DEF EndInv
  <2>3. sent \in Seq(Numbers) /\ sent = UpTo(taken)
    BY <2>2, ConcatEmptySeq, Zenon DEF StreamIntact, TypeOK
  <2>4. ~failed /\ ~failed' /\ told # "read" /\ told' = "read"
    BY <1>1, Zenon
  <2>5. Stream!UpTo(taken) = UpTo(taken)
    BY Zenon DEF Stream!UpTo, UpTo
  <2> QED  BY <2>3, <2>4, <2>5, Zenon DEF Stream!Announce
<1>2. CASE failed \/ told' # "read"
  <2>1. (IF failed THEN "broken" ELSE IF told = "read" THEN "announced" ELSE "open")'
        = IF failed THEN "broken" ELSE IF told = "read" THEN "announced" ELSE "open"
    BY <1>2, Zenon
  <2> QED  BY <2>1, Zenon DEF Stream!pipe
<1> QED  BY <1>1, <1>2, Zenon

\* Every step is a step of the pipe or leaves it alone.
LEMMA PipeStep ==
  ASSUME TypeOK, LockInv, StreamIntact, EndInv, StreamIntact', [Next]_vars
  PROVE  [Stream!Next]_(Stream!pipe)
<1> DEFINE Same == UNCHANGED <<taken, sent, failed, told>>
<1> USE DEF batching, inbound, world, ending
<1>1. ASSUME NEW g \in {"reader", "flusher"}, FlushEmpty(g) PROVE Same
  BY <1>1, Zenon DEF FlushEmpty
<1>2. ASSUME NEW g \in {"reader", "flusher"}, FlushStarts(g) PROVE Same
  BY <1>2, Zenon DEF FlushStarts
<1>3. ASSUME CheckContext PROVE Same
  BY <1>3, Zenon DEF CheckContext
<1>4. ASSUME ReadData PROVE Same
  BY <1>4, Zenon DEF ReadData
<1>5. ASSUME ReadFails PROVE Same
  BY <1>5, Zenon DEF ReadFails
<1>6. ASSUME ArmTimer PROVE Same
  BY <1>6, Zenon DEF ArmTimer
<1>7. ASSUME SignalError PROVE Same
  BY <1>7, Zenon DEF SignalError
<1>8. ASSUME TakeSignal PROVE Same
  BY <1>8, Zenon DEF TakeSignal
<1>9. ASSUME FlusherEnds PROVE Same
  BY <1>9, Zenon DEF FlusherEnds
<1>10. ASSUME TimerFires PROVE Same
  BY <1>10, Zenon DEF TimerFires
<1>11. ASSUME TimerSignals PROVE Same
  BY <1>11, Zenon DEF TimerSignals
<1>12. ASSUME OwnerCancelled PROVE Same
  BY <1>12, Zenon DEF OwnerCancelled, Wakes
<1>13. ASSUME OwnerDone PROVE Same
  BY <1>13, Zenon DEF OwnerDone, Wakes
<1>14. ASSUME OwnerGone PROVE Same
  BY <1>14, Zenon DEF OwnerGone
<1>15. ASSUME CleanupCancels PROVE Same
  BY <1>15, Zenon DEF CleanupCancels
<1>16. ASSUME CleanupCloses PROVE Same
  BY <1>16, Zenon DEF CleanupCloses
<1>17. ASSUME DataArrives PROVE Same
  BY <1>17, Zenon DEF DataArrives
<1>18. ASSUME PeerDisconnects PROVE Same
  BY <1>18, Zenon DEF PeerDisconnects
<1>19. ASSUME IdleTimeout PROVE Same
  BY <1>19, Zenon DEF IdleTimeout
<1>20. ASSUME ConnEnds PROVE Same
  BY <1>20, Zenon DEF ConnEnds
<1>21. ASSUME LinkDrops PROVE Same
  BY <1>21, Zenon DEF LinkDrops
<1>22. ASSUME LinkReturns PROVE Same
  BY <1>22, Zenon DEF LinkReturns
<1>23. ASSUME TakeMessage PROVE Same
  BY <1>23, Zenon DEF TakeMessage
<1>24. ASSUME WriteMessage PROVE Same
  BY <1>24, Zenon DEF WriteMessage
<1>25. ASSUME WriteFails PROVE Same
  BY <1>25, Zenon DEF WriteFails
<1>26. ASSUME ReportFailure PROVE Same
  BY <1>26, Zenon DEF ReportFailure
<1>27. ASSUME StartDrain PROVE Same
  BY <1>27, Zenon DEF StartDrain
<1>28. ASSUME DrainEnds PROVE Same
  BY <1>28, Zenon DEF DrainEnds
<1>29. ASSUME UNCHANGED vars PROVE Same
  BY <1>29, Zenon DEF vars
<1>30. ASSUME AppendRead PROVE [Stream!Next]_(Stream!pipe)
  <2>1. ~(~failed /\ told = "read")
    BY <1>30, Zenon DEF AppendRead, EndInv, EndReported
  <2>2. taken' = taken + 1 /\ UNCHANGED <<sent, failed, told>>
    BY <1>30, Zenon DEF AppendRead
  <2>3. Stream!Take
    BY <2>1, <2>2, Zenon DEF Stream!Take
  <2> QED  BY <2>3, Zenon DEF Stream!Next
<1>31. ASSUME NEW g \in {"reader", "flusher"}, FlushSends(g) PROVE [Stream!Next]_(Stream!pipe)
  <2>1. batch # <<>> /\ sent \in Seq(Numbers) /\ batch \in Seq(Numbers) /\ taken \in Nat
    BY <1>31, Zenon DEF FlushSends, LockInv, TypeOK
  <2>2. ~(~failed /\ told = "read")
    BY <2>1, Zenon DEF EndInv, EndReported
  <2>3. sent' = sent \o batch /\ UNCHANGED <<taken, failed, told>>
    BY <1>31, Zenon DEF FlushSends
  <2>4. sent' = Stream!UpTo(taken)
    BY <2>3, Zenon DEF StreamIntact, UpTo, Stream!UpTo
  <2>5. Len(UpTo(taken)) = taken
    BY <2>1, UpToLemma, Zenon
  <2>6. Len(sent \o batch) = Len(sent) + Len(batch) /\ Len(batch) > 0 /\ Len(sent) \in Nat /\ Len(batch) \in Nat
    BY <2>1, ConcatProperties
  <2>7. taken \in Len(sent) + 1 .. taken
    BY <2>1, <2>5, <2>6 DEF StreamIntact
  <2>8. Stream!Give
    BY <2>2, <2>3, <2>4, <2>7, Zenon DEF Stream!Give
  <2> QED  BY <2>8, Zenon DEF Stream!Next
<1>32. ASSUME NEW g \in {"reader", "flusher"}, FlushFails(g) PROVE [Stream!Next]_(Stream!pipe)
  <2>1. batch # <<>>
    BY <1>32, Zenon DEF FlushFails, LockInv
  <2>2. ~(~failed /\ told = "read")
    BY <2>1, Zenon DEF EndInv, EndReported
  <2>3. failed' /\ UNCHANGED <<taken, sent, told>>
    BY <1>32, Zenon DEF FlushFails
  <2>4. CASE failed
    BY <2>3, <2>4, Zenon DEF Stream!pipe
  <2>5. CASE ~failed
    <3>1. Stream!Break
      BY <2>2, <2>3, <2>5, Zenon DEF Stream!Break
    <3> QED  BY <3>1, Zenon DEF Stream!Next
  <2> QED  BY <2>4, <2>5, Zenon
<1>33. ASSUME OwnerTakesError PROVE [Stream!Next]_(Stream!pipe)
  <2>1. CASE side = "remote"
    <3>1. /\ UNCHANGED <<taken, sent, failed>> /\ owner = "waiting"
          /\ errors # <<>> /\ errors \in Seq({"read", "failure"})
      BY <1>33, Zenon DEF OwnerTakesError, Wakes, TypeOK
    <3>2. told = "no"
      BY <3>1, Zenon DEF EndInv
    <3>3. Head(errors) \in {"read", "failure"} /\ (Head(errors) = "read" => EndReported)
      BY <3>1 DEF EndReported
    <3>4. Disconnects(Head(errors))
      BY <1>33, <2>1, <3>3, Zenon DEF OwnerTakesError, Wakes
    <3>5. Stream!Announce \/ UNCHANGED Stream!pipe
      BY <3>1, <3>2, <3>3, <3>4, PipeAnnounce, Zenon
    <3> QED  BY <3>5, Zenon DEF Stream!Next
  <2>2. CASE side # "remote"
    <3>1. Same
      BY <1>33, <2>2, Zenon DEF OwnerTakesError, Wakes
    <3> QED  BY <3>1, PipeStutter, Zenon
  <2> QED  BY <2>1, <2>2, Zenon
<1>34. ASSUME OwnerLeaves PROVE [Stream!Next]_(Stream!pipe)
  <2>1. CASE side = "socks"
    <3>1. UNCHANGED <<taken, sent, failed>> /\ owner = "leaving" /\ reason \in {"none", "read", "failure"}
      BY <1>34, Zenon DEF OwnerLeaves, TypeOK
    <3>2. told = "no" /\ (reason = "read" => EndReported)
      BY <2>1, <3>1, Zenon DEF EndInv, EndReported
    <3>3. Disconnects(reason)
      BY <1>34, <2>1, Zenon DEF OwnerLeaves
    <3>4. Stream!Announce \/ UNCHANGED Stream!pipe
      BY <3>1, <3>2, <3>3, PipeAnnounce, Zenon
    <3> QED  BY <3>4, Zenon DEF Stream!Next
  <2>2. CASE side # "socks"
    <3>1. Same
      BY <1>34, <2>2, Zenon DEF OwnerLeaves
    <3> QED  BY <3>1, PipeStutter, Zenon
  <2> QED  BY <2>1, <2>2, Zenon
<1>35. Same => [Stream!Next]_(Stream!pipe)
  BY PipeStutter, Zenon
<1> HIDE DEF Same
<1> QED  BY <1>1, <1>2, <1>3, <1>4, <1>5, <1>6, <1>7, <1>8, <1>9, <1>10, <1>11, <1>12, <1>13, <1>14, <1>15, <1>16, <1>17, <1>18, <1>19, <1>20, <1>21, <1>22, <1>23, <1>24, <1>25, <1>26, <1>27, <1>28, <1>29, <1>30, <1>31, <1>32, <1>33, <1>34, <1>35, Zenon
     DEF Next, ReadStep, FlusherStep, WriterStep, OwnerStep, CleanupStep, World, Flush

-----------------------------------------------------------------------------
(* The theorems.                                                           *)

\* IInv is an invariant.
THEOREM Invariance == Spec => []IInv
<1>1. Init => IInv
  <2> SUFFICES ASSUME Init PROVE IInv
    BY Zenon
  <2>1. TypeOK
    <3>1. signal \in BOOLEAN /\ fresh \in BOOLEAN /\ cancelled \in BOOLEAN /\ failed \in BOOLEAN
      BY Zenon DEF Init
    <3>2. /\ side \in {"socks", "remote"} /\ reader = "check" /\ mu = "free" /\ taken = 0 /\ batch = <<>>
          /\ delay = 0 /\ timer = "nil" /\ firing = 0 /\ flusher = "wait" /\ sent = <<>>
          /\ conn = "open" /\ link = "up" /\ breaks = 0 /\ errors = <<>>
      BY Zenon DEF Init
    <3>3. /\ writer = "loop" /\ item = 0 /\ queue = <<>> /\ arrived = 0 /\ written = <<>>
          /\ owner = "waiting" /\ reason = "none" /\ told = "no" /\ cleanup = "none"
      BY Zenon DEF Init
    <3> QED  BY <3>1, <3>2, <3>3, ForwardAssumption DEF TypeOK, Numbers
  <2>2. LockInv /\ BatchHasWaker
    BY Zenon DEF Init, LockInv, BatchHasWaker
  <2>3. StreamIntact
    BY DEF Init, StreamIntact, UpTo
  <2>4. EndInv
    BY DEF Init, EndInv, EndReported
  <2> QED  BY <2>1, <2>2, <2>3, <2>4, Zenon DEF IInv
<1>2. IInv /\ [Next]_vars => IInv'
  <2> SUFFICES ASSUME IInv, [Next]_vars PROVE IInv'
    BY Zenon
  <2>1. TypeOK /\ LockInv /\ StreamIntact /\ BatchHasWaker /\ EndInv
    BY Zenon DEF IInv
  <2> QED  BY <2>1, TypeStep, LockStep, StreamStep, WakerStep, EndStep, Zenon DEF IInv
<1> QED  BY <1>1, <1>2, PTL DEF Spec

\* The types of the forwarding loops hold in every reachable state.
THEOREM TypeCorrect == Spec => []TypeOK
<1>1. IInv => TypeOK
  BY Zenon DEF IInv
<1> QED  BY <1>1, Invariance, PTL

\* What was read is what was sent followed by the batch, in every reachable
\* state.
THEOREM StreamIntactHolds == Spec => []StreamIntact
<1>1. IInv => StreamIntact
  BY Zenon DEF IInv
<1> QED  BY <1>1, Invariance, PTL

\* A batch that waits has something that will flush it, in every reachable
\* state.
THEOREM BatchHasWakerHolds == Spec => []BatchHasWaker
<1>1. IInv => BatchHasWaker
  BY Zenon DEF IInv
<1> QED  BY <1>1, Invariance, PTL

\* The read side implements Pipe: what reaches the channel is what was read, in
\* order, and a Disconnect that reports the end of the connection comes after
\* the last payload.
THEOREM Implementation == Spec => ImplementsPipe
<1>1. Init => Stream!Init
  BY Zenon DEF Init, Stream!Init
<1>2. IInv /\ IInv' /\ [Next]_vars => [Stream!Next]_(Stream!pipe)
  <2> SUFFICES ASSUME IInv, IInv', [Next]_vars PROVE [Stream!Next]_(Stream!pipe)
    BY Zenon
  <2>1. TypeOK /\ LockInv /\ StreamIntact /\ EndInv /\ StreamIntact'
    BY Zenon DEF IInv
  <2> QED  BY <2>1, PipeStep, Zenon
<1> QED  BY <1>1, <1>2, Invariance, PTL DEF Spec, ImplementsPipe, Stream!Spec

=============================================================================
