----------------------------- MODULE TCPForward -----------------------------
(***************************************************************************)
(* The goroutines that serve one established TCP channel at one end: the   *)
(* read loop with its batching, the goroutine that flushes when the batch  *)
(* timer expires, the loop that writes the channel's queue to the local    *)
(* connection, the handler that waits for them, and the relay's delayed    *)
(* cleanup.                                                                *)
(*                                                                         *)
(* linksocks/forwarder.go   DynamicForwarder.ProcessReads                  *)
(* linksocks/relay.go       HandleSocksTCPForward, HandleTCPConnection,    *)
(*                          HandleRemoteTCPForward, doCleanup,             *)
(*                          channelCleaner                                 *)
(*                                                                         *)
(* The entry of the channel ("socks") and the end that dialled the target  *)
(* ("remote") differ in how the handler leaves; side says which one this   *)
(* is.  Payloads of the local connection are numbered as they are read,    *)
(* payloads of the peer as they arrive.                                    *)
(***************************************************************************)
EXTENDS Naturals, Sequences

CONSTANTS MaxReads,    \* bound on the payloads read from the connection
          MaxArrivals, \* bound on the payloads the peer sends
          MaxBreaks,   \* bound on the losses of the transport link
          BufferSize,  \* RelayOption.BufferSize, in payloads
          QueueCap,    \* capacity of messageQueues[channel]
          MinDelay,    \* minBatchWaitTime
          MaxDelay,    \* maxBatchWaitTime
          DelayStep

ASSUME ForwardAssumption ==
  /\ MaxReads \in Nat /\ MaxArrivals \in Nat /\ MaxBreaks \in Nat
  /\ BufferSize \in Nat \ {0}
  /\ QueueCap \in Nat \ {0}
  /\ MinDelay \in Nat \ {0} /\ MaxDelay \in Nat /\ DelayStep \in Nat \ {0}

VARIABLES
  side,       \* "socks" or "remote"
  reader,     \* what the read loop is doing; "full", "error" and "exit" flush
  mu,         \* who holds batchMu while it writes: "free", "reader", "flusher"
  taken,      \* payloads appended to the batch so far
  batch,      \* currentBatchBuffer
  delay,      \* currentDelay
  timer,      \* batchTimer: "nil", "armed", or "fired" and not reset yet
  firing,     \* timer functions that run and have not signalled yet
  signal,     \* flushSignalChannel holds a signal
  fresh,      \* bytesSinceLastFlush > 0
  flusher,    \* the goroutine that handles timer expiry
  sent,       \* payloads written to the channel
  conn,       \* the local connection: "open", "eof" or "reset" by its peer, "closed" here
  link,       \* the transport under the channel: "up" or "down"
  breaks,     \* losses of the link so far
  cancelled,  \* the context of the forwarding loops is done
  errors,     \* errChan: the end of the connection ("read"), or a failed write
  writer,     \* the loop from the queue to the connection
  item,       \* the payload it holds
  queue,      \* messageQueues[channel]
  arrived,    \* payloads of the peer so far
  written,    \* payloads written to the connection
  owner,      \* the handler: "waiting", "leaving", "half" way out, "gone"
  reason,     \* the error the handler left with, or "none"
  told,       \* the Disconnect the peer was sent: "no", for "read", or for "other" reasons
  cleanup,    \* the channel's entry for cleanup: "none", "queued", "cancelled", "done"
  failed      \* history: a flush failed

batching == <<mu, taken, batch, delay, timer, firing, signal, fresh, flusher>>
inbound == <<writer, item, queue, arrived, written>>
world == <<conn, link, breaks>>
ending == <<owner, reason, told, cleanup>>
vars == <<side, reader, batching, sent, world, cancelled, errors, inbound, ending, failed>>

Flushing == {"full", "error", "exit"}
Numbers == Nat \ {0}

TypeOK ==
  /\ side \in {"socks", "remote"}
  /\ reader \in {"check", "read", "append", "arm", "signal", "done"} \cup Flushing
  /\ mu \in {"free", "reader", "flusher"}
  /\ taken \in Nat
  /\ batch \in Seq(Numbers)
  /\ delay \in Nat
  /\ timer \in {"nil", "armed", "fired"}
  /\ firing \in Nat
  /\ signal \in BOOLEAN
  /\ fresh \in BOOLEAN
  /\ flusher \in {"wait", "flush", "gone"}
  /\ sent \in Seq(Numbers)
  /\ conn \in {"open", "eof", "reset", "closed"}
  /\ link \in {"up", "down"}
  /\ breaks \in Nat
  /\ cancelled \in BOOLEAN
  /\ errors \in Seq({"read", "failure"}) /\ Len(errors) <= 2
  /\ writer \in {"loop", "write", "drain", "last", "report", "done"}
  /\ item \in Nat
  /\ queue \in Seq(Numbers) /\ Len(queue) <= QueueCap
  /\ arrived \in Nat
  /\ written \in Seq(Nat)
  /\ owner \in {"waiting", "leaving", "half", "gone"}
  /\ reason \in {"none", "read", "failure"}
  /\ told \in {"no", "read", "other"}
  /\ cleanup \in {"none", "queued", "cancelled", "done"}
  /\ failed \in BOOLEAN

Init ==
  /\ side \in {"socks", "remote"}
  /\ reader = "check" /\ mu = "free" /\ taken = 0 /\ batch = <<>>
  /\ delay = 0 /\ timer = "nil" /\ firing = 0 /\ signal = FALSE /\ fresh = FALSE
  /\ flusher = "wait" /\ sent = <<>>
  /\ conn = "open" /\ link = "up" /\ breaks = 0
  /\ cancelled = FALSE /\ errors = <<>>
  /\ writer = "loop" /\ item = 0 /\ queue = <<>> /\ arrived = 0 /\ written = <<>>
  /\ owner = "waiting" /\ reason = "none" /\ told = "no" /\ cleanup = "none" /\ failed = FALSE

-----------------------------------------------------------------------------
(* The flush, by either goroutine.                                         *)

\* A send that gives up when errChan is full.
Offered(e) == IF Len(errors) < 2 THEN Append(errors, e) ELSE errors

\* The delay for the next batch.  Without bytes since the last flush the speed
\* is zero, which is below both thresholds.
AdjustDelay(d, speed) ==
  CASE speed = "high" /\ d = 0 -> MinDelay
    [] speed = "high" /\ d > 0 -> IF d + DelayStep > MaxDelay THEN MaxDelay ELSE d + DelayStep
    [] speed = "low" -> 0
    [] speed = "medium" -> IF d = 0 THEN 0 ELSE IF d \div 2 < MinDelay THEN MinDelay ELSE d \div 2
Speeds == IF fresh THEN {"high", "medium", "low"} ELSE {"low"}

\* Where a goroutine goes on after its flush.
Resumes(g) ==
  IF g = "reader"
  THEN /\ reader' = CASE reader = "full" -> "check" [] reader = "error" -> "signal" [] OTHER -> "done"
       /\ cancelled' = (cancelled \/ (side = "socks" /\ reader = "exit"))
       /\ UNCHANGED flusher
  ELSE flusher' = "wait" /\ UNCHANGED <<reader, cancelled>>

WantsFlush(g) == IF g = "reader" THEN reader \in Flushing ELSE flusher = "flush"

\* Nothing to send.
FlushEmpty(g) ==
  /\ WantsFlush(g) /\ mu = "free" /\ batch = <<>>
  /\ timer' = "nil"
  /\ \E speed \in Speeds : delay' = AdjustDelay(delay, speed)
  /\ fresh' = FALSE
  /\ Resumes(g)
  /\ UNCHANGED <<side, mu, taken, batch, firing, signal, sent, world, errors, inbound, ending, failed>>

\* Mutant: the fired timer is not reset.
FlushStartsKeepsTimer(g) ==
  /\ WantsFlush(g) /\ mu = "free" /\ batch # <<>>
  /\ mu' = g
  /\ UNCHANGED <<side, reader, taken, batch, delay, timer, firing, signal, fresh, flusher, sent, world, cancelled,
                 errors, inbound, ending, failed>>

\* The batch is written under batchMu, so that the write can take long.  A
\* timer that has fired already cannot be stopped.
FlushStarts(g) ==
  /\ WantsFlush(g) /\ mu = "free" /\ batch # <<>>
  /\ mu' = g
  /\ timer' = "nil"
  /\ UNCHANGED <<side, reader, taken, batch, delay, firing, signal, fresh, flusher, sent, world, cancelled,
                 errors, inbound, ending, failed>>

FlushSends(g) ==
  /\ mu = g /\ link = "up" /\ cleanup # "done"
  /\ mu' = "free"
  /\ sent' = sent \o batch
  /\ batch' = <<>>
  /\ \E speed \in Speeds : delay' = AdjustDelay(delay, speed)
  /\ fresh' = FALSE
  /\ Resumes(g)
  /\ UNCHANGED <<side, taken, timer, firing, signal, world, errors, inbound, ending, failed>>

\* Mutant: the batch is reset although its write failed.
FlushFailsDrops(g) ==
  /\ mu = g /\ (link = "down" \/ cleanup = "done")
  /\ mu' = "free"
  /\ batch' = <<>>
  /\ errors' = Offered("failure")
  /\ failed' = TRUE
  /\ Resumes(g)
  /\ UNCHANGED <<side, taken, delay, timer, firing, signal, fresh, sent, world, inbound, ending>>

\* The channel is closed, or the link stayed down for the whole grace window,
\* or the context ended the wait.  The batch is kept.
FlushFails(g) ==
  /\ mu = g /\ (link = "down" \/ cleanup = "done")
  /\ mu' = "free"
  /\ errors' = Offered("failure")
  /\ failed' = TRUE
  /\ Resumes(g)
  /\ UNCHANGED <<side, taken, batch, delay, timer, firing, signal, fresh, sent, world, inbound, ending>>

-----------------------------------------------------------------------------
(* The read loop.                                                          *)

CheckContext ==
  /\ reader = "check"
  /\ reader' = IF cancelled THEN "exit" ELSE "read"
  /\ UNCHANGED <<side, batching, sent, world, cancelled, errors, inbound, ending, failed>>

ReadData ==
  /\ reader = "read" /\ conn = "open" /\ taken < MaxReads
  /\ reader' = "append"
  /\ UNCHANGED <<side, batching, sent, world, cancelled, errors, inbound, ending, failed>>

\* Mutant: the error is reported before the batch is sent.
ReadFailsSignalsFirst ==
  /\ reader = "read" /\ conn # "open"
  /\ reader' = "signal"
  /\ UNCHANGED <<side, batching, sent, world, cancelled, errors, inbound, ending, failed>>

\* What is in the batch is sent before the error is reported.
ReadFails ==
  /\ reader = "read" /\ conn # "open"
  /\ reader' = "error"
  /\ UNCHANGED <<side, batching, sent, world, cancelled, errors, inbound, ending, failed>>

\* Appending, and the decision how the batch will be sent.
AppendRead ==
  /\ reader = "append" /\ mu = "free"
  /\ taken' = taken + 1
  /\ batch' = Append(batch, taken + 1)
  /\ fresh' = TRUE
  /\ reader' = IF Len(batch) + 1 >= BufferSize \/ delay = 0 THEN "full"
               ELSE IF timer = "nil" THEN "arm" ELSE "check"
  /\ UNCHANGED <<side, mu, delay, timer, firing, signal, flusher, sent, world, cancelled, errors, inbound, ending, failed>>

ArmTimer ==
  /\ reader = "arm" /\ mu = "free"
  /\ timer' = IF timer = "nil" THEN "armed" ELSE timer
  /\ reader' = "check"
  /\ UNCHANGED <<side, mu, taken, batch, delay, firing, signal, fresh, flusher, sent, world, cancelled, errors,
                 inbound, ending, failed>>

\* Mutant: the report waits for room in errChan.
SignalErrorBlocks ==
  /\ reader = "signal" /\ Len(errors) < 2
  /\ errors' = Append(errors, "read")
  /\ reader' = "exit"
  /\ UNCHANGED <<side, batching, sent, world, cancelled, inbound, ending, failed>>

SignalError ==
  /\ reader = "signal"
  /\ errors' = Offered("read")
  /\ reader' = "exit"
  /\ UNCHANGED <<side, batching, sent, world, cancelled, inbound, ending, failed>>

-----------------------------------------------------------------------------
(* The timer and the goroutine that handles its expiry.                    *)

TimerFires ==
  /\ timer = "armed"
  /\ timer' = "fired"
  /\ firing' = firing + 1
  /\ UNCHANGED <<side, reader, mu, taken, batch, delay, signal, fresh, flusher, sent, world, cancelled, errors,
                 inbound, ending, failed>>

\* A signal that finds another one pending is dropped.
TimerSignals ==
  /\ firing > 0
  /\ firing' = firing - 1
  /\ signal' = TRUE
  /\ UNCHANGED <<side, reader, mu, taken, batch, delay, timer, fresh, flusher, sent, world, cancelled, errors,
                 inbound, ending, failed>>

TakeSignal ==
  /\ flusher = "wait" /\ signal
  /\ signal' = FALSE
  /\ flusher' = "flush"
  /\ UNCHANGED <<side, reader, mu, taken, batch, delay, timer, firing, fresh, sent, world, cancelled, errors,
                 inbound, ending, failed>>

FlusherEnds ==
  /\ flusher = "wait" /\ cancelled
  /\ flusher' = "gone"
  /\ UNCHANGED <<side, reader, mu, taken, batch, delay, timer, firing, signal, fresh, sent, world, cancelled,
                 errors, inbound, ending, failed>>

-----------------------------------------------------------------------------
(* The loop from the queue to the local connection.                        *)

\* Mutant: the queue has no limit.
DataArrivesUnbounded ==
  /\ arrived < MaxArrivals /\ cleanup # "done" /\ link = "up"
  /\ arrived' = arrived + 1
  /\ queue' = Append(queue, arrived + 1)
  /\ UNCHANGED <<side, reader, batching, sent, world, cancelled, errors, writer, item, written, ending, failed>>

\* A dispatcher of the transport delivers a payload while the queue is
\* registered; a full queue drops it.
DataArrives ==
  /\ arrived < MaxArrivals /\ cleanup # "done" /\ link = "up"
  /\ arrived' = arrived + 1
  /\ queue' = IF Len(queue) < QueueCap THEN Append(queue, arrived + 1) ELSE queue
  /\ UNCHANGED <<side, reader, batching, sent, world, cancelled, errors, writer, item, written, ending, failed>>

TakeMessage ==
  /\ writer \in {"loop", "drain"} /\ queue # <<>>
  /\ item' = Head(queue)
  /\ queue' = Tail(queue)
  /\ writer' = IF writer = "loop" THEN "write" ELSE "last"
  /\ UNCHANGED <<side, reader, batching, sent, world, cancelled, errors, arrived, written, ending, failed>>

WriteMessage ==
  /\ writer \in {"write", "last"} /\ conn \in {"open", "eof"}
  /\ written' = Append(written, item)
  /\ item' = 0
  /\ writer' = IF writer = "write" THEN "loop" ELSE "drain"
  /\ UNCHANGED <<side, reader, batching, sent, world, cancelled, errors, queue, arrived, ending, failed>>

WriteFails ==
  /\ writer \in {"write", "last"} /\ conn \in {"reset", "closed"}
  /\ item' = 0
  /\ writer' = "report"
  /\ UNCHANGED <<side, reader, batching, sent, world, cancelled, errors, queue, arrived, written, ending, failed>>

\* This send into errChan waits for room.
ReportFailure ==
  /\ writer = "report" /\ Len(errors) < 2
  /\ errors' = Append(errors, "failure")
  /\ writer' = "done"
  /\ UNCHANGED <<side, reader, batching, sent, world, cancelled, item, queue, arrived, written, ending, failed>>

StartDrain ==
  /\ writer = "loop" /\ cancelled
  /\ writer' = "drain"
  /\ UNCHANGED <<side, reader, batching, sent, world, cancelled, errors, item, queue, arrived, written, ending, failed>>

DrainEnds ==
  /\ writer = "drain" /\ queue = <<>>
  /\ writer' = "done"
  /\ UNCHANGED <<side, reader, batching, sent, world, cancelled, errors, item, queue, arrived, written, ending, failed>>

-----------------------------------------------------------------------------
(* The handler, and the ways the channel ends.                             *)

CanWrite == link = "up" /\ cleanup # "done"
Disconnects(why) == told' = IF ~CanWrite THEN told ELSE IF why = "read" THEN "read" ELSE "other"
Shut == IF conn = "reset" THEN conn ELSE "closed"
Requeued == IF cleanup = "none" THEN "queued" ELSE cleanup

\* The select of the handler.  The remote end announces an error at once.
Wakes(why) ==
  /\ owner = "waiting"
  /\ owner' = "leaving"
  /\ reason' = why
  /\ IF side = "remote" /\ why # "none" THEN Disconnects(why) ELSE UNCHANGED told
  /\ UNCHANGED <<side, reader, batching, sent, world, cancelled, inbound, cleanup, failed>>
OwnerTakesError == errors # <<>> /\ errors' = Tail(errors) /\ Wakes(Head(errors))
OwnerCancelled == cancelled /\ UNCHANGED errors /\ Wakes("none")
OwnerDone == reader = "done" /\ writer = "done" /\ UNCHANGED errors /\ Wakes("none")

\* The deferred calls, last one first: the entry of the channel queues the
\* cleanup, sends its Disconnect, closes the connection and cancels; the
\* remote end queues the cleanup, cancels and closes.
OwnerLeaves ==
  /\ owner = "leaving"
  /\ owner' = "half"
  /\ cleanup' = Requeued
  /\ IF side = "socks"
     THEN Disconnects(reason) /\ conn' = Shut /\ UNCHANGED cancelled
     ELSE cancelled' = TRUE /\ UNCHANGED <<told, conn>>
  /\ UNCHANGED <<side, reader, batching, sent, link, breaks, errors, inbound, reason, failed>>

OwnerGone ==
  /\ owner = "half"
  /\ owner' = "gone"
  /\ conn' = Shut
  /\ cancelled' = TRUE
  /\ UNCHANGED <<side, reader, batching, sent, link, breaks, errors, inbound, reason, told, cleanup, failed>>

\* A Disconnect of the peer queues the channel for cleanup.
PeerDisconnects ==
  /\ link = "up" /\ cleanup = "none"
  /\ cleanup' = "queued"
  /\ UNCHANGED <<side, reader, batching, sent, world, cancelled, errors, inbound, owner, reason, told, failed>>

\* After its delay, doCleanup cancels the loops, and then forgets the queue and
\* closes the channel.
CleanupCancels ==
  /\ cleanup = "queued"
  /\ cleanup' = "cancelled"
  /\ cancelled' = TRUE
  /\ UNCHANGED <<side, reader, batching, sent, world, errors, inbound, owner, reason, told, failed>>

CleanupCloses ==
  /\ cleanup = "cancelled"
  /\ cleanup' = "done"
  /\ UNCHANGED <<side, reader, batching, sent, world, cancelled, errors, inbound, owner, reason, told, failed>>

\* channelCleaner cancels a channel without activity.
IdleTimeout ==
  /\ owner = "waiting" /\ ~cancelled
  /\ cancelled' = TRUE
  /\ UNCHANGED <<side, reader, batching, sent, world, errors, inbound, ending, failed>>

-----------------------------------------------------------------------------
(* The local peer and the transport.                                       *)

ConnEnds ==
  /\ conn = "open"
  /\ conn' \in {"eof", "reset"}
  /\ UNCHANGED <<side, reader, batching, sent, link, breaks, cancelled, errors, inbound, ending, failed>>

LinkDrops ==
  /\ link = "up" /\ breaks < MaxBreaks
  /\ link' = "down"
  /\ breaks' = breaks + 1
  /\ UNCHANGED <<side, reader, batching, sent, conn, cancelled, errors, inbound, ending, failed>>

LinkReturns ==
  /\ link = "down"
  /\ link' = "up"
  /\ UNCHANGED <<side, reader, batching, sent, conn, breaks, cancelled, errors, inbound, ending, failed>>

-----------------------------------------------------------------------------
Flush(g) == FlushEmpty(g) \/ FlushStarts(g) \/ FlushSends(g) \/ FlushFails(g)
ReadStep == CheckContext \/ ReadData \/ ReadFails \/ AppendRead \/ ArmTimer \/ SignalError \/ Flush("reader")
FlusherStep == TakeSignal \/ FlusherEnds \/ Flush("flusher")
WriterStep == TakeMessage \/ WriteMessage \/ WriteFails \/ ReportFailure \/ StartDrain \/ DrainEnds
OwnerStep == OwnerTakesError \/ OwnerCancelled \/ OwnerDone \/ OwnerLeaves \/ OwnerGone
CleanupStep == CleanupCancels \/ CleanupCloses
World == DataArrives \/ PeerDisconnects \/ IdleTimeout \/ ConnEnds \/ LinkDrops \/ LinkReturns

Next ==
  \/ ReadStep \/ FlusherStep \/ WriterStep \/ OwnerStep \/ CleanupStep
  \/ TimerFires \/ TimerSignals
  \/ World

Spec == Init /\ [][Next]_vars

\* Goroutines run, timers expire, and the grace window and the cleanup delay
\* pass.  Nothing is assumed of the local peer, the link or the remote peer.
Fairness ==
  /\ WF_vars(ReadStep) /\ WF_vars(FlusherStep) /\ WF_vars(WriterStep)
  /\ WF_vars(OwnerStep) /\ WF_vars(CleanupStep)
  /\ WF_vars(TimerFires) /\ WF_vars(TimerSignals)

FairSpec == Spec /\ Fairness

-----------------------------------------------------------------------------
(* Properties.                                                             *)

UpTo(n) == [i \in 1 .. n |-> i]

\* What was written to the channel, followed by the batch, is what was read:
\* nothing is lost, doubled or exchanged between the reader and the timer's
\* goroutine, also when a flush fails and the batch is kept.
StreamIntact == sent \o batch = UpTo(taken)

\* A batch that waits in memory while the read loop blocks has something that
\* will flush it: an armed timer, one whose function still has to signal, a
\* signal, or the flushing goroutine itself.
Waker == firing > 0 \/ signal \/ flusher = "flush"
BatchHasWaker ==
  batch # <<>> /\ reader \in {"check", "read", "append"} /\ ~failed /\ ~cancelled
    => timer = "armed" \/ Waker

\* "Flush any pending batched data BEFORE signaling error, to preserve ordering
\* of final response bytes relative to the upcoming disconnect" (forwarder.go):
\* the read side implements Pipe, where a Disconnect that reports the end of
\* the connection is the announcement.
Stream == INSTANCE Pipe WITH
  given <- sent,
  end <- IF failed THEN "broken" ELSE IF told = "read" THEN "announced" ELSE "open"
ImplementsPipe == Stream!Spec

\* "Drain any remaining queued messages before exiting to avoid losing final
\* response bytes when context is cancelled" (relay.go): the writer loses
\* nothing it had received unless the connection's own peer is gone.
DrainedBeforeClose == writer = "report" => conn = "reset"

\* The goroutine that writes to the connection ends when the channel does.
WriterEnds == conn # "open" ~> writer = "done"

-----------------------------------------------------------------------------
(* The inductive invariant behind StreamIntact, BatchHasWaker and Pipe.    *)

\* A goroutine that holds batchMu is in a flush of a batch that is not empty,
\* and has reset the timer; a timer that has fired will wake the flusher as long
\* as it listens.
LockInv ==
  /\ mu = "reader" => reader \in Flushing
  /\ mu = "flusher" => flusher = "flush"
  /\ mu # "free" => timer = "nil" /\ batch # <<>>
  /\ timer = "fired" /\ ~cancelled => Waker

\* The end is reported after the last flush, and nothing is read after it; the
\* peer is told once.
EndReported == "read" \in {told, reason} \/ \E i \in DOMAIN errors : errors[i] = "read"
EndInv ==
  /\ ~failed /\ reader = "signal" => batch = <<>>
  /\ ~failed /\ EndReported => batch = <<>> /\ reader \in {"exit", "done"}
  /\ owner = "waiting" \/ (owner = "leaving" /\ side = "socks") => told = "no"

IInv == TypeOK /\ LockInv /\ StreamIntact /\ BatchHasWaker /\ EndInv
=============================================================================
