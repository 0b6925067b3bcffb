-------------------------- MODULE ChannelMigration --------------------------
(***************************************************************************)
(* One logical channel between the client that dialled it (the connector)  *)
(* and the client that accepted it (the provider).  The channel is carried *)
(* by the relay (WebSocket links through the server) or by a direct QUIC   *)
(* stream, and may move between them while data is in flight.              *)
(*                                                                         *)
(* linksocks/channel.go           logicalChannel: numbering, pending map,  *)
(*                                duplicate filter, fallback and replay    *)
(* linksocks/direct_transport_quic.go   read loop, failure handling,       *)
(*                                delivery into the channel's queue        *)
(* linksocks/client.go            relay dispatcher, resume on a new stream *)
(* linksocks/relay.go             local forwarding loop, retry in grace    *)
(*                                                                         *)
(* The goroutines of one peer that touch the channel are numbered: the     *)
(* relay dispatcher is Relay (0), the read loop of direct stream g is g,   *)
(* the goroutine that holds writeMu is Holder, and the QUIC agent that     *)
(* resumes channels is Agent.  A transport is named like its reader.       *)
(***************************************************************************)
EXTENDS Integers, Sequences

CONSTANTS MaxWrites,    \* payloads the local connection of each peer produces
          MaxSequence,  \* bound on the sequence numbers a peer assigns
          MaxStreams,   \* bound on the direct streams opened for the channel
          MaxDrops,     \* bound on the losses of the relay link
          QueueCap,     \* capacity of messageQueues[channel] (1000 in the code)
          StartPath     \* path on which the channel was connected

Dialer == "dialer"
Acceptor == "acceptor"
Peers == {Dialer, Acceptor}
Other(p) == IF p = Dialer THEN Acceptor ELSE Dialer

Relay == 0
Streams == 1 .. MaxStreams
Transports == 0 .. MaxStreams
Holder == -1
Agent == -2
Replayers == -2 .. MaxStreams

ASSUME MigrationAssumption ==
  /\ MaxWrites \in [Peers -> Nat]
  /\ MaxSequence \in Nat
  /\ MaxStreams \in Nat \ {0}
  /\ MaxDrops \in Nat
  /\ QueueCap \in Nat \ {0}
  /\ StartPath \in {"direct", "relay"}

\* One record shape for every message; ack uses seq, data uses seq and val.
Msg == [type : {"data", "ack", "migrate", "resume"}, seq : Nat, val : Nat]
Data(s, v) == [type |-> "data", seq |-> s, val |-> v]
DataAck(s) == [type |-> "ack", seq |-> s, val |-> 0]
Migrate == [type |-> "migrate", seq |-> 0, val |-> 0]
Resume == [type |-> "resume", seq |-> 0, val |-> 0]

VARIABLES
  writer,      \* logicalChannel.writer (and path): Relay or a stream
  migration,   \* logicalChannel.migration
  sequence,    \* logicalChannel.sequence
  stamp,       \* payload that each assigned sequence number was given
  pending,     \* keys of logicalChannel.pending
  received,    \* logicalChannel.received
  held,        \* message each reader has accepted and not queued yet: <<>> or <<m>>
  queue,       \* messageQueues[channel]
  out,         \* payloads written to the local connection
  written,     \* payloads read from the local connection
  retrying,    \* the last payload is in writeWithTransportGrace's retry loop
  lock,        \* message whose write holds writeMu during its fallback: <<>> or <<m>>
  replay,      \* sequence numbers each goroutine has still to replay
  loops,       \* streams whose read loop is running
  opened,      \* streams opened so far; stream `opened' is the newest
  broken,      \* streams that failed
  relayUp,     \* the WebSocket path works
  drops,       \* relay losses so far
  wire,        \* wire[t][p]: messages on their way to p over transport t
  order,       \* history: the numbered messages in the order they were queued
  raced        \* history: a reader handled data while another held a message

chan == <<writer, migration, sequence, stamp, pending, received>>
local == <<queue, out, written, retrying>>
net == <<opened, broken, relayUp, drops>>
vars == <<writer, migration, sequence, stamp, pending, received, held, queue,
          out, written, retrying, lock, replay, loops, opened, broken, relayUp,
          drops, wire, order, raced>>

TypeOK ==
  /\ writer \in [Peers -> Transports]
  /\ migration \in [Peers -> BOOLEAN]
  /\ sequence \in [Peers -> Nat]
  /\ stamp \in [Peers -> Seq(Nat)]
  /\ pending \in [Peers -> SUBSET Nat]
  /\ received \in [Peers -> Nat]
  /\ held \in [Peers -> [Transports -> Seq(Msg)]]
  /\ queue \in [Peers -> Seq(Msg)]
  /\ out \in [Peers -> Seq(Nat)]
  /\ written \in [Peers -> Nat]
  /\ retrying \in [Peers -> BOOLEAN]
  /\ lock \in [Peers -> Seq(Msg)]
  /\ replay \in [Peers -> [Replayers -> SUBSET Nat]]
  /\ loops \in [Peers -> SUBSET Streams]
  /\ opened \in Transports
  /\ broken \in SUBSET Streams
  /\ relayUp \in BOOLEAN
  /\ drops \in Nat
  /\ wire \in [Transports -> [Peers -> Seq(Msg)]]
  /\ order \in [Peers -> Seq(Nat)]
  /\ raced \in [Peers -> BOOLEAN]

\* A channel connected over QUIC: the acceptor enables migration when it
\* registers the channel; the dialler's channel is registered by the proxy
\* request handler before the first write, so the branch of the stream writer
\* that would enable it there is not taken.  A channel connected over the
\* relay starts without migration on both sides.
Init ==
  /\ writer = [p \in Peers |-> IF StartPath = "direct" THEN 1 ELSE Relay]
  /\ migration = [p \in Peers |-> StartPath = "direct" /\ p = Acceptor]
  /\ sequence = [p \in Peers |-> 0]
  /\ stamp = [p \in Peers |-> <<>>]
  /\ pending = [p \in Peers |-> {}]
  /\ received = [p \in Peers |-> 0]
  /\ held = [p \in Peers |-> [t \in Transports |-> <<>>]]
  /\ queue = [p \in Peers |-> <<>>]
  /\ out = [p \in Peers |-> <<>>]
  /\ written = [p \in Peers |-> 0]
  /\ retrying = [p \in Peers |-> FALSE]
  /\ lock = [p \in Peers |-> <<>>]
  /\ replay = [p \in Peers |-> [t \in Replayers |-> {}]]
  /\ loops = [p \in Peers |-> IF StartPath = "direct" THEN {1} ELSE {}]
  /\ opened = IF StartPath = "direct" THEN 1 ELSE 0
  /\ broken = {}
  /\ relayUp = TRUE
  /\ drops = 0
  /\ wire = [t \in Transports |-> [p \in Peers |-> <<>>]]
  /\ order = [p \in Peers |-> <<>>]
  /\ raced = [p \in Peers |-> FALSE]

-----------------------------------------------------------------------------
(* Writing.                                                                *)

Up(t) == IF t = Relay THEN relayUp ELSE t \notin broken

\* A write of p on t can succeed: the transport works, or it is a broken
\* stream whose loss p has not noticed yet and the message is lost with it.
CanWrite(p, t) == Up(t) \/ t \in loops[p]

\* `wires' with msgs appended to what is on its way to p over t.
Push(wires, t, p, msgs) ==
  IF t \in broken THEN wires ELSE [wires EXCEPT ![t][p] = @ \o msgs]

\* clientRelayWriter: the owner of a suspended channel rebinds it with a
\* resume before the first data message on the recovered link.
RelayData(p, m) == IF p = Dialer /\ retrying[p] THEN <<Resume, m>> ELSE <<m>>

\* logicalChannel.WriteMessage of an acknowledgement by peer p, the network
\* being `wires': the write, and on failure switchToFallback with its
\* ChannelMigrate and the replay that the holder of writeMu then performs.
WriteAck(p, s, wires) ==
  /\ lock[p] = <<>>
  /\ \/ /\ ~migration[p]
        /\ wire' = wires
        /\ UNCHANGED <<writer, replay, lock>>
     \/ /\ migration[p] /\ CanWrite(p, writer[p])
        /\ wire' = Push(wires, writer[p], Other(p), <<DataAck(s)>>)
        /\ UNCHANGED <<writer, replay, lock>>
     \/ /\ migration[p] /\ ~Up(writer[p]) /\ relayUp
        /\ writer' = [writer EXCEPT ![p] = Relay]
        /\ wire' = Push(wires, Relay, Other(p), <<Migrate>>)
        /\ replay' = [replay EXCEPT ![p][Holder] = pending[p]]
        /\ lock' = [lock EXCEPT ![p] = <<DataAck(s)>>]
     \/ /\ migration[p] /\ ~Up(writer[p]) /\ ~relayUp
        /\ writer' = [writer EXCEPT ![p] = Relay]
        /\ wire' = wires
        /\ UNCHANGED <<replay, lock>>

\* The forwarder writes the next payload, or retries the last one:
\* logicalChannel.WriteMessage numbers it on every call.
WriteData(p) ==
  LET v == IF retrying[p] THEN written[p] ELSE written[p] + 1
      s == IF migration[p] THEN sequence[p] + 1 ELSE 0
  IN  /\ lock[p] = <<>>
      /\ retrying[p] \/ written[p] < MaxWrites[p]
      /\ sequence[p] < MaxSequence
      /\ written' = [written EXCEPT ![p] = v]
      /\ IF migration[p]
           THEN /\ sequence' = [sequence EXCEPT ![p] = s]
                /\ stamp' = [stamp EXCEPT ![p] = Append(@, v)]
                /\ pending' = [pending EXCEPT ![p] = @ \cup {s}]
           ELSE UNCHANGED <<sequence, stamp, pending>>
      /\ \/ /\ CanWrite(p, writer[p])
            /\ wire' = Push(wire, writer[p], Other(p),
                            IF writer[p] = Relay THEN RelayData(p, Data(s, v))
                                                 ELSE <<Data(s, v)>>)
            /\ retrying' = [retrying EXCEPT ![p] = FALSE]
            /\ UNCHANGED <<writer, replay, lock>>
         \/ /\ ~Up(writer[p]) /\ relayUp
            /\ writer' = [writer EXCEPT ![p] = Relay]
            /\ retrying' = [retrying EXCEPT ![p] = FALSE]
            /\ IF migration[p]
                 THEN /\ wire' = Push(wire, Relay, Other(p), <<Migrate>>)
                      /\ replay' = [replay EXCEPT ![p][Holder] = pending'[p]]
                      /\ lock' = [lock EXCEPT ![p] = <<Data(s, v)>>]
                 ELSE /\ wire' = Push(wire, Relay, Other(p), RelayData(p, Data(s, v)))
                      /\ UNCHANGED <<replay, lock>>
         \/ /\ ~Up(writer[p]) /\ ~relayUp
            /\ writer' = [writer EXCEPT ![p] = Relay]
            /\ retrying' = [retrying EXCEPT ![p] = TRUE]
            /\ UNCHANGED <<wire, replay, lock>>
      /\ UNCHANGED <<migration, received, held, queue, out, loops, order, raced, net>>

\* One write of replayPending by goroutine t: the lowest number left in the
\* snapshot of the pending map.  A failed write ends the replay; the holder of
\* writeMu then gives up: a data write is retried, an acknowledgement is not.
ReplayPending(p, t) ==
  LET dest == IF t = Agent THEN opened ELSE Relay
  IN  /\ \E s \in replay[p][t] :
           /\ \A u \in replay[p][t] : s <= u
           /\ \/ /\ CanWrite(p, dest)
                 /\ wire' = Push(wire, dest, Other(p), <<Data(s, stamp[p][s])>>)
                 /\ replay' = [replay EXCEPT ![p][t] = @ \ {s}]
                 /\ UNCHANGED <<retrying, lock>>
              \/ /\ ~Up(dest)
                 /\ replay' = [replay EXCEPT ![p][t] = {}]
                 /\ retrying' = [retrying EXCEPT ![p] =
                                   @ \/ (t = Holder /\ Head(lock[p]).type = "data")]
                 /\ lock' = [lock EXCEPT ![p] = IF t = Holder THEN <<>> ELSE @]
                 /\ UNCHANGED wire
      /\ UNCHANGED <<chan, held, queue, out, written, loops, order, raced, net>>

\* The end of WriteMessage after a fallback that succeeded: data went out with
\* the replay, an acknowledgement is written once to the current writer.
FinishWrite(p) ==
  /\ lock[p] # <<>> /\ replay[p][Holder] = {}
  /\ lock' = [lock EXCEPT ![p] = <<>>]
  /\ \/ /\ Head(lock[p]).type = "ack" /\ CanWrite(p, writer[p])
        /\ wire' = Push(wire, writer[p], Other(p), lock[p])
     \/ /\ Head(lock[p]).type = "data" \/ ~Up(writer[p])
        /\ UNCHANGED wire
  /\ UNCHANGED <<chan, held, local, replay, loops, order, raced, net>>

-----------------------------------------------------------------------------
(* Reading: reader t is the relay dispatcher or the read loop of stream t. *)

Reading(p, t) ==
  /\ t = Relay \/ t \in loops[p]
  /\ held[p][t] = <<>>
  /\ replay[p][t] = {}
  /\ wire[t][p] # <<>>

Pop(t, p) == [wire EXCEPT ![t][p] = Tail(@)]

OthersHold(p, t) == \E u \in Transports \ {t} : held[p][u] # <<>>

\* Faulty acceptData: no duplicate filter; no gap filter.
AcceptsDuplicate(p, m) == m.seq <= received[p] + 1
AcceptsGap(p, m) == m.seq = 0 \/ m.seq > received[p]

\* acceptData: unnumbered data, or exactly the next number.
Accepts(p, m) == m.seq = 0 \/ m.seq = received[p] + 1

\* deliverDataMessage up to the verdict of acceptData; a duplicate is
\* acknowledged again, a gap is dropped.
ReceiveData(p, t) ==
  LET m == Head(wire[t][p])
  IN  /\ Reading(p, t) /\ m.type = "data"
      /\ raced' = [raced EXCEPT ![p] = @ \/ OthersHold(p, t)]
      /\ \/ /\ Accepts(p, m)
            /\ received' = [received EXCEPT ![p] = IF m.seq = 0 THEN @ ELSE m.seq]
            /\ held' = [held EXCEPT ![p][t] = <<m>>]
            /\ wire' = Pop(t, p)
            /\ UNCHANGED <<writer, replay, lock>>
         \/ /\ ~Accepts(p, m) /\ m.seq <= received[p]
            /\ WriteAck(p, m.seq, Pop(t, p))
            /\ UNCHANGED <<received, held>>
         \/ /\ ~Accepts(p, m) /\ m.seq > received[p]
            /\ wire' = Pop(t, p)
            /\ UNCHANGED <<received, held, writer, replay, lock>>
      /\ UNCHANGED <<migration, sequence, stamp, pending, local, loops, order, net>>

\* Faulty queueing: rejectData forgotten.
EnqueueKeepsNumber(p, t) ==
  LET m == Head(held[p][t])
  IN  /\ held[p][t] # <<>>
      /\ held' = [held EXCEPT ![p][t] = <<>>]
      /\ IF Len(queue[p]) < QueueCap
           THEN /\ queue' = [queue EXCEPT ![p] = Append(@, m)]
                /\ order' = IF m.seq = 0 THEN order ELSE [order EXCEPT ![p] = Append(@, m.seq)]
           ELSE UNCHANGED <<queue, order>>
      /\ UNCHANGED <<chan, out, written, retrying, lock, replay, loops, wire, raced, net>>

\* The second half of deliverDataMessage: queue the message, or give its
\* number back with rejectData when the queue is full.
Enqueue(p, t) ==
  LET m == Head(held[p][t])
  IN  /\ held[p][t] # <<>>
      /\ held' = [held EXCEPT ![p][t] = <<>>]
      /\ \/ /\ Len(queue[p]) < QueueCap
            /\ queue' = [queue EXCEPT ![p] = Append(@, m)]
            /\ order' = IF m.seq = 0 THEN order ELSE [order EXCEPT ![p] = Append(@, m.seq)]
            /\ UNCHANGED received
         \/ /\ Len(queue[p]) >= QueueCap
            /\ received' = [received EXCEPT ![p] = IF m.seq # 0 /\ @ = m.seq THEN m.seq - 1 ELSE @]
            /\ UNCHANGED <<queue, order>>
      /\ UNCHANGED <<writer, migration, sequence, stamp, pending, out, written,
                     retrying, lock, replay, loops, wire, raced, net>>

\* The forwarding loop writes the head of the queue to the local connection
\* and then acknowledges it.
LocalWrite(p) ==
  LET m == Head(queue[p])
  IN  /\ queue[p] # <<>>
      /\ queue' = [queue EXCEPT ![p] = Tail(@)]
      /\ out' = [out EXCEPT ![p] = Append(@, m.val)]
      /\ \/ m.seq # 0 /\ WriteAck(p, m.seq, wire)
         \/ m.seq = 0 /\ UNCHANGED <<writer, replay, lock, wire>>
      /\ UNCHANGED <<migration, sequence, stamp, pending, received, held, written,
                     retrying, loops, order, raced, net>>

\* logicalChannel.acknowledge.
ReceiveAck(p, t) ==
  /\ Reading(p, t) /\ Head(wire[t][p]).type = "ack"
  /\ pending' = [pending EXCEPT ![p] = @ \ {Head(wire[t][p]).seq}]
  /\ wire' = Pop(t, p)
  /\ UNCHANGED <<writer, migration, sequence, stamp, received, held, local, lock,
                 replay, loops, order, raced, net>>

\* ChannelMigrate from the peer: switchToRelay, without writeMu; the reader
\* replays the pending data before it reads on.
ReceiveMigrate(p, t) ==
  /\ Reading(p, t) /\ Head(wire[t][p]).type = "migrate"
  /\ wire' = Pop(t, p)
  /\ IF migration[p]
       THEN /\ writer' = [writer EXCEPT ![p] = Relay]
            /\ replay' = [replay EXCEPT ![p][t] = pending[p]]
       ELSE UNCHANGED <<writer, replay>>
  /\ UNCHANGED <<migration, sequence, stamp, pending, received, held, local, lock,
                 loops, order, raced, net>>

\* Connect{Resume} over the relay: HandleNetworkConnection switches the
\* channel onto the relay.
ReceiveResume(p) ==
  /\ Reading(p, Relay) /\ Head(wire[Relay][p]).type = "resume"
  /\ wire' = Pop(Relay, p)
  /\ writer' = [writer EXCEPT ![p] = Relay]
  /\ UNCHANGED <<migration, sequence, stamp, pending, received, held, local, lock,
                 replay, loops, order, raced, net>>

-----------------------------------------------------------------------------
(* Failures and recovery of the transports.                                *)

\* What transport t carried is lost.
Clear(t) == [wire EXCEPT ![t] = [p \in Peers |-> <<>>]]

\* The QUIC connection of the newest stream is lost with what it carried.
BreakStream ==
  /\ opened # 0 /\ opened \notin broken
  /\ broken' = broken \cup {opened}
  /\ wire' = Clear(opened)
  /\ UNCHANGED <<chan, held, local, lock, replay, loops, opened, relayUp, drops, order, raced>>

\* Faulty read loop: it ends without handleDirectChannelFailure.
ReadLoopEndsSilently(p, t) ==
  /\ t \in loops[p] \cap broken
  /\ held[p][t] = <<>> /\ replay[p][t] = {}
  /\ loops' = [loops EXCEPT ![p] = @ \ {t}]
  /\ UNCHANGED <<chan, held, local, lock, replay, wire, order, raced, net>>

\* The read loop of a broken stream ends: handleDirectChannelFailure falls
\* back unless the channel already is on the relay.  It does not look at which
\* stream the channel uses now.
ReadLoopFails(p, t) ==
  /\ t \in loops[p] \cap broken
  /\ held[p][t] = <<>> /\ replay[p][t] = {}
  /\ loops' = [loops EXCEPT ![p] = @ \ {t}]
  /\ writer' = [writer EXCEPT ![p] = Relay]
  /\ IF writer[p] # Relay /\ migration[p] /\ relayUp
       THEN /\ wire' = Push(wire, Relay, Other(p), <<Migrate>>)
            /\ replay' = [replay EXCEPT ![p][t] = pending[p]]
       ELSE UNCHANGED <<wire, replay>>
  /\ UNCHANGED <<migration, sequence, stamp, pending, received, held, local, lock,
                 order, raced, net>>

\* resumeLogicalChannels on a new QUIC connection: the dialler reopens a
\* channel that is on the relay, switches to the stream and replays.
ResumeDirect ==
  /\ opened < MaxStreams
  /\ opened = 0 \/ opened \in broken
  /\ writer[Dialer] = Relay
  /\ replay[Dialer][Agent] = {}
  /\ opened' = opened + 1
  /\ migration' = [migration EXCEPT ![Dialer] = TRUE]
  /\ writer' = [writer EXCEPT ![Dialer] = opened + 1]
  /\ loops' = [loops EXCEPT ![Dialer] = @ \cup {opened + 1}]
  /\ wire' = Push(wire, opened + 1, Acceptor, <<Resume>>)
  /\ replay' = [replay EXCEPT ![Dialer][Agent] = pending[Dialer]]
  /\ UNCHANGED <<sequence, stamp, pending, received, held, local, lock, broken,
                 relayUp, drops, order, raced>>

\* The acceptor takes the resumed stream over: switchToDirect, no replay.
AcceptResume(t) ==
  /\ t \notin loops[Acceptor]
  /\ wire[t][Acceptor] # <<>> /\ Head(wire[t][Acceptor]).type = "resume"
  /\ wire' = Pop(t, Acceptor)
  /\ writer' = [writer EXCEPT ![Acceptor] = t]
  /\ loops' = [loops EXCEPT ![Acceptor] = @ \cup {t}]
  /\ UNCHANGED <<migration, sequence, stamp, pending, received, held, local, lock,
                 replay, order, raced, net>>

\* The WebSocket path fails and loses what was in flight.
DropRelay ==
  /\ relayUp /\ drops < MaxDrops
  /\ relayUp' = FALSE
  /\ drops' = drops + 1
  /\ wire' = Clear(Relay)
  /\ UNCHANGED <<chan, held, local, lock, replay, loops, opened, broken, order, raced>>

\* The WebSocket path is back: resumeRelayChannels rebinds a channel of the
\* dialler that is on the relay.
ReconnectRelay ==
  /\ ~relayUp
  /\ relayUp' = TRUE
  /\ wire' = IF writer[Dialer] = Relay THEN Push(wire, Relay, Acceptor, <<Resume>>) ELSE wire
  /\ UNCHANGED <<chan, held, local, lock, replay, loops, opened, broken, drops, order, raced>>

-----------------------------------------------------------------------------
\* Steps the peers take by themselves.
PeerStep(p) ==
  \/ LocalWrite(p)
  \/ ReceiveResume(p)
  \/ FinishWrite(p)
  \/ \E t \in Replayers : ReplayPending(p, t)
  \/ \E t \in Transports : \/ ReceiveData(p, t) \/ ReceiveAck(p, t)
                           \/ ReceiveMigrate(p, t) \/ Enqueue(p, t)
  \/ \E t \in Streams : ReadLoopFails(p, t)

Next ==
  \/ \E p \in Peers : WriteData(p) \/ PeerStep(p)
  \/ \E t \in Streams : AcceptResume(t)
  \/ BreakStream \/ ResumeDirect \/ DropRelay \/ ReconnectRelay

Spec == Init /\ [][Next]_vars

\* Goroutines that can run do run, and a lost WebSocket link is redialled.
\* Nothing is assumed of the QUIC path: it may never come back.
Fairness ==
  /\ \A p \in Peers :
       /\ WF_vars(WriteData(p))
       /\ WF_vars(LocalWrite(p))
       /\ WF_vars(ReceiveResume(p))
       /\ WF_vars(FinishWrite(p))
       /\ \A t \in Replayers : WF_vars(ReplayPending(p, t))
       /\ \A t \in Transports : /\ WF_vars(ReceiveData(p, t))
                                /\ WF_vars(ReceiveAck(p, t))
                                /\ WF_vars(ReceiveMigrate(p, t))
                                /\ WF_vars(Enqueue(p, t))
       /\ \A t \in Streams : WF_vars(ReadLoopFails(p, t))
  /\ \A t \in Streams : WF_vars(AcceptResume(t))
  /\ WF_vars(ReconnectRelay)

FairSpec == Spec /\ Fairness

-----------------------------------------------------------------------------
(* Properties.                                                             *)

\* No numbered message enters a channel's queue twice, however often
\* fallback, migration and resume replay the pending map over both transports
\* and whichever reader sees which copy first (acceptData, rejectData).
QueuedOnce ==
  \A p \in Peers : \A i, j \in 1 .. Len(order[p]) :
    order[p][i] = order[p][j] => i = j

\* Numbered messages enter the queue in the order the peer numbered them,
\* without a hole, as long as no reader handled data while another one was
\* between acceptData and the queue.
QueuedInOrder ==
  \A p \in Peers :
    ~raced[p] => \A i \in 1 .. Len(order[p]) : order[p][i] = i

\* A message leaves the pending map only once the peer has queued it: an
\* acknowledgement never covers data that a full queue then gives back, under
\* the same proviso.
AckedMeansQueued ==
  \A p \in Peers :
    ~raced[Other(p)] =>
      \A s \in 1 .. sequence[p] :
        s \in pending[p] \/ \E i \in 1 .. Len(order[Other(p)]) : order[Other(p)][i] = s

\* A peer does not keep writing to a stream that failed: its read loop or its
\* next write moves the channel off it.
LeavesDeadStream ==
  \A p \in Peers : writer[p] \in broken ~> writer[p] \notin broken

\* The local connection receives what the peer's local connection sent, from
\* the beginning and without holes, repetitions or exchanges, across moves
\* between the transports.
Intact ==
  \A p \in Peers : \A i \in 1 .. Len(out[p]) : out[p][i] = i

\* Retrying a write in the grace window does not make the peer's local
\* connection receive the same payload twice.
NoPayloadTwice ==
  \A p \in Peers : \A i, j \in 1 .. Len(out[p]) :
    out[p][i] = out[p][j] => i = j

\* What a peer wrote reaches the other local connection once the transports
\* have stopped failing: the channel does not stall after a migration.
Delivered ==
  \A p \in Peers : \A n \in 1 .. MaxWrites[p] :
    written[p] >= n ~> \E i \in 1 .. Len(out[Other(p)]) : out[Other(p)][i] = n

-----------------------------------------------------------------------------
(* The inductive invariant behind the safety properties.                   *)

\* Pending and replayed numbers are numbers that were assigned.
AssignedInv ==
  \A p \in Peers :
    /\ Len(stamp[p]) = sequence[p]
    /\ pending[p] \subseteq 1 .. sequence[p]
    /\ \A t \in Replayers : replay[p][t] \subseteq 1 .. sequence[p]

\* What was accepted is at most r, and is held or queued only once: h is what
\* the readers of a peer hold, o its order and r its received.
Accepted(h, o, r) ==
  /\ \A i \in 1 .. Len(o) : o[i] \in 1 .. r
  /\ \A t \in Transports : h[t] # <<>> =>
       /\ h[t][1].seq <= r
       /\ \A i \in 1 .. Len(o) : o[i] # h[t][1].seq
  /\ \A t, u \in Transports :
       /\ h[t] # <<>> /\ h[u] # <<>>
       /\ h[t][1].seq = h[u][1].seq
       /\ h[t][1].seq # 0
       => t = u
  /\ \A i, j \in 1 .. Len(o) : o[i] = o[j] => i = j

AcceptedInv == \A p \in Peers : Accepted(held[p], order[p], received[p])

\* Without a race, at most one message is held and the queue q has seen
\* exactly the numbers up to r, but for the one that is held.
Ordered(h, o, r, q) ==
  /\ \A i \in 1 .. Len(o) : o[i] = i
  /\ \A t, u \in Transports : h[t] # <<>> /\ h[u] # <<>> => t = u
  /\ \A t \in Transports : h[t] # <<>> /\ h[t][1].seq # 0 =>
       h[t][1].seq = r /\ r = Len(o) + 1
  /\ (\A t \in Transports : h[t] = <<>> \/ h[t][1].seq = 0) => r = Len(o)
  /\ \A i \in 1 .. Len(q) : q[i].seq <= Len(o)

OrderInv ==
  \A p \in Peers : ~raced[p] => Ordered(held[p], order[p], received[p], queue[p])

\* Without a race at the peer, acknowledgements in flight and numbers no
\* longer pending belong to messages the peer has queued.
AcksUpTo(msgs, n) ==
  \A i \in 1 .. Len(msgs) : msgs[i].type = "ack" => msgs[i].seq <= n

AckInv ==
  \A p \in Peers : ~raced[Other(p)] =>
    /\ \A t \in Transports : AcksUpTo(wire[t][p], Len(order[Other(p)]))
    /\ \A s \in 1 .. sequence[p] : s \in pending[p] \/ s <= Len(order[Other(p)])

\* The same of the acknowledgement that waits for the end of a replay.
LockInv == \A p \in Peers : ~raced[p] => AcksUpTo(lock[p], Len(order[p]))

IInv == TypeOK /\ AssignedInv /\ AcceptedInv /\ OrderInv /\ AckInv /\ LockInv
=============================================================================
