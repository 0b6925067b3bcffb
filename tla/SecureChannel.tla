---------------------------- MODULE SecureChannel ----------------------------
(***************************************************************************)
(* One protocol V2 channel of a forward client, end to end: the client is  *)
(* the entry and starts the Noise handshake, the relay dials and answers   *)
(* it.  Sealed frames travel over the client's WebSocket links, each with  *)
(* a dispatcher goroutine at either end; a frame can only be read as the   *)
(* next one of its direction.                                              *)
(*                                                                         *)
(* linksocks/secure_channel.go          secureHub, secureSession           *)
(* linksocks/server.go, client.go       the dispatchers' SealedMessage,    *)
(*                                      ChannelOpen and Disconnect cases   *)
(* linksocks/direct_transport_quic.go   clientRelayWriter                  *)
(* linksocks/relay.go                   doCleanup, the pumps' use of the   *)
(*                                      channel queue                      *)
(*                                                                         *)
(* A ciphertext is the number of its frame: client to relay 1 and 2 are    *)
(* the handshake, 3 the ConnectMessage, the rest data; relay to client 1   *)
(* is the handshake, 2 the ConnectResponse, the rest data.                 *)
(***************************************************************************)
EXTENDS Naturals, Sequences

CONSTANTS Links,       \* WebSocket links the client ever has
          Inbound,     \* secureInboundQueue
          DialerQueue, \* capacity of the channel's message queue at the relay
          Plans        \* what a behaviour may hold

\* first: links that are up when the channel is opened; up and down: bounds on
\* the frames of the client and of the relay; queue: capacity of the message
\* queue at the client; breaks: whether links break.
ASSUME SecureAssumption ==
  /\ Inbound \in Nat \ {0} /\ DialerQueue \in Nat \ {0}
  /\ \A p \in Plans : /\ p.first \subseteq Links /\ p.first # {}
                      /\ p.up \in Nat /\ p.down \in Nat /\ p.queue \in Nat \ {0}
                      /\ p.breaks \in BOOLEAN

Ends == {"entry", "dialer"}
Peer(e) == IF e = "entry" THEN "dialer" ELSE "entry"
Connect == 3
ConnectResponse == 2

VARIABLES
  plan,      \* the plan of this behaviour
  link,      \* state of a link
  resuming,  \* links whose resumeRelayChannels has not written yet
  wire,      \* messages travelling to an end on a link
  hand,      \* what an end's dispatcher of a link is doing, and the frame it holds
  waiters,   \* dispatchers listed in secureHub.waiters
  woken,     \* dispatchers whose waiter channel is closed
  opener,    \* what openChannel is doing
  registered,\* the end's hub has the session
  at,        \* what the session's run goroutine is doing
  sent,      \* frames the session has sealed
  writing,   \* the last one is not written yet
  read,      \* frames the session has opened
  inbound,   \* secureSession.inbound
  done,      \* secureSession.done is closed
  cause,     \* why the session failed
  via,       \* the dialer's secureSession.link
  bound,     \* relay.messageQueues has the channel
  queue,     \* the channel's message queue, by frame number
  got,       \* what the end's pump has taken from it
  dial,      \* outcome of the ConnectMessage at the dialer
  ending,    \* the channel is in the relay's cleanupQueue
  over,      \* the end's own connection is finished
  disturbed  \* history: a frame was lost or overtaken by a later one

MaxFrame(e) == IF e = "entry" THEN plan.up ELSE plan.down
Queue(e) == IF e = "entry" THEN plan.queue ELSE DialerQueue
Frames == Nat \ {0}

transport == <<link, resuming, wire>>
claim == <<hand, waiters, woken>>
session == <<registered, at, sent, writing, read, inbound, done, cause, via>>
channel == <<bound, queue, got, dial, ending, over>>
vars == <<link, resuming, wire, hand, waiters, woken, opener, registered, at, sent, writing,
          read, inbound, done, cause, via, bound, queue, got, dial, ending, over, disturbed, plan>>

Control(k) == [kind |-> k, n |-> 0]
Sealed(n) == [kind |-> "sealed", n |-> n]
Messages == [kind : {"open", "resume", "disconnect"}, n : {0}] \cup [kind : {"sealed"}, n : Frames]
Idle == [at |-> "idle", n |-> 0]

TypeOK ==
  /\ plan \in Plans
  /\ link \in [Links -> {"new", "up", "down"}]
  /\ resuming \subseteq Links
  /\ wire \in [Ends -> [Links -> Seq(Messages)]]
  /\ hand \in [Ends -> [Links -> [at : {"idle", "claim", "wait", "put"}, n : Frames \cup {0}]]]
  /\ waiters \subseteq Links /\ woken \subseteq Links
  /\ opener \in {"open", "wait", "use", "failed"}
  /\ registered \in [Ends -> BOOLEAN]
  /\ at \in [Ends -> {"idle", "write1", "await2", "write3", "await1", "write2", "await3",
                      "loop", "park", "held", "block", "refuse", "ended"}]
  /\ sent \in [Ends -> Nat] /\ read \in [Ends -> Nat]
  /\ writing \in [Ends -> BOOLEAN] /\ done \in [Ends -> BOOLEAN]
  /\ inbound \in [Ends -> Seq(Frames)] /\ \A e \in Ends : Len(inbound[e]) <= Inbound
  /\ cause \in [Ends -> {"none", "decrypt", "write", "timeout", "closed"}]
  /\ via \in Links
  /\ bound \in [Ends -> BOOLEAN]
  /\ queue \in [Ends -> Seq(Frames)] /\ \A e \in Ends : Len(queue[e]) <= Queue(e)
  /\ got \in [Ends -> Seq(Frames)]
  /\ dial \in {"none", "dialled", "up", "failed", "blocked"}
  /\ ending \in [Ends -> BOOLEAN] /\ over \in [Ends -> BOOLEAN]
  /\ disturbed \in BOOLEAN

\* The client has registered its session and is about to write ChannelOpen.
Init ==
  /\ plan \in Plans
  /\ link = [l \in Links |-> IF l \in plan.first THEN "up" ELSE "new"]
  /\ resuming = {}
  /\ wire = [e \in Ends |-> [l \in Links |-> <<>>]]
  /\ hand = [e \in Ends |-> [l \in Links |-> Idle]]
  /\ waiters = {} /\ woken = {}
  /\ opener = "open"
  /\ registered = [e \in Ends |-> e = "entry"]
  /\ at = [e \in Ends |-> "idle"]
  /\ sent = [e \in Ends |-> 0]
  /\ writing = [e \in Ends |-> FALSE]
  /\ read = [e \in Ends |-> 0]
  /\ inbound = [e \in Ends |-> <<>>]
  /\ done = [e \in Ends |-> FALSE]
  /\ cause = [e \in Ends |-> "none"]
  /\ via \in plan.first
  /\ bound = [e \in Ends |-> e = "entry"]
  /\ queue = [e \in Ends |-> <<>>]
  /\ got = [e \in Ends |-> <<>>]
  /\ dial = "none"
  /\ ending = [e \in Ends |-> FALSE]
  /\ over = [e \in Ends |-> FALSE]
  /\ disturbed = FALSE

-----------------------------------------------------------------------------
(* Helpers of the sessions.                                                *)

Up(l) == link[l] = "up"
Post(e, l, m) == wire' = [wire EXCEPT ![e][l] = Append(@, m)]

\* finish: the first cause is kept, done is closed.
Finish(e, why) ==
  /\ done' = [done EXCEPT ![e] = TRUE]
  /\ cause' = [cause EXCEPT ![e] = IF @ = "none" THEN why ELSE @]

\* The run goroutine returns after fail: its deferred remove unregisters.
RunFails(e, why) ==
  /\ Finish(e, why)
  /\ at' = [at EXCEPT ![e] = "ended"]
  /\ registered' = [registered EXCEPT ![e] = FALSE]

\* The step of the handshake that follows the frame just written.
AfterWrite(s) ==
  CASE s = "write1" -> "await2"
    [] s = "write3" -> "loop"
    [] s = "write2" -> "await3"
    [] s = "refuse" -> "loop"
    [] OTHER        -> s

InHandshake(e) == at[e] \in {"write1", "await2", "write3", "await1", "write2", "await3"}

-----------------------------------------------------------------------------
(* The links.                                                              *)

\* maintainWebSocketConnection: a link is in the pool before the channels
\* are resumed on it.
Reconnect(l) ==
  /\ link[l] = "new"
  /\ link' = [link EXCEPT ![l] = "up"]
  /\ resuming' = resuming \cup {l}
  /\ UNCHANGED <<wire, claim, opener, session, channel, disturbed, plan>>

\* resumeRelayChannels: a channel is resumed once openChannel has returned
\* and its logical channel is registered.
Resume(l) ==
  /\ l \in resuming
  /\ resuming' = resuming \ {l}
  /\ IF Up(l) /\ opener = "use" /\ registered["entry"]
       THEN Post("dialer", l, Control("resume"))
       ELSE UNCHANGED wire
  /\ UNCHANGED <<link, claim, opener, session, channel, disturbed, plan>>

\* Of the messages to e on link l only k arrive, and a frame is among the rest.
Loses(e, l, k) == \E i \in k + 1 .. Len(wire[e][l]) : wire[e][l][i].kind = "sealed"

\* The connection breaks: an end may still read what had reached it.
Break(l) ==
  /\ plan.breaks
  /\ Up(l)
  /\ link' = [link EXCEPT ![l] = "down"]
  /\ \E i \in 0 .. Len(wire["entry"][l]), j \in 0 .. Len(wire["dialer"][l]) :
       /\ wire' = [wire EXCEPT !["entry"][l] = SubSeq(@, 1, i), !["dialer"][l] = SubSeq(@, 1, j)]
       /\ disturbed' = (disturbed \/ Loses("entry", l, i) \/ Loses("dialer", l, j))
  /\ UNCHANGED <<resuming, claim, opener, session, channel, plan>>

-----------------------------------------------------------------------------
(* Opening the channel.                                                    *)

\* openChannel: ChannelOpen is written, the session's goroutine starts.
OpenChannel(l) ==
  /\ opener = "open"
  /\ Up(l)
  /\ Post("dialer", l, Control("open"))
  /\ opener' = "wait"
  /\ at' = [at EXCEPT !["entry"] = "write1"]
  /\ sent' = [sent EXCEPT !["entry"] = 1]
  /\ writing' = [writing EXCEPT !["entry"] = TRUE]
  /\ UNCHANGED <<link, resuming, claim, registered, read, inbound, done, cause, via, channel, disturbed, plan>>

\* The transport grace expires first.
OpenGraceExpires ==
  /\ opener = "open"
  /\ \E l \in Links : link[l] = "down"
  /\ opener' = "failed"
  /\ Finish("entry", "write")
  /\ registered' = [registered EXCEPT !["entry"] = FALSE]
  /\ ending' = [ending EXCEPT !["entry"] = TRUE]
  /\ over' = [over EXCEPT !["entry"] = TRUE]
  /\ UNCHANGED <<transport, claim, at, sent, writing, read, inbound, via, bound, queue, got, dial, disturbed, plan>>

\* openChannel returns the session once it is ready.
OpenReady ==
  /\ opener = "wait"
  /\ at["entry"] \in {"loop", "park", "held", "block"}
  /\ opener' = "use"
  /\ UNCHANGED <<transport, claim, session, channel, disturbed, plan>>

\* openChannel fails: the session ended, or its timer fired.
OpenFails ==
  /\ opener = "wait"
  /\ opener' = "failed"
  /\ Finish("entry", "closed")
  /\ registered' = [registered EXCEPT !["entry"] = FALSE]
  /\ ending' = [ending EXCEPT !["entry"] = TRUE]
  /\ over' = [over EXCEPT !["entry"] = TRUE]
  /\ UNCHANGED <<transport, claim, at, sent, writing, read, inbound, via, bound, queue, got, dial, disturbed, plan>>

\* acceptChannel at the relay.
AcceptChannel(l) ==
  /\ hand["dialer"][l] = Idle
  /\ wire["dialer"][l] # <<>>
  /\ LET m == Head(wire["dialer"][l])
         rest == [wire EXCEPT !["dialer"][l] = Tail(@)]
     IN  /\ m.kind \in {"open", "resume"}
         /\ \/ /\ registered["dialer"]
               /\ via' = l
               /\ wire' = rest
               /\ UNCHANGED <<registered, at, waiters, woken>>
            \/ /\ ~registered["dialer"] /\ m.kind = "resume"
               /\ wire' = IF Up(l) THEN [rest EXCEPT !["entry"][l] = Append(@, Control("disconnect"))]
                                   ELSE rest
               /\ UNCHANGED <<registered, at, waiters, woken, via>>
            \/ /\ ~registered["dialer"] /\ m.kind = "open"
               /\ registered' = [registered EXCEPT !["dialer"] = TRUE]
               /\ at' = [at EXCEPT !["dialer"] = "await1"]
               /\ via' = l
               /\ woken' = woken \cup waiters
               /\ waiters' = {}
               /\ wire' = rest
  /\ UNCHANGED <<link, resuming, hand, opener, sent, writing, read, inbound, done, cause, channel, disturbed, plan>>

-----------------------------------------------------------------------------
(* Writing sealed frames.                                                  *)

\* The client's request has seen its ConnectResponse.
Answered == \E i \in DOMAIN got["entry"] : got["entry"][i] = ConnectResponse

\* WriteMessage seals the pump's next message: the client sends data once
\* the connect succeeded, the relay once it dialled.
Seal(e) ==
  /\ IF e = "entry" THEN opener = "use" /\ (sent[e] < Connect \/ Answered)
                    ELSE dial = "up"
  /\ ~over[e] /\ ~done[e] /\ ~writing[e]
  /\ sent[e] < MaxFrame(e)
  /\ sent' = [sent EXCEPT ![e] = @ + 1]
  /\ writing' = [writing EXCEPT ![e] = TRUE]
  /\ UNCHANGED <<transport, claim, opener, registered, at, read, inbound, done, cause, via, channel, disturbed, plan>>

\* writeCiphertext on a live link: the client takes the next of its pool,
\* the relay the one its session is bound to.
FrameWritten(e, l) ==
  /\ Up(l)
  /\ e = "dialer" => l = via
  /\ Post(Peer(e), l, Sealed(sent[e]))
  /\ writing' = [writing EXCEPT ![e] = FALSE]
  /\ at' = [at EXCEPT ![e] = AfterWrite(@)]
  /\ dial' = IF e = "dialer" /\ dial = "dialled" THEN "up" ELSE dial
  /\ UNCHANGED <<link, resuming, claim, opener, registered, sent, read, inbound, done, cause, via,
                 bound, queue, got, ending, over, disturbed, plan>>

\* A retry that seals the message again.
WriteFrameResealed(e, l) ==
  \/ writing[e] /\ FrameWritten(e, l)
  \/ /\ writing[e] /\ link[l] = "down" /\ sent[e] < MaxFrame(e)
     /\ e = "dialer" => l = via
     /\ sent' = [sent EXCEPT ![e] = @ + 1]
     /\ UNCHANGED <<transport, claim, opener, registered, at, writing, read, inbound, done, cause, via, channel, disturbed, plan>>

WriteFrame(e, l) == writing[e] /\ FrameWritten(e, l)

\* writeWithGrace gives up.  The client's writer marks a failure as
\* transport down, and retries until the grace expires or the session is
\* closed; the error of the relay's link is not marked and ends the session
\* at once.
WriteFails(e) ==
  /\ writing[e]
  /\ IF e = "dialer" THEN link[via] = "down" ELSE \E l \in Links : link[l] = "down"
  /\ writing' = [writing EXCEPT ![e] = FALSE]
  /\ IF InHandshake(e) THEN RunFails(e, "write")
                       ELSE /\ Finish(e, "write")
                            /\ at' = [at EXCEPT ![e] = AfterWrite(@)]
                            /\ UNCHANGED registered
  /\ UNCHANGED <<transport, claim, opener, sent, read, inbound, via, channel, disturbed, plan>>

-----------------------------------------------------------------------------
(* The dispatchers.                                                        *)

NextIs(e, l, kind) ==
  /\ hand[e][l] = Idle
  /\ wire[e][l] # <<>>
  /\ Head(wire[e][l]).kind = kind

\* SealedMessage: the client drops a frame of an unknown channel, the relay
\* waits for the ChannelOpen that creates its session (awaitChannel).
TakeSealed(e, l) ==
  /\ NextIs(e, l, "sealed")
  /\ LET n == Head(wire[e][l]).n
     IN  hand' = [hand EXCEPT ![e][l] =
                    IF registered[e] THEN [at |-> "put", n |-> n]
                    ELSE IF e = "dialer" THEN [at |-> "claim", n |-> n] ELSE Idle]
  /\ wire' = [wire EXCEPT ![e][l] = Tail(@)]
  /\ UNCHANGED <<link, resuming, waiters, woken, opener, session, channel, disturbed, plan>>

Subscribe(l) ==
  /\ hand["dialer"][l].at = "claim"
  /\ hand' = [hand EXCEPT !["dialer"][l].at = "wait"]
  /\ waiters' = waiters \cup {l}
  /\ UNCHANGED <<transport, woken, opener, session, channel, disturbed, plan>>

Claimed(l) ==
  /\ hand["dialer"][l].at = "wait"
  /\ l \in woken
  /\ woken' = woken \ {l}
  /\ hand' = [hand EXCEPT !["dialer"][l].at = "put"]
  /\ UNCHANGED <<transport, waiters, opener, session, channel, disturbed, plan>>

\* Without the last look at the sessions.
ClaimTimeoutUnchecked(l) ==
  /\ hand["dialer"][l].at = "wait"
  /\ waiters' = waiters \ {l}
  /\ woken' = woken \ {l}
  /\ hand' = [hand EXCEPT !["dialer"][l] = Idle]
  /\ disturbed' = TRUE
  /\ UNCHANGED <<transport, opener, session, channel, plan>>

\* sealedClaimWait elapses: the session is looked up once more; without one
\* the frame goes to the connector return buffer, out of the channel.
ClaimTimeout(l) ==
  /\ hand["dialer"][l].at = "wait"
  /\ waiters' = waiters \ {l}
  /\ woken' = woken \ {l}
  /\ IF registered["dialer"]
       THEN hand' = [hand EXCEPT !["dialer"][l].at = "put"] /\ UNCHANGED disturbed
       ELSE hand' = [hand EXCEPT !["dialer"][l] = Idle] /\ disturbed' = TRUE
  /\ UNCHANGED <<transport, opener, session, channel, plan>>

\* Frames of e's peer that are on their way on links other than l.
Elsewhere(e, l) ==
  UNION {{hand[e][k].n} \cup {wire[e][k][i].n : i \in DOMAIN wire[e][k]} : k \in Links \ {l}}

\* deliver without the case of the session's end.
DeliverStuck(e, l) ==
  /\ hand[e][l].at = "put"
  /\ Len(inbound[e]) < Inbound
  /\ inbound' = [inbound EXCEPT ![e] = Append(@, hand[e][l].n)]
  /\ hand' = [hand EXCEPT ![e][l] = Idle]
  /\ disturbed' = (disturbed \/ \E n \in Elsewhere(e, l) : 0 < n /\ n < hand[e][l].n)
  /\ UNCHANGED <<transport, waiters, woken, opener, registered, at, sent, writing, read, done, cause, via, channel, plan>>

\* secureSession.deliver: a full buffer holds the dispatcher, the session's
\* end releases it.
Deliver(e, l) ==
  /\ hand[e][l].at = "put"
  /\ \/ /\ Len(inbound[e]) < Inbound
        /\ inbound' = [inbound EXCEPT ![e] = Append(@, hand[e][l].n)]
        /\ disturbed' = (disturbed \/ \E n \in Elsewhere(e, l) : 0 < n /\ n < hand[e][l].n)
     \/ /\ Len(inbound[e]) = Inbound
        /\ done[e]
        /\ UNCHANGED <<inbound, disturbed>>
  /\ hand' = [hand EXCEPT ![e][l] = Idle]
  /\ UNCHANGED <<transport, waiters, woken, opener, registered, at, sent, writing, read, done, cause, via, channel, plan>>

\* DisconnectMessage: handlePeerDisconnect closes the client's session at
\* once; the relay only queues the channel's cleanup.
TakeDisconnect(e, l) ==
  /\ NextIs(e, l, "disconnect")
  /\ wire' = [wire EXCEPT ![e][l] = Tail(@)]
  /\ ending' = [ending EXCEPT ![e] = TRUE]
  /\ IF e = "entry" /\ registered[e]
       THEN Finish(e, "closed") /\ registered' = [registered EXCEPT ![e] = FALSE]
       ELSE UNCHANGED <<done, cause, registered>>
  /\ UNCHANGED <<link, resuming, claim, opener, at, sent, writing, read, inbound, via,
                 bound, queue, got, dial, over, disturbed, plan>>

-----------------------------------------------------------------------------
(* The session's run goroutine.                                            *)

\* awaitFrame: of a frame and the session's end, when both are there, the
\* select takes either.  A frame that is not the next one cannot be read.
AwaitFrame(e) ==
  /\ at[e] \in {"await1", "await2", "await3"}
  /\ inbound[e] # <<>>
  /\ inbound' = [inbound EXCEPT ![e] = Tail(@)]
  /\ IF Head(inbound[e]) = read[e] + 1
       THEN /\ read' = [read EXCEPT ![e] = @ + 1]
            /\ at' = [at EXCEPT ![e] = CASE @ = "await1" -> "write2"
                                         [] @ = "await2" -> "write3"
                                         [] @ = "await3" -> "loop"]
            /\ IF at[e] = "await3" THEN UNCHANGED <<sent, writing>>
               ELSE /\ sent' = [sent EXCEPT ![e] = @ + 1]
                    /\ writing' = [writing EXCEPT ![e] = TRUE]
            /\ UNCHANGED <<registered, done, cause>>
       ELSE RunFails(e, "decrypt") /\ UNCHANGED <<read, sent, writing>>
  /\ UNCHANGED <<transport, claim, opener, via, channel, disturbed, plan>>

\* The step's timer, or the session's end.
AwaitFails(e) ==
  /\ at[e] \in {"await1", "await2", "await3"}
  /\ RunFails(e, IF done[e] THEN "closed" ELSE "timeout")
  /\ UNCHANGED <<transport, claim, opener, sent, writing, read, inbound, via, channel, disturbed, plan>>

\* receive's first select finds the buffer empty.
Park(e) ==
  /\ at[e] = "loop"
  /\ inbound[e] = <<>>
  /\ at' = [at EXCEPT ![e] = "park"]
  /\ UNCHANGED <<transport, claim, opener, registered, sent, writing, read, inbound, done, cause, via, channel, disturbed, plan>>

\* receive returns a frame, from either select; run decrypts it.
Receive(e) ==
  /\ at[e] \in {"loop", "park"}
  /\ inbound[e] # <<>>
  /\ inbound' = [inbound EXCEPT ![e] = Tail(@)]
  /\ IF Head(inbound[e]) = read[e] + 1
       THEN /\ read' = [read EXCEPT ![e] = @ + 1]
            /\ at' = [at EXCEPT ![e] = "held"]
            /\ UNCHANGED <<registered, done, cause>>
       ELSE RunFails(e, "decrypt") /\ UNCHANGED read
  /\ UNCHANGED <<transport, claim, opener, sent, writing, via, channel, disturbed, plan>>

\* receive's second select takes the session's end.
ReceiveDone(e) ==
  /\ at[e] = "park"
  /\ done[e]
  /\ at' = [at EXCEPT ![e] = "ended"]
  /\ registered' = [registered EXCEPT ![e] = FALSE]
  /\ UNCHANGED <<transport, claim, opener, sent, writing, read, inbound, done, cause, via, channel, disturbed, plan>>

Enqueue(e) == queue' = [queue EXCEPT ![e] = Append(@, read[e])]
HasRoom(e) == Len(queue[e]) < Queue(e)

\* A message is dropped when the queue is full, as on plaintext channels.
DeliverToQueueLossy ==
  /\ at["entry"] = "held"
  /\ IF HasRoom("entry") THEN Enqueue("entry") ELSE UNCHANGED queue
  /\ at' = [at EXCEPT !["entry"] = "loop"]
  /\ UNCHANGED <<transport, claim, opener, registered, sent, writing, read, inbound, done, cause, via,
                 bound, got, dial, ending, over, disturbed, plan>>

\* deliverToQueue at the client: the queue is tried before the session's
\* end counts.
DeliverToQueue ==
  /\ \/ /\ at["entry"] \in {"held", "block"} /\ HasRoom("entry")
        /\ Enqueue("entry")
        /\ at' = [at EXCEPT !["entry"] = "loop"]
     \/ /\ at["entry"] = "held" /\ ~HasRoom("entry")
        /\ at' = [at EXCEPT !["entry"] = "block"]
        /\ UNCHANGED queue
     \/ /\ at["entry"] = "block" /\ done["entry"]
        /\ at' = [at EXCEPT !["entry"] = "loop"]
        /\ UNCHANGED queue
  /\ UNCHANGED <<transport, claim, opener, registered, sent, writing, read, inbound, done, cause, via,
                 bound, got, dial, ending, over, disturbed, plan>>

\* dispatch of the ConnectMessage at the relay: the channel queue is made
\* and the destination dialled, unless access control blocks it.  The
\* ConnectResponse is the handler's first write; the goroutine of the
\* session itself writes the refusal.
DispatchConnect(outcome) ==
  /\ at["dialer"] = "held"
  /\ read["dialer"] = Connect
  /\ dial' = outcome
  /\ bound' = [bound EXCEPT !["dialer"] = @ \/ outcome # "blocked"]
  /\ IF done["dialer"]
       THEN UNCHANGED <<sent, writing>>
       ELSE /\ sent' = [sent EXCEPT !["dialer"] = @ + 1]
            /\ writing' = [writing EXCEPT !["dialer"] = TRUE]
  /\ at' = [at EXCEPT !["dialer"] = IF outcome = "blocked" /\ ~done["dialer"] THEN "refuse" ELSE "loop"]
  /\ UNCHANGED <<transport, claim, opener, registered, read, inbound, done, cause, via,
                 queue, got, ending, over, disturbed, plan>>

\* dispatch of data at the relay: one select of the queue and the session's
\* end; data without a queue is dropped.
DispatchData ==
  /\ at["dialer"] = "held"
  /\ read["dialer"] > Connect
  /\ \/ bound["dialer"] /\ HasRoom("dialer") /\ Enqueue("dialer")
     \/ bound["dialer"] /\ done["dialer"] /\ UNCHANGED queue
     \/ ~bound["dialer"] /\ UNCHANGED queue
  /\ at' = [at EXCEPT !["dialer"] = "loop"]
  /\ UNCHANGED <<transport, claim, opener, registered, sent, writing, read, inbound, done, cause, via,
                 bound, got, dial, ending, over, disturbed, plan>>

-----------------------------------------------------------------------------
(* The pumps and the end of the channel.                                   *)

Refused == dial \in {"failed", "blocked"}

\* A pump takes the next message of its queue; a refusal ends the client's
\* request, without a DisconnectMessage.
PumpTake(e) ==
  /\ queue[e] # <<>>
  /\ IF e = "entry" THEN opener = "use" ELSE dial = "up"
  /\ got' = [got EXCEPT ![e] = Append(@, Head(queue[e]))]
  /\ queue' = [queue EXCEPT ![e] = Tail(@)]
  /\ IF e = "entry" /\ Head(queue[e]) = ConnectResponse /\ Refused
       THEN /\ over' = [over EXCEPT ![e] = TRUE]
            /\ ending' = [ending EXCEPT ![e] = TRUE]
       ELSE UNCHANGED <<over, ending>>
  /\ UNCHANGED <<transport, claim, opener, session, bound, dial, disturbed, plan>>

\* The client's request gives up before the ConnectResponse: its timer
\* fired, or the ConnectMessage could not be written.
ConnectGivesUp ==
  /\ opener = "use" /\ ~over["entry"]
  /\ ~Answered
  /\ sent["entry"] >= Connect
  /\ over' = [over EXCEPT !["entry"] = TRUE]
  /\ ending' = [ending EXCEPT !["entry"] = TRUE]
  /\ UNCHANGED <<transport, claim, opener, session, bound, queue, got, dial, disturbed, plan>>

\* An end's connection finishes: it writes a DisconnectMessage, once, and
\* queues the cleanup.
LocalEnd(e) ==
  /\ ~over[e]
  /\ IF e = "entry" THEN Answered ELSE dial = "up"
  /\ over' = [over EXCEPT ![e] = TRUE]
  /\ ending' = [ending EXCEPT ![e] = TRUE]
  /\ \E l \in Links :
       /\ link[l] # "new"
       /\ e = "dialer" => l = via
       /\ IF Up(l) THEN Post(Peer(e), l, Control("disconnect")) ELSE UNCHANGED wire
  /\ UNCHANGED <<link, resuming, claim, opener, session, bound, queue, got, dial, disturbed, plan>>

\* doCleanup: the forward is cancelled, the queue and the session go.  The
\* client's forward still writes its DisconnectMessage, the relay's does not.
Cleanup(e) ==
  /\ ending[e]
  /\ ending' = [ending EXCEPT ![e] = FALSE]
  /\ bound' = [bound EXCEPT ![e] = FALSE]
  /\ over' = [over EXCEPT ![e] = @ \/ e = "dialer"]
  /\ IF registered[e]
       THEN Finish(e, "closed") /\ registered' = [registered EXCEPT ![e] = FALSE]
       ELSE UNCHANGED <<done, cause, registered>>
  /\ UNCHANGED <<transport, claim, opener, at, sent, writing, read, inbound, via, queue, got, dial, disturbed, plan>>

-----------------------------------------------------------------------------

LinkStep(l) ==
  \/ Reconnect(l) \/ Resume(l) \/ Break(l) \/ OpenChannel(l) \/ AcceptChannel(l)
  \/ Subscribe(l) \/ Claimed(l) \/ ClaimTimeout(l)
  \/ \E e \in Ends : WriteFrame(e, l) \/ TakeSealed(e, l) \/ Deliver(e, l) \/ TakeDisconnect(e, l)

EndStep(e) ==
  \/ Seal(e) \/ WriteFails(e) \/ AwaitFrame(e) \/ AwaitFails(e) \/ Park(e) \/ Receive(e)
  \/ ReceiveDone(e) \/ PumpTake(e) \/ LocalEnd(e) \/ Cleanup(e)

Next ==
  \/ \E l \in Links : LinkStep(l)
  \/ \E e \in Ends : EndStep(e)
  \/ OpenGraceExpires \/ OpenReady \/ OpenFails \/ DeliverToQueue \/ DispatchData \/ ConnectGivesUp
  \/ \E o \in {"dialled", "failed", "blocked"} : DispatchConnect(o)

Spec == Init /\ [][Next]_vars

\* A session's goroutine, and the dispatcher of a link.
Run(e) ==
  \/ WriteFails(e) \/ AwaitFrame(e) \/ AwaitFails(e) \/ Park(e) \/ Receive(e) \/ ReceiveDone(e)
  \/ (\E l \in Links : WriteFrame(e, l))
  \/ (e = "entry" /\ DeliverToQueue)
  \/ (e = "dialer" /\ (DispatchData \/ \E o \in {"dialled", "failed", "blocked"} : DispatchConnect(o)))
Dispatcher(e, l) ==
  \/ TakeSealed(e, l) \/ Deliver(e, l) \/ TakeDisconnect(e, l)
  \/ (e = "dialer" /\ (AcceptChannel(l) \/ Subscribe(l) \/ Claimed(l) \/ ClaimTimeout(l)))

\* The goroutines of both ends run, and their timers fire; the pumps, which
\* wait for the local connections, are not assumed to.
Fairness ==
  /\ \A e \in Ends : WF_vars(Run(e)) /\ WF_vars(Cleanup(e)) /\ \A l \in Links : WF_vars(Dispatcher(e, l))
  /\ WF_vars(OpenReady \/ OpenFails)
  /\ WF_vars(\E l \in Links : Resume(l))

FairSpec == Spec /\ Fairness

-----------------------------------------------------------------------------
(* Properties.                                                             *)

\* A frame can always be decrypted unless the links lost one or delivered
\* one before an earlier one: retries of a write (writeWithGrace), full
\* buffers and the channel's end never break the nonce chain.
NonceChain == \A e \in Ends : cause[e] = "decrypt" => disturbed

\* awaitChannel gives a frame up only while there is no session: it does not
\* miss one that is registered before it lists its waiter or as the timer
\* fires.
ClaimNotMissed ==
  [][\A l \in Links :
       hand["dialer"][l].at = "wait" /\ hand'["dialer"][l] = Idle => ~registered["dialer"]]_vars

FirstPayload(e) == IF e = "entry" THEN ConnectResponse ELSE Connect + 1
Payload(e) == got[e] \o queue[e]
Contiguous(e) == \A i \in DOMAIN Payload(e) : Payload(e)[i] = FirstPayload(e) + i - 1

Dispatched(e) == IF at[e] \in {"held", "block"} THEN read[e] - 1 ELSE read[e]

\* While the session is open and the channel bound, every message dispatched
\* reaches the end's pump, in order: dispatch waits for a full queue instead
\* of dropping.
InOrderWhileOpen ==
  \A e \in Ends : ~done[e] /\ bound[e] /\ Dispatched(e) >= FirstPayload(e)
                  => Contiguous(e) /\ Len(Payload(e)) = Dispatched(e) - FirstPayload(e) + 1

\* The client's pump never gets a message after one that was dropped, even
\* while the session is closing: the queue is tried before the end counts, so
\* only a frame that finds it full is dropped, and with room for all but the
\* response and one more frame that is the last one (deliverToQueue).
EntryGapFree == plan.queue + 2 >= plan.down => Contiguous("entry")

\* What the pumps take from their queues has no hole (deliverToQueue, dispatch).
PumpInOrder == InOrderWhileOpen /\ EntryGapFree

\* The same for the relay's pump (dispatch of data).
DialerGapFree == Contiguous("dialer")

\* Only an empty buffer ends the session's loop (receive).
EmptyBufferEndsLoop ==
  [][\A e \in Ends : at[e] = "park" /\ at'[e] = "ended" /\ cause'[e] # "decrypt"
                       => inbound[e] = <<>>]_vars

\* No session fails to decrypt a frame when no link breaks.
DecryptsWithoutBreak == \A e \in Ends : cause[e] # "decrypt"

\* A session that has ended lets go of everything: as long as its goroutine has
\* not returned, or a dispatcher holds a frame for it, one of them can take a
\* step, so nobody waits on a buffer that has no reader left
\* (secure_channel.go, deliver, run, deliverToQueue).
EndedIsNeverStuck ==
  \A e \in Ends :
    done[e] /\ (at[e] \notin {"idle", "ended"} \/ \E l \in Links : hand[e][l].at = "put")
      => ENABLED (Run(e) \/ \E l \in Links : Dispatcher(e, l))

\* When all links of the client stay down, the relay ends the session.
DepartedEnds ==
  (<>[](\A l \in Links : link[l] = "down")) => <>[](at["dialer"] \in {"idle", "ended"})
=============================================================================
