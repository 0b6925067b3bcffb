--------------------------- MODULE ConnectorRelay ---------------------------
(***************************************************************************)
(* The server between a connector and a provider (linksocks/server.go):    *)
(* one relayed channel of one reverse token.  Payloads of the connector    *)
(* wait in the channel's orphan queue until a pump goroutine has bound the *)
(* channel to a provider link; replies of the provider go to the connector *)
(* link the cache names, or wait in the return queue while it is away.     *)
(* Links of either side drop and come back at any time; the channel        *)
(* survives within the transport grace window (here: transportGrace > 0).  *)
(*                                                                         *)
(* Goroutines, each of which takes its steps in any order with the others: *)
(*   - the handler of a connector link: rebindConnectorChannels, and then  *)
(*     its dispatcher;                                                     *)
(*   - the pump a Connect or Resume starts, one candidate per connector    *)
(*     link;                                                               *)
(*   - the dispatcher of a provider link, and the goroutine it starts for  *)
(*     the connect response;                                               *)
(*   - the grace timer of a departed link, the expiry timers of the two    *)
(*     queues, and the goroutine that handles a Disconnect.                *)
(* A step is what happens under one hold of connCache.mu, or one write to  *)
(* a link.                                                                 *)
(***************************************************************************)
EXTENDS Integers, Sequences, FiniteSets

CONSTANTS
    Connectors,   \* links of connector clients of the token
    Mine,         \* those of the client that opens the channel
    Providers,    \* links of providers of the token
    NoLink,       \* a nil *WSConn
    MaxUp,        \* payloads the connector sends (bound of the model)
    MaxBack,      \* payloads the provider sends (bound of the model)
    MaxDrops,     \* links that fail (bound of the model)
    QueueSize,    \* orphanDataQueueSize
    V2            \* the channel is of protocol V2: the request's answer is
                  \* sealed like data, and the server checks no destination

ASSUME RelayAssumption ==
    /\ Mine \subseteq Connectors
    /\ Connectors \cap Providers = {}
    /\ NoLink \notin Connectors \cup Providers
    /\ MaxUp \in Nat /\ MaxBack \in Nat /\ MaxDrops \in Nat
    /\ QueueSize \in Nat \ {0}
    /\ V2 \in BOOLEAN

VARIABLES
    link,         \* of a link: "new", "up", "broken" (its writes fail), "gone"
    ponged,       \* connector links that have answered a ping
    toConnector,  \* channelIDToConnector of the channel
    toClient,     \* channelIDToClient of the channel
    cached,       \* the channel is in tokenCache of the reverse token
    pumpActive,   \* pumpActive of the channel
    orphan,       \* its orphan queue: connector to provider
    back,         \* its return queue: provider to connector
    pump,         \* of a connector link: the pump its Connect started
    rebind,       \* of a connector link: its rebindConnectorChannels
    inbound,      \* of a provider link: the payload its dispatcher holds
    response,     \* the goroutine that forwards the connect response
    grace,        \* of a link: its grace timer, and the peer it will tell
    closing,      \* a Disconnect: "no", "connector", "provider", "done"
    sent,         \* the link each payload of the connector came from
    produced,     \* number of payloads the provider has sent
    fwd,          \* what was written to providers (history)
    ret,          \* what was written to connectors (history)
    told,         \* links a Disconnect was written to (history)
    lossy         \* replies were given up for a stated reason (history)

linkVars == <<link, ponged, rebind, grace>>
cacheVars == <<toConnector, toClient, cached, pumpActive, orphan, back>>
returnVars == <<inbound, response, produced, ret, lossy>>
vars == <<link, ponged, toConnector, toClient, cached, pumpActive, orphan,
          back, pump, rebind, inbound, response, grace, closing, sent,
          produced, fwd, ret, told, lossy>>

Links == Connectors \cup Providers

NoQueue == [on |-> FALSE, items |-> <<>>, timer |-> FALSE]
Idle == [n |-> -1, target |-> NoLink]
NoPump == [pc |-> "none", resume |-> FALSE, bound |-> FALSE, to |-> NoLink,
           target |-> NoLink, pending |-> <<>>, held |-> <<>>,
           closed |-> FALSE, rest |-> <<>>]
NoRebind == [pc |-> "none", online |-> {}, held |-> <<>>]
Elems(s) == {s[i] : i \in DOMAIN s}

Init ==
    /\ link = [w \in Links |-> "new"]
    /\ ponged = {}
    /\ toConnector = NoLink
    /\ toClient = NoLink
    /\ cached = FALSE
    /\ pumpActive = FALSE
    /\ orphan = NoQueue
    /\ back = NoQueue
    /\ pump = [l \in Connectors |-> NoPump]
    /\ rebind = [l \in Connectors |-> NoRebind]
    /\ inbound = [p \in Providers |-> Idle]
    /\ response = [pc |-> IF V2 THEN "done" ELSE "none", target |-> NoLink]
    /\ grace = [w \in Links |-> [pc |-> "off", peer |-> NoLink]]
    /\ closing = "no"
    /\ sent = <<>>
    /\ produced = 0
    /\ fwd = <<>>
    /\ ret = <<>>
    /\ told = {}
    /\ lossy = FALSE

(***************************************************************************)
(* The cache.                                                              *)
(***************************************************************************)
\* s.clients still lists the link.
Online(w) == link[w] \in {"up", "broken"}

\* WriteMessage on w returns no error.
Writes(w) == w \in Links /\ link[w] = "up"

\* The queue, made with an expiry timer when there is none.
Reserved(q) == IF q.on THEN q ELSE [on |-> TRUE, items |-> <<>>, timer |-> TRUE]

\* A non-blocking send: a full queue drops the message.
Put(q, m) ==
    IF Len(q.items) < QueueSize THEN [q EXCEPT !.items = Append(@, m)] ELSE q

\* A pump that has taken the orphan queue keeps it when it is closed, and
\* still receives what the queue holds.
HoldsQueue(l) == pump[l].pc \in {"bind", "take", "replay", "forward"}

Closed(pumps) ==
    [l \in Connectors |->
       IF HoldsQueue(l) /\ ~pumps[l].closed /\ orphan.on
         THEN [pumps[l] EXCEPT !.closed = TRUE, !.rest = orphan.items]
         ELSE pumps[l]]

\* cleanupConnectorChannel, with `pumps' the other change to the pumps.
CleanupConnectorChannel(pumps) ==
    /\ toClient' = NoLink
    /\ toConnector' = NoLink
    /\ orphan' = NoQueue
    /\ back' = NoQueue
    /\ pump' = Closed(pumps)
    /\ lossy' = TRUE
    /\ UNCHANGED <<cached, pumpActive>>

\* bufferConnectorReturn.
BufferConnectorReturn(n) ==
    /\ back' = Put(Reserved(back), n)
    /\ lossy' = (lossy \/ Len(back.items) >= QueueSize)

(***************************************************************************)
(* Links come and go.                                                      *)
(***************************************************************************)
\* handleWebSocket of a connector, up to and with registerWebSocketClient.
RegisterConnector(l) ==
    /\ link[l] = "new"
    /\ link' = [link EXCEPT ![l] = "up"]
    /\ rebind' = [rebind EXCEPT ![l].pc = "scan"]
    /\ UNCHANGED <<ponged, cacheVars, pump, returnVars, grace, closing, sent,
                   fwd, told>>

\* handleWebSocket of a provider: it becomes available to waiting pumps.
RegisterProvider(p) ==
    /\ link[p] = "new"
    /\ link' = [link EXCEPT ![p] = "up"]
    /\ UNCHANGED <<ponged, cacheVars, pump, rebind, returnVars, grace, closing,
                   sent, fwd, told>>

\* The pong handler stamps lastPongMillis.
PongArrives(l) ==
    /\ link[l] = "up"
    /\ ponged' = ponged \cup {l}
    /\ UNCHANGED <<link, cacheVars, pump, rebind, returnVars, grace, closing,
                   sent, fwd, told>>

\* The connection fails; the server has not noticed yet.
LinkBreaks(w) ==
    /\ link[w] = "up"
    /\ Cardinality({v \in Links : link[v] \in {"broken", "gone"}}) < MaxDrops
    /\ link' = [link EXCEPT ![w] = "broken"]
    /\ UNCHANGED <<ponged, cacheVars, pump, rebind, returnVars, grace, closing,
                   sent, fwd, told>>

\* The dispatcher returns: cleanupConnection delists the link, and
\* scheduleChannelGraceCleanup arms a timer when the channel is on it.
LinkDeparts(w) ==
    /\ link[w] = "broken"
    /\ w \in Connectors => rebind[w].pc = "done"
    /\ w \in Providers => inbound[w] = Idle
    /\ link' = [link EXCEPT ![w] = "gone"]
    /\ ponged' = ponged \ {w}
    /\ grace' = [grace EXCEPT ![w].pc =
                   IF w \in {toConnector, toClient} THEN "armed" ELSE "off"]
    /\ UNCHANGED <<cacheVars, pump, rebind, returnVars, closing, sent,
                   fwd, told>>

\* The timer of w fires: a channel that left w is spared; otherwise the peer
\* to notify is chosen, the connector before the provider.
GraceFires(w) ==
    /\ grace[w].pc = "armed"
    /\ grace' = [grace EXCEPT ![w] =
                   IF w \notin {toConnector, toClient}
                     THEN [pc |-> "off", peer |-> NoLink]
                     ELSE [pc |-> "expiring",
                           peer |-> IF toConnector # NoLink THEN toConnector
                                                            ELSE toClient]]
    /\ UNCHANGED <<link, ponged, cacheVars, pump, rebind, returnVars, closing,
                   sent, fwd, told>>

\* ... which is told before the channel is removed.
GraceExpires(w) ==
    /\ grace[w].pc = "expiring"
    /\ told' = IF Writes(grace[w].peer) THEN told \cup {grace[w].peer} ELSE told
    /\ grace' = [grace EXCEPT ![w] = [pc |-> "off", peer |-> NoLink]]
    /\ CleanupConnectorChannel(pump)
    /\ UNCHANGED <<link, ponged, rebind, inbound, response, produced, ret,
                   closing, sent, fwd>>

(***************************************************************************)
(* rebindConnectorChannels, on the goroutine that serves link l.           *)
(***************************************************************************)
\* The cached channels and the links online are listed.
RebindScans(l) ==
    /\ rebind[l].pc = "scan"
    /\ rebind' = [rebind EXCEPT ![l] =
                    IF cached
                      THEN [@ EXCEPT !.pc = "check",
                                     !.online = {w \in Connectors : Online(w)}]
                      ELSE [@ EXCEPT !.pc = "done"]]
    /\ UNCHANGED <<link, ponged, cacheVars, pump, returnVars, grace, closing,
                   sent, fwd, told>>

\* isStale: a link without a pong since long ago.  lastPongMillis is 0, and
\* so long ago, until the first pong; a broken link may or may not have been
\* silent for long enough.
IsStale(w, verdict) ==
    \/ w \notin ponged /\ verdict = TRUE
    \/ w \in ponged /\ link[w] = "up" /\ verdict = FALSE
    \/ w \in ponged /\ link[w] # "up"

\* The channel moves to l when its link is offline or stale.
RebindChecks(l) ==
    /\ rebind[l].pc = "check"
    /\ \E verdict \in BOOLEAN :
         /\ IsStale(toConnector, verdict)
         /\ LET stale == /\ toConnector # NoLink
                         /\ toConnector \notin rebind[l].online \/ verdict
            IN /\ toConnector' = IF stale THEN l ELSE toConnector
               /\ rebind' = [rebind EXCEPT
                               ![l] = [NoRebind EXCEPT !.pc =
                                         IF stale THEN "take" ELSE "done"]]
    /\ UNCHANGED <<link, ponged, toClient, cached, pumpActive, orphan, back,
                   pump, returnVars, grace, closing, sent, fwd, told>>

\* drainConnectorReturn, under the lock: everything buffered is taken.
Taken == IF back.on THEN back.items ELSE <<>>

\* drainConnectorReturn, one message: it is written to the target, or it and
\* what was taken after it is put back ahead of what has arrived meanwhile.
Requeue(held) ==
    LET merged == held \o back.items
    IN /\ back' = IF back.on
                    THEN [back EXCEPT !.items =
                            IF Len(merged) <= QueueSize THEN merged
                              ELSE SubSeq(merged, 1, QueueSize)]
                    ELSE back
       /\ lossy' = (lossy \/ Len(merged) > QueueSize)

Replay(held, target) ==
    IF Writes(target)
      THEN /\ ret' = Append(ret, Head(held))
           /\ UNCHANGED <<back, lossy>>
      ELSE /\ Requeue(held)
           /\ UNCHANGED ret

\* Mutant: the buffered replies are copied and stay in the queue.
RebindCopies(l) ==
    /\ rebind[l].pc = "take"
    /\ rebind' = [rebind EXCEPT ![l].held = Taken,
                                ![l].pc = IF Taken = <<>> THEN "done"
                                                          ELSE "replay"]
    /\ UNCHANGED <<link, ponged, cacheVars, pump, returnVars, grace, closing,
                   sent, fwd, told>>

RebindTakes(l) ==
    /\ rebind[l].pc = "take"
    /\ rebind' = [rebind EXCEPT ![l].held = Taken,
                                ![l].pc = IF Taken = <<>> THEN "done"
                                                          ELSE "replay"]
    /\ back' = [back EXCEPT !.items = <<>>]
    /\ UNCHANGED <<link, ponged, toConnector, toClient, cached, pumpActive,
                   orphan, pump, returnVars, grace, closing, sent, fwd, told>>

RebindReplays(l) ==
    LET held == rebind[l].held
        left == IF Writes(l) THEN Tail(held) ELSE <<>>
    IN /\ rebind[l].pc = "replay"
       /\ Replay(held, l)
       /\ rebind' = [rebind EXCEPT ![l].held = left,
                                   ![l].pc = IF left = <<>> THEN "done"
                                                            ELSE "replay"]
       /\ UNCHANGED <<link, ponged, toConnector, toClient, cached, pumpActive,
                      orphan, pump, inbound, response, produced, grace,
                      closing, sent, fwd, told>>

(***************************************************************************)
(* connectorMessageDispatcher of link l.                                   *)
(***************************************************************************)
Dispatching(l) == rebind[l].pc = "done" /\ Online(l)

\* Connect, or Resume on a later link of the same client: the buffer is
\* reserved before the pump goroutine is started.
ConnectArrives(l) ==
    /\ l \in Mine
    /\ Dispatching(l)
    /\ closing = "no"
    /\ pump[l].pc = "none"
    /\ orphan' = Reserved(orphan)
    /\ pump' = [pump EXCEPT
                  ![l].pc = "starting",
                  ![l].resume = \E k \in Mine : pump[k].pc # "none"]
    /\ UNCHANGED <<linkVars, toConnector, toClient, cached, pumpActive, back,
                   returnVars, closing, sent, fwd, told>>

\* routeConnectorPayload: into the queue if there is one; else straight to
\* the provider; else into a fresh queue.
RouteConnectorPayload(l) ==
    /\ l \in Mine
    /\ Dispatching(l)
    /\ closing = "no"
    /\ pump[l].pc # "none"
    /\ Len(sent) < MaxUp
    /\ sent' = Append(sent, l)
    /\ LET n == Len(sent) + 1
           direct == ~orphan.on /\ toClient # NoLink
       IN /\ orphan' = IF direct THEN orphan ELSE Put(Reserved(orphan), n)
          /\ fwd' = IF direct /\ Writes(toClient)
                      THEN Append(fwd, [to |-> toClient, kind |-> "data",
                                        n |-> n])
                      ELSE fwd
    /\ UNCHANGED <<linkVars, toConnector, toClient, cached, pumpActive, back,
                   pump, returnVars, closing, told>>

\* Disconnect is handled by a goroutine of its own ...
DisconnectArrives(l) ==
    /\ l \in Mine
    /\ Dispatching(l)
    /\ closing = "no"
    /\ pump[l].pc # "none"
    /\ closing' = "connector"
    /\ UNCHANGED <<linkVars, cacheVars, pump, returnVars, sent, fwd, told>>

\* ... which forwards it to the link channelIDToConnector names, and removes
\* the channel.  disconnectChannel does the same for a provider's.
DisconnectRuns ==
    /\ closing \in {"connector", "provider"}
    /\ closing' = "done"
    /\ told' = IF Writes(toConnector) THEN told \cup {toConnector} ELSE told
    /\ CleanupConnectorChannel(pump)
    /\ UNCHANGED <<linkVars, inbound, response, produced, ret, sent, fwd>>

\* expireOrphanData: the channel never became bound.
ExpireOrphanData ==
    /\ orphan.timer
    /\ orphan' = IF toClient # NoLink THEN [orphan EXCEPT !.timer = FALSE]
                                      ELSE NoQueue
    /\ pump' = IF toClient # NoLink THEN pump ELSE Closed(pump)
    /\ UNCHANGED <<linkVars, toConnector, toClient, cached, pumpActive, back,
                   returnVars, closing, sent, fwd, told>>

(***************************************************************************)
(* startConnectorPumpSpec: the pump started by the Connect on link l.      *)
(***************************************************************************)
pumpFrame == <<linkVars, closing, sent, told>>
Ended == [NoPump EXCEPT !.pc = "done"]

\* A channel has one pump.  A Resume that finds one only moves the mapping.
PumpStarts(l) ==
    /\ pump[l].pc = "starting"
    /\ IF pumpActive
         THEN /\ pump' = [pump EXCEPT ![l] = Ended]
              /\ toConnector' = IF pump[l].resume THEN l ELSE toConnector
              /\ UNCHANGED pumpActive
         ELSE /\ pumpActive' = TRUE
              /\ pump' = [pump EXCEPT ![l].pc = "loop",
                                      ![l].bound = pump[l].resume]
              /\ UNCHANGED toConnector
    /\ UNCHANGED <<pumpFrame, toClient, cached, orphan, back, returnVars, fwd>>

\* checkAccess refuses the destination.
PumpDenied(l) ==
    /\ ~V2
    /\ pump[l].pc = "starting"
    /\ ~pumpActive
    /\ pumpActive' = TRUE
    /\ pump' = [pump EXCEPT ![l].pc = "retire"]
    /\ UNCHANGED <<pumpFrame, toConnector, toClient, cached, orphan, back,
                   returnVars, fwd>>

\* The top of the loop: pumpQueueAlive.
PumpLoops(l) ==
    /\ pump[l].pc = "loop"
    /\ pump' = [pump EXCEPT ![l].pc = IF orphan.on THEN "waiting" ELSE "retire"]
    /\ UNCHANGED <<pumpFrame, cacheVars, returnVars, fwd>>

\* waitForNextWebSocket returns a listed provider ...
PumpPicks(l) ==
    /\ pump[l].pc = "waiting"
    /\ \E p \in Providers :
         /\ Online(p)
         /\ pump' = [pump EXCEPT ![l].to = p, ![l].pc = "publish"]
    /\ UNCHANGED <<pumpFrame, cacheVars, returnVars, fwd>>

\* ... or gives up: a channel never bound is refused, a bound one tries again.
PumpTimesOut(l) ==
    /\ pump[l].pc = "waiting"
    /\ ~ \E p \in Providers : Online(p)
    /\ pump' = [pump EXCEPT ![l].pc =
                  IF orphan.on /\ pump[l].bound THEN "loop" ELSE "retire"]
    /\ UNCHANGED <<pumpFrame, cacheVars, returnVars, fwd>>

\* The mapping is published, and the queue taken (made again if it expired).
PumpPublishes(l) ==
    /\ pump[l].pc = "publish"
    /\ toConnector' = IF toConnector = NoLink THEN l ELSE toConnector
    /\ toClient' = pump[l].to
    /\ cached' = TRUE
    /\ orphan' = [on |-> TRUE, items |-> orphan.items, timer |-> FALSE]
    /\ pump' = [pump EXCEPT ![l].pc = "bind", ![l].target = toConnector',
                            ![l].closed = FALSE, ![l].rest = <<>>]
    /\ UNCHANGED <<pumpFrame, pumpActive, back, returnVars, fwd>>

\* Back to the top of the loop, without a provider and without the queue.
Rebinding(q, pending) ==
    [NoPump EXCEPT !.pc = "loop", !.resume = q.resume, !.bound = TRUE,
                   !.pending = pending]

\* Mutant: the bind is tried again on the link that failed.
PumpBindsSameLink(l) ==
    /\ pump[l].pc = "bind"
    /\ Writes(pump[l].to)
    /\ fwd' = Append(fwd, [to |-> pump[l].to, n |-> 0,
                 kind |-> IF pump[l].bound THEN "resume" ELSE "connect"])
    /\ pump' = [pump EXCEPT ![l].bound = TRUE, ![l].pc = "take"]
    /\ UNCHANGED <<pumpFrame, cacheVars, returnVars>>

\* The bind message: the original request first, Resume from then on.
PumpBinds(l) ==
    /\ pump[l].pc = "bind"
    /\ IF Writes(pump[l].to)
         THEN /\ fwd' = Append(fwd,
                   [to |-> pump[l].to, n |-> 0,
                    kind |-> IF pump[l].bound THEN "resume" ELSE "connect"])
              /\ pump' = [pump EXCEPT ![l].bound = TRUE, ![l].pc = "take"]
         ELSE /\ pump' = [pump EXCEPT ![l] =
                              Rebinding(pump[l], pump[l].pending)]
              /\ UNCHANGED fwd
    /\ UNCHANGED <<pumpFrame, cacheVars, returnVars>>

\* drainConnectorReturn towards the link that owned the channel.
PumpTakes(l) ==
    /\ pump[l].pc = "take"
    /\ pump' = [pump EXCEPT ![l].held = Taken,
                            ![l].pc = IF Taken = <<>> THEN "forward"
                                                      ELSE "replay"]
    /\ back' = [back EXCEPT !.items = <<>>]
    /\ UNCHANGED <<pumpFrame, toConnector, toClient, cached, pumpActive, orphan,
                   returnVars, fwd>>

PumpReplays(l) ==
    LET held == pump[l].held
        left == IF Writes(pump[l].target) THEN Tail(held) ELSE <<>>
    IN /\ pump[l].pc = "replay"
       /\ Replay(held, pump[l].target)
       /\ pump' = [pump EXCEPT ![l].held = left,
                               ![l].pc = IF left = <<>> THEN "forward"
                                                        ELSE "replay"]
       /\ UNCHANGED <<pumpFrame, toConnector, toClient, cached, pumpActive,
                      orphan, inbound, response, produced, fwd>>

\* The next message of the drain loop: the one whose write failed before, or
\* the head of the queue the pump took.
NextMessage(l) ==
    IF pump[l].pending # <<>> THEN pump[l].pending
      ELSE IF pump[l].closed THEN pump[l].rest
      ELSE orphan.items

\* Mutant: a message whose write failed goes to the end of the queue.
PumpForwardsLater(l) ==
    LET n == Head(NextMessage(l))
        ok == Writes(pump[l].to)
    IN /\ pump[l].pc = "forward"
       /\ NextMessage(l) # <<>>
       /\ orphan' = IF pump[l].closed THEN orphan
                      ELSE [orphan EXCEPT !.items = IF ok THEN Tail(@)
                                                    ELSE Append(Tail(@), n)]
       /\ pump' = [pump EXCEPT ![l] =
                     IF ok THEN [@ EXCEPT !.rest = IF pump[l].closed
                                                     THEN Tail(@) ELSE @]
                           ELSE Rebinding(pump[l], <<>>)]
       /\ fwd' = IF ok THEN Append(fwd, [to |-> pump[l].to, kind |-> "data",
                                         n |-> n])
                       ELSE fwd
       /\ UNCHANGED <<pumpFrame, toConnector, toClient, cached, pumpActive,
                      back, returnVars>>

\* A failed write keeps the message for the next provider.
PumpForwards(l) ==
    LET n == Head(NextMessage(l))
        again == pump[l].pending # <<>>
        ok == Writes(pump[l].to)
    IN /\ pump[l].pc = "forward"
       /\ NextMessage(l) # <<>>
       /\ orphan' = IF again \/ pump[l].closed THEN orphan
                      ELSE [orphan EXCEPT !.items = Tail(@)]
       /\ pump' = [pump EXCEPT ![l] =
                     IF ok THEN [@ EXCEPT !.pending = <<>>,
                                          !.rest = IF again \/ ~pump[l].closed
                                                     THEN pump[l].rest
                                                     ELSE Tail(pump[l].rest)]
                           ELSE Rebinding(pump[l], <<n>>)]
       /\ fwd' = IF ok THEN Append(fwd, [to |-> pump[l].to, kind |-> "data",
                                         n |-> n])
                       ELSE fwd
       /\ UNCHANGED <<pumpFrame, toConnector, toClient, cached, pumpActive,
                      back, returnVars>>

\* The queue is closed and empty: the pump returns.
PumpSeesClose(l) ==
    /\ pump[l].pc = "forward"
    /\ pump[l].closed
    /\ NextMessage(l) = <<>>
    /\ pump' = [pump EXCEPT ![l].pc = "retire"]
    /\ UNCHANGED <<pumpFrame, cacheVars, returnVars, fwd>>

\* Its deferred calls: pumpActive is cleared, then the channel removed.
PumpRetires(l) ==
    /\ pump[l].pc = "retire"
    /\ pumpActive' = FALSE
    /\ pump' = [pump EXCEPT ![l].pc = "cleanup"]
    /\ UNCHANGED <<pumpFrame, toConnector, toClient, cached, orphan, back,
                   returnVars, fwd>>

PumpCleansUp(l) ==
    /\ pump[l].pc = "cleanup"
    /\ CleanupConnectorChannel([pump EXCEPT ![l] = Ended])
    /\ UNCHANGED <<pumpFrame, inbound, response, produced, ret, fwd>>

(***************************************************************************)
(* messageDispatcher of provider link p.                                   *)
(***************************************************************************)
BoundOn(p, kinds) == \E i \in DOMAIN fwd : fwd[i].to = p /\ fwd[i].kind \in kinds

\* ConnectResponse: a goroutine is started ...
ResponseArrives(p) ==
    /\ Online(p)
    /\ BoundOn(p, {"connect"})
    /\ response.pc = "none"
    /\ response' = [response EXCEPT !.pc = "lookup"]
    /\ UNCHANGED <<linkVars, cacheVars, pump, inbound, produced, ret, lossy,
                   closing, sent, fwd, told>>

\* ... which looks the connector up (without one, the response is dropped) ...
ResponseLooksUp ==
    /\ response.pc = "lookup"
    /\ response' = [pc |-> IF toConnector = NoLink THEN "done" ELSE "write",
                    target |-> toConnector]
    /\ UNCHANGED <<linkVars, cacheVars, pump, inbound, produced, ret, lossy,
                   closing, sent, fwd, told>>

\* ... and writes to it, or buffers the response.
ResponseWrites ==
    /\ response.pc = "write"
    /\ response' = [pc |-> "done", target |-> NoLink]
    /\ IF Writes(response.target)
         THEN /\ ret' = Append(ret, 0)
              /\ UNCHANGED <<back, lossy>>
         ELSE /\ BufferConnectorReturn(0)
              /\ UNCHANGED ret
    /\ UNCHANGED <<linkVars, toConnector, toClient, cached, pumpActive, orphan,
                   pump, inbound, produced, closing, sent, fwd, told>>

\* Data (or a sealed frame): the dispatcher itself looks the connector up ...
DataArrives(p) ==
    /\ Online(p)
    /\ BoundOn(p, {"connect", "resume"})
    /\ response.pc # "none"
    /\ inbound[p] = Idle
    /\ produced < MaxBack
    /\ produced' = produced + 1
    /\ inbound' = [inbound EXCEPT ![p] = [n |-> produced + 1,
                                          target |-> toConnector]]
    /\ UNCHANGED <<linkVars, cacheVars, pump, response, ret, lossy, closing,
                   sent, fwd, told>>

\* ... and writes to it, or buffers the payload.
DataWrites(p) ==
    LET m == inbound[p]
    IN /\ m # Idle
       /\ inbound' = [inbound EXCEPT ![p] = Idle]
       /\ IF Writes(m.target)
            THEN /\ ret' = Append(ret, m.n)
                 /\ UNCHANGED <<back, lossy>>
            ELSE /\ BufferConnectorReturn(m.n)
                 /\ UNCHANGED ret
       /\ UNCHANGED <<linkVars, toConnector, toClient, cached, pumpActive,
                      orphan, pump, response, produced, closing, sent, fwd,
                      told>>

\* Disconnect: disconnectChannel runs on a goroutine of its own.
ProviderDisconnectArrives(p) ==
    /\ Online(p)
    /\ BoundOn(p, {"connect", "resume"})
    /\ closing = "no"
    /\ closing' = "provider"
    /\ UNCHANGED <<linkVars, cacheVars, pump, returnVars, sent, fwd, told>>

\* expireConnectorReturn: a bound channel keeps its replies.
ExpireConnectorReturn ==
    /\ back.timer
    /\ back' = IF toConnector # NoLink THEN [back EXCEPT !.timer = FALSE]
                                       ELSE NoQueue
    /\ lossy' = (lossy \/ toConnector = NoLink)
    /\ UNCHANGED <<linkVars, toConnector, toClient, cached, pumpActive, orphan,
                   pump, inbound, response, produced, ret, closing, sent, fwd,
                   told>>

(***************************************************************************)
(* The specification.  A fair server finishes what it has started: each    *)
(* goroutine goes on, timers fire, and the read deadline ends a broken     *)
(* link.  Nothing is assumed of the links and their messages.              *)
(***************************************************************************)
PumpStep(l) ==
    \/ PumpStarts(l) \/ PumpDenied(l) \/ PumpLoops(l) \/ PumpPicks(l)
    \/ PumpTimesOut(l) \/ PumpPublishes(l) \/ PumpBinds(l) \/ PumpTakes(l)
    \/ PumpReplays(l) \/ PumpForwards(l) \/ PumpSeesClose(l)
    \/ PumpRetires(l) \/ PumpCleansUp(l)

RebindStep(l) ==
    RebindScans(l) \/ RebindChecks(l) \/ RebindTakes(l) \/ RebindReplays(l)

LinkStep(w) == LinkDeparts(w) \/ GraceFires(w) \/ GraceExpires(w)

ResponseStep == ResponseLooksUp \/ ResponseWrites

Next ==
    \/ \E l \in Connectors :
         \/ RegisterConnector(l) \/ PongArrives(l)
         \/ ConnectArrives(l) \/ RouteConnectorPayload(l)
         \/ DisconnectArrives(l)
         \/ PumpStep(l) \/ RebindStep(l)
    \/ \E p \in Providers :
         \/ RegisterProvider(p) \/ ResponseArrives(p) \/ DataArrives(p)
         \/ DataWrites(p) \/ ProviderDisconnectArrives(p)
    \/ \E w \in Links : LinkBreaks(w) \/ LinkStep(w)
    \/ ResponseStep
    \/ DisconnectRuns
    \/ ExpireOrphanData
    \/ ExpireConnectorReturn

Spec == Init /\ [][Next]_vars

Fairness ==
    /\ \A l \in Connectors : WF_vars(PumpStep(l)) /\ WF_vars(RebindStep(l))
    /\ \A p \in Providers : WF_vars(DataWrites(p))
    /\ \A w \in Links : WF_vars(LinkStep(w))
    /\ WF_vars(ResponseStep)
    /\ WF_vars(DisconnectRuns)
    /\ WF_vars(ExpireOrphanData)
    /\ WF_vars(ExpireConnectorReturn)

FairSpec == Spec /\ Fairness

(***************************************************************************)
(* Properties.                                                             *)
(***************************************************************************)
Connector == Connectors \cup {NoLink}
Provider == Providers \cup {NoLink}
Queue == [on : BOOLEAN, items : Seq(Nat), timer : BOOLEAN]
Pump == [pc : {"none", "starting", "loop", "waiting", "publish", "bind", "take", "replay",
               "forward", "retire", "cleanup", "done"},
         resume : BOOLEAN, bound : BOOLEAN, to : Provider, target : Connector,
         pending : Seq(Nat), held : Seq(Nat), closed : BOOLEAN, rest : Seq(Nat)]
Rebind == [pc : {"none", "scan", "check", "take", "replay", "done"},
           online : SUBSET Connectors, held : Seq(Nat)]

\* The variables keep their types; a queue never holds more than
\* orphanDataQueueSize, and one that was removed holds nothing and has no timer.
TypeOK ==
    /\ link \in [Links -> {"new", "up", "broken", "gone"}]
    /\ ponged \subseteq Connectors
    /\ toConnector \in Connector
    /\ toClient \in Provider
    /\ cached \in BOOLEAN
    /\ pumpActive \in BOOLEAN
    /\ orphan \in Queue /\ Len(orphan.items) <= QueueSize /\ (~orphan.on => orphan = NoQueue)
    /\ back \in Queue /\ Len(back.items) <= QueueSize /\ (~back.on => back = NoQueue)
    /\ pump \in [Connectors -> Pump]
    /\ rebind \in [Connectors -> Rebind]
    /\ inbound \in [Providers -> [n : Nat \cup {-1}, target : Connector]]
    /\ response \in [pc : {"none", "lookup", "write", "done"}, target : Connector]
    /\ grace \in [Links -> [pc : {"off", "armed", "expiring"}, peer : Links \cup {NoLink}]]
    /\ closing \in {"no", "connector", "provider", "done"}
    /\ sent \in Seq(Connectors)
    /\ produced \in Nat
    /\ fwd \in Seq([to : Providers, kind : {"connect", "resume", "data"}, n : Nat])
    /\ ret \in Seq(Nat)
    /\ told \subseteq Links
    /\ lossy \in BOOLEAN

Draining(l) == pump[l].pc \notin {"none", "starting", "cleanup", "done"}

\* A channel bound to a provider has its orphan queue, so routeConnectorPayload
\* never writes to the provider past the pump ("data is never sent directly
\* while draining", server.go:2566), and one pump at most drains it.
QueueWhileBound ==
    /\ toClient # NoLink => orphan.on
    /\ \A k, l \in Connectors : Draining(k) /\ Draining(l) => k = l

\* What is written to a provider link for the channel starts with a Connect or
\* a Resume (server.go:2509), and what one connector link sends reaches the
\* providers at most once and in order, over every rebind, retry and change of
\* the queue.
BoundThenInOrder ==
    \A j \in DOMAIN fwd : fwd[j].kind = "data" =>
      /\ \E i \in 1 .. j - 1 : fwd[i].to = fwd[j].to /\ fwd[i].kind # "data"
      /\ \A i \in 1 .. j - 1 :
           fwd[i].kind = "data" /\ sent[fwd[i].n] = sent[fwd[j].n] => fwd[i].n < fwd[j].n

Returned == Elems(ret)
InHand ==
    Elems(back.items) \cup {inbound[p].n : p \in Providers}
      \cup UNION {Elems(pump[l].held) \cup Elems(rebind[l].held) : l \in Connectors}

\* A reply the server has taken is written to a connector link exactly once: it
\* is buffered or in a goroutine's hands until then, unless the channel is
\* removed, a queue overflows or an unbound one expires, and of the dispatcher,
\* the rebind and the pump only one writes it.
ReplyKeptOnce ==
    /\ lossy \/ 1 .. produced \subseteq Returned \cup InHand
    /\ \A i, j \in DOMAIN ret : ret[i] = ret[j] => i = j

\* Buffered connector data does not stay in the orphan queue for ever while a
\* provider is connected: it is forwarded, or the channel is removed.
QueueDrains ==
    orphan.items # <<>> ~> (orphan.items = <<>> \/ \A p \in Providers : link[p] # "up")

\* "... so replayed data can never overtake a fresh ReturnPathMessage stream",
\* and "the original order is preserved" (server.go:2721, 2739): one provider
\* link's replies reach the connector in order.
ReplyInOrder == \A i, j \in DOMAIN ret : i < j => ret[i] <= ret[j]

\* The connect response reaches the connector before the data that follows it
\* (docs/guide/message-protocol.md, the TCP connection flow).
ResponseFirst ==
    \A i \in DOMAIN ret : ret[i] = 0 => i = 1

\* Replies buffered because the connector was away are "replayed on the
\* reconnected link" (server.go:1777) once the channel is on one that is up.
ReplyDelivered ==
    \A n \in 1 .. MaxBack :
      n \in Elems(back.items) /\ Writes(toConnector)
        ~> (lossy \/ n \in Returned \/ ~Writes(toConnector))

\* "only a genuinely live link keeps its channel mappings" (server.go:2198):
\* and it does keep them when another connector link registers.
LiveLinkKeeps ==
    [][\A l \in Connectors :
         RebindChecks(l) /\ Writes(toConnector) => toConnector' = toConnector]_vars

\* A reconnected connector link takes over the channels of "its dead
\* predecessor" (server.go:1335), not those of another connector.
StaysWithClient == toConnector \in Mine \cup {NoLink}

\* "First bind sends the original request; every rebind after a link drop
\* sends Resume so the provider's existing channel is switched" (server.go:2543).
ConnectBeforeResume ==
    \A i \in DOMAIN fwd : fwd[i].kind = "resume" =>
      \E j \in 1 .. i - 1 : fwd[j].kind = "connect"

\* When the channel of a departed connector link expires, "the surviving peer
\* is notified with a disconnect" (server.go:2217).
ExpiryTellsPeer ==
    [][\A w \in Connectors :
         GraceExpires(w) /\ Writes(toClient) => toClient \in told']_vars

\* "DisconnectMessage sent when either side closes"
\* (docs/guide/message-protocol.md:146): the provider learns that the
\* connector closed the channel.
CloseTellsProvider ==
    [][DisconnectRuns /\ closing = "connector" /\ Writes(toClient)
         => toClient \in told']_vars

\* Channels on a departed link survive the grace window, "then are torn down"
\* (server.go:2163): the channel does not stay on a link that is gone.
DepartedTornDown ==
    \A l \in Connectors :
      (toConnector = l /\ link[l] = "gone") ~> toConnector # l
=============================================================================
