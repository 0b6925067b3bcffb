---------------------------- MODULE ChannelSetup ----------------------------
(***************************************************************************)
(* One request of a local proxy client, from the accepted connection to    *)
(* the release of everything it left behind at both relays.                *)
(*                                                                         *)
(* local_proxy.go  SOCKS5 and HTTP front ends                              *)
(* relay.go        HandleSocksRequest, HandleNetworkConnection, the UDP    *)
(*                 loops, orphan data, the fast-open timer, doCleanup      *)
(* access.go       in AccessRules                                          *)
(* server.go, client.go, direct_transport_quic.go  the dispatchers         *)
(*                                                                         *)
(* The entry relay talks to the client, the dialer relay to the target;    *)
(* one of the two is at the server, the other at a client (what lies       *)
(* between two clients is in ConnectorRelay).  The TCP loops are abstract: *)
(* TCPForward has them in detail.  Times are left out: a timer may fire as *)
(* soon as it runs.                                                        *)
(***************************************************************************)
EXTENDS AccessRules

CONSTANTS Links,       \* WebSocket connections
          QueueSize,   \* 1000, of a channel's queue and of its orphan buffer
          MaxUp,       \* bound on what the client sends
          MaxDown,     \* bound on what the target sends
          HTTPPort,    \* 80
          HTTPSPort,   \* 443
          Plans        \* what a behaviour may hold

Sides == {"entry", "dialer"}
\* A value of *AccessControl, kept as the list it was parsed from.
NoRules == [set |-> FALSE, rules |-> <<>>]
Rules(raw) == [set |-> TRUE, rules |-> raw]

\* What a client sends: its first byte decides proto, form says what is wrong
\* with it, port -1 is a missing port.
Request == [proto : {"socks", "http", "other"}, methods : SUBSET {"none", "userpass"}, cred : {"right", "wrong", "absent"},
            form : {"good", "version", "short", "type", "https"}, cmd : {"connect", "udp", "get", "bind"},
            host : Hosts \cup {""}, port : -1..(MaxPort + 1)]

\* server: the side at the server; auth: the listener asks for credentials;
\* backend: a link is there when the request arrives; token, option, dial and
\* forward: rules of the reverse token, of the options and of the forward
\* token; later: what the API makes the server's runtime rules; breaks: a link may break;
\* first: the target may speak first.
PlanOK(p) ==
  /\ p.server \in Sides /\ p.links \subseteq Links /\ p.links # {}
  /\ p.request \in Request /\ p.upstream \in {"none", "socks", "http", "silent"}
  /\ \A f \in {p.v2, p.fastOpen, p.auth, p.backend, p.breaks, p.first} : f \in BOOLEAN
  /\ p.v2 => Cardinality(p.links) = 1
  /\ \A r \in {p.token, p.option, p.dial, p.forward, p.later} : r \in [set : BOOLEAN, rules : RawRules] /\ RulesParse(r.rules)

ASSUME ChannelSetupAssumption ==
  /\ QueueSize \in Nat \ {0} /\ MaxUp \in Nat /\ MaxDown \in Nat
  /\ HTTPPort \in 1..MaxPort /\ HTTPSPort \in 1..MaxPort
  /\ \A p \in Plans : PlanOK(p)

VARIABLES
  plan,      \* the plan of this behaviour
  conn,      \* the local connection: "open", "left" by the client or "closed"
  answer,    \* what the client was told
  pc,        \* the handler of the request at the entry
  timer,     \* the fast-open timer: "off", "armed" or "fired"
  relay,     \* relay[s]: the tables of side s for the channel
  reply,     \* goroutines of the server with a ConnectResponse in hand
  serving,   \* the dialer's handler
  target,    \* the dialer's connection: "none", "open", "ended" or "closed"
  net,       \* net[s][l]: messages on link l to side s
  alive,     \* links that work
  runtime,   \* entryAC or dialAC of the server's relay, set by the API
  count,     \* payloads that the client and the target have sent
  got,       \* history: got[s]: what side s has written out
  granted,   \* history: what the checks should have said
  confirmed  \* history: a success has reached the entry

local == <<conn, answer, pc, timer>>
remote == <<serving, target>>
history == <<got, granted, confirmed>>
vars == <<plan, local, relay, reply, remote, net, alive, runtime, count, history>>

request == plan.request
udp == request.cmd = "udp"

NewTables == [queue |-> FALSE, inbox |-> <<>>, logical |-> FALSE, closed |-> FALSE, cancel |-> FALSE, ctx |-> FALSE,
              active |-> FALSE, success |-> FALSE, client |-> FALSE, cleanups |-> 0, buffered |-> FALSE, orphans |-> <<>>,
              socket |-> FALSE, links |-> {}]

Init ==
  /\ plan \in Plans
  /\ conn = "open" /\ answer = "none" /\ pc = "accepted" /\ timer = "off"
  /\ relay = [s \in Sides |-> NewTables]
  /\ reply = <<>>
  /\ serving = "none" /\ target = "none"
  /\ net = [s \in Sides |-> [l \in Links |-> <<>>]]
  /\ alive = plan.links
  /\ runtime = NoRules
  /\ count = [s \in Sides |-> 0]
  /\ got = [s \in Sides |-> <<>>]
  /\ granted = TRUE /\ confirmed = FALSE

Connect == [type |-> "connect", n |-> 0, ok |-> TRUE]
Data(n, ok) == [type |-> "data", n |-> n, ok |-> ok]
Response(ok) == [type |-> "response", n |-> 0, ok |-> ok]
Disconnect == [type |-> "disconnect", n |-> 0, ok |-> TRUE]

Other(s) == CHOOSE t \in Sides : t # s

\* The links a side may write on: a client takes the next one for every
\* message, the server keeps the one of the request.
Writable(s) == IF relay[s].closed THEN {} ELSE alive \cap (IF s = plan.server THEN relay[s].links ELSE plan.links)
Send(s, m) == \E l \in Writable(s) : net' = [net EXCEPT ![Other(s)][l] = Append(@, m)]
CanSend(s) == Writable(s) # {}
\* A write whose error nobody looks at.
SendOrLose(s, m) == IF CanSend(s) THEN Send(s, m) ELSE UNCHANGED net

Room(s) == Len(relay[s].inbox) < QueueSize
\* disconnectChannel, which only queues the cleanup.
Requeued(r, times) == [r EXCEPT !.cleanups = @ + times]

-----------------------------------------------------------------------------
\* The front ends: what a request is answered before anything is shared, or "go".

TargetPort(default) == IF request.proto = "http" /\ request.port = -1 THEN default ELSE request.port
DefaultPort == IF request.cmd = "connect" THEN HTTPSPort ELSE HTTPPort
parseHTTPProxyTarget(default) == request.host # "" /\ TargetPort(default) \in 1..MaxPort

authenticateHTTPProxy == plan.auth => request.cred = "right"

HandleHTTPProxyRequest ==
  IF request.form = "short" THEN "closed"
  ELSE IF ~authenticateHTTPProxy THEN "unauthorized"
  ELSE IF request.cmd # "connect" /\ (request.host = "" \/ request.form = "https") THEN "badRequest"
  ELSE IF ~parseHTTPProxyTarget(DefaultPort) THEN "badRequest"
  ELSE "go"

SocksAuthenticates == plan.auth => "userpass" \in request.methods /\ request.cred = "right"

HandleSocksHandshake ==
  IF request.methods = {} THEN "failure"
  ELSE IF ~SocksAuthenticates THEN "unauthorized"
  ELSE IF request.form \in {"version", "short", "type"} THEN "failure"
  ELSE IF request.cmd \notin {"connect", "udp"} THEN "closed"
  ELSE "go"

HandleLocalProxyRequest ==
  CASE request.proto = "socks" -> HandleSocksHandshake
    [] request.proto = "http" -> HandleHTTPProxyRequest
    [] OTHER -> "closed"

-----------------------------------------------------------------------------
\* Access rules.

checkRule(ac, host, port) == Allow(NewAccessControl(ac.rules), host, port)
EntryAccessControlOption == IF plan.server = "entry" /\ plan.token.set THEN plan.token ELSE plan.option
\* The rule of the token in the context, else the runtime rule, else the option.
EntryAccessControl ==
  CASE plan.server = "entry" /\ plan.token.set -> plan.token
    [] plan.server = "entry" /\ ~plan.token.set /\ runtime.set -> runtime
    [] OTHER -> plan.option
checkEntryAccess(host, port) == checkRule(EntryAccessControl, host, port)
DialAccessControl == IF plan.server = "dialer" /\ runtime.set THEN runtime ELSE plan.dial
checkDialAccess(host, port) == checkRule(DialAccessControl, host, port)
\* The forward token's rule, which the server checks before it dials; the request
\* of a UDP association names no address, and only empty rules let it pass.
checkForwardAccess ==
  plan.server = "dialer" => IF udp THEN Empty(NewAccessControl(plan.forward.rules))
                                   ELSE checkRule(plan.forward, request.host, TargetPort(DefaultPort))

\* SetEntryAccessControl or SetDialAccessControl, by the API of the server.
SetAccessControl ==
  /\ plan.later.set /\ ~runtime.set
  /\ runtime' = plan.later
  /\ UNCHANGED <<plan, local, relay, reply, remote, net, alive, count, history>>

\* What the rules mean for a destination at side s: of those that may apply the
\* first that is set decides.
Ranked(s) ==
  LET own == IF s = "entry" THEN plan.option ELSE plan.dial
  IN IF s = plan.server THEN <<IF s = "entry" THEN plan.token ELSE NoRules, runtime, own>> ELSE <<own>>
Permits(s, host, port) ==
  \A i \in DOMAIN Ranked(s) :
    Ranked(s)[i].set /\ (\A j \in 1..(i - 1) : ~Ranked(s)[j].set) => Permitted(Ranked(s)[i].rules, host, port)

-----------------------------------------------------------------------------
\* The entry.

LeaveQueue(said, tables) ==
  /\ pc' = "done" /\ conn' = "closed"
  /\ answer' = said
  /\ relay' = [relay EXCEPT !.entry = tables]
\* A deferred disconnectChannel of the request, and the answer it leaves with.
Leave(said, tables) ==
  /\ pc' = "done" /\ conn' = "closed"
  /\ answer' = said
  /\ relay' = [relay EXCEPT !.entry = Requeued(tables, 1)]

\* RefuseLocalProxyRequest, or what a front end refuses by itself.
Refuse ==
  /\ pc = "accepted"
  /\ ~plan.backend \/ HandleLocalProxyRequest # "go"
  /\ answer' = IF plan.backend THEN HandleLocalProxyRequest ELSE IF request.proto = "other" THEN "closed" ELSE "unavailable"
  /\ pc' = "done" /\ conn' = "closed"
  /\ UNCHANGED <<plan, timer, relay, reply, remote, net, alive, runtime, count, history>>

\* The server picks a link for the request.
Reserve(l) ==
  [relay.entry EXCEPT !.queue = TRUE, !.inbox = relay.entry.orphans, !.buffered = FALSE, !.orphans = <<>>,
                      !.socket = udp, !.links = IF plan.server = "entry" THEN {l} ELSE {}]

OpenChannel(l) ==
  /\ pc = "accepted" /\ plan.backend /\ HandleLocalProxyRequest = "go"
  /\ l \in plan.links
  /\ IF udp \/ checkEntryAccess(request.host, TargetPort(DefaultPort))
       THEN /\ relay' = [relay EXCEPT !.entry = Reserve(l)]
            /\ pc' = "opening"
            /\ granted' = (/\ plan.auth => request.cred = "right"
                           /\ udp \/ Permits("entry", request.host, TargetPort(DefaultPort)))
            /\ UNCHANGED <<conn, answer>>
       ELSE /\ IF request.proto = "socks" THEN Leave("denied", Reserve(l))
                 ELSE conn' = "closed" /\ answer' = "denied" /\ pc' = "done" /\ UNCHANGED relay
            /\ UNCHANGED granted
  /\ UNCHANGED <<plan, timer, reply, remote, net, alive, runtime, count, got, confirmed>>

Unanswered(said) == IF udp THEN "none" ELSE said

\* openChannelTransport fails: only the handshake of V2 can.
OpenTransportFails ==
  /\ pc = "opening" /\ plan.v2
  /\ Leave(Unanswered("unreachable"), [relay.entry EXCEPT !.socket = FALSE])
  /\ UNCHANGED <<plan, timer, reply, remote, net, alive, runtime, count, history>>

\* The logical channel and the request on it.
WriteConnect ==
  /\ pc = "opening"
  /\ IF CanSend("entry")
       THEN /\ Send("entry", Connect)
            /\ relay' = [relay EXCEPT !.entry.logical = TRUE]
            /\ pc' = IF plan.fastOpen THEN "reply" ELSE "wait"
            /\ timer' = IF plan.fastOpen /\ ~udp THEN "armed" ELSE "off"
            /\ UNCHANGED <<conn, answer>>
       ELSE /\ Leave(Unanswered("unreachable"), [relay.entry EXCEPT !.logical = TRUE, !.socket = FALSE])
            /\ UNCHANGED <<timer, net>>
  /\ UNCHANGED <<plan, reply, remote, alive, runtime, count, history>>

\* The first message of the queue has to be the answer to the request.
AwaitAny ==
  /\ pc = "wait" /\ relay.entry.inbox # <<>>
  /\ LET m == Head(relay.entry.inbox)
         rest == [relay.entry EXCEPT !.inbox = Tail(@)]
     IN \/ m.type = "response" /\ pc' = "reply" /\ relay' = [relay EXCEPT !.entry = rest] /\ UNCHANGED <<conn, answer>>
        \/ m.type # "response" /\ Leave("unexpected", rest)
  /\ UNCHANGED <<plan, timer, reply, remote, net, alive, runtime, count, history>>
AwaitResponse ==
  /\ pc = "wait" /\ relay.entry.inbox # <<>>
  /\ LET m == Head(relay.entry.inbox)
         rest == [relay.entry EXCEPT !.inbox = Tail(@)]
     IN \/ m.type = "response" /\ m.ok /\ pc' = "reply" /\ relay' = [relay EXCEPT !.entry = rest] /\ UNCHANGED <<conn, answer>>
        \/ m.type = "response" /\ ~m.ok /\ Leave(Unanswered("unreachable"), [rest EXCEPT !.socket = FALSE])
        \/ m.type # "response" /\ Leave("unexpected", rest)
  /\ UNCHANGED <<plan, timer, reply, remote, net, alive, runtime, count, history>>

NeverTimesOut == pc = "wait" /\ FALSE /\ UNCHANGED vars
AwaitTimeout ==
  /\ pc = "wait"
  /\ Leave(Unanswered("timeout"), [relay.entry EXCEPT !.socket = FALSE])
  /\ UNCHANGED <<plan, timer, reply, remote, net, alive, runtime, count, history>>

\* The success reply, and what Handle*Forward sets up before its goroutines run.
Reply ==
  /\ pc = "reply"
  /\ \/ /\ pc' = "forward"
        /\ answer' = "ok"
        /\ relay' = [relay EXCEPT !.entry.logical = TRUE, !.entry.cancel = TRUE, !.entry.queue = TRUE,
                                  !.entry.inbox = IF relay.entry.queue THEN @ ELSE <<>>]
        /\ UNCHANGED conn
     \/ /\ conn = "left"
        /\ Leave("none", [relay.entry EXCEPT !.socket = FALSE])
  /\ UNCHANGED <<plan, timer, reply, remote, net, alive, runtime, count, history>>

\* A payload of the client; a datagram has a destination of its own.
ReadLocal ==
  /\ pc = "forward" /\ conn = "open" /\ ~relay.entry.ctx /\ CanSend("entry")
  /\ count.entry < MaxUp
  /\ count' = [count EXCEPT !.entry = @ + 1]
  /\ \E host \in IF udp THEN Hosts ELSE {request.host} :
       LET port == IF udp THEN request.port ELSE TargetPort(DefaultPort)
       IN IF udp => checkEntryAccess(host, port)
            THEN /\ Send("entry", Data(count.entry + 1, udp => Permits("entry", host, port)))
                 /\ relay' = [relay EXCEPT !.entry.active = TRUE, !.entry.client = udp]
            ELSE /\ relay' = [relay EXCEPT !.entry.client = TRUE]
                 /\ UNCHANGED net
  /\ UNCHANGED <<plan, local, reply, remote, alive, runtime, history>>

\* The other goroutine: data to the client, everything else is skipped, and so
\* is a datagram for a client that has not sent one.
WriteLocal ==
  /\ pc = "forward" /\ relay.entry.inbox # <<>>
  /\ LET m == Head(relay.entry.inbox)
     IN /\ relay' = [relay EXCEPT !.entry.inbox = Tail(@), !.entry.active = @ \/ m.type = "data"]
        /\ got' = IF m.type = "data" /\ (udp => relay.entry.client) THEN [got EXCEPT !.entry = Append(@, m)] ELSE got
  /\ UNCHANGED <<plan, local, reply, remote, net, alive, runtime, count, granted, confirmed>>

\* The monitor goroutine of a UDP association.
MonitorLocal ==
  /\ relay.entry.socket /\ conn # "open" /\ answer = "ok"
  /\ relay' = [relay EXCEPT !.entry.socket = FALSE, !.entry.ctx = TRUE]
  /\ UNCHANGED <<plan, local, reply, remote, net, alive, runtime, count, history>>

\* Forwarding ends with the client, with the context or with a write of the
\* client's data that fails; the deferred calls of the forwarder and of the
\* handler run.
LocalEnded == relay.entry.ctx \/ (conn = "left" /\ ~udp)
EndForward ==
  /\ pc = "forward"
  /\ LocalEnded \/ (~CanSend("entry") /\ count.entry < MaxUp)
  /\ SendOrLose("entry", Disconnect)
  /\ pc' = "done" /\ conn' = "closed"
  /\ relay' = [relay EXCEPT !.entry = [Requeued(@, 2) EXCEPT !.cancel = FALSE, !.ctx = TRUE, !.active = FALSE]]
  /\ UNCHANGED <<plan, answer, timer, reply, remote, alive, runtime, count, history>>

ClientLeaves ==
  /\ conn = "open" /\ pc # "accepted"
  /\ conn' = "left"
  /\ UNCHANGED <<plan, answer, pc, timer, relay, reply, remote, net, alive, runtime, count, history>>

\* armFastOpenTimeout
FastOpenTimeout ==
  /\ timer = "armed"
  /\ timer' = "fired"
  /\ relay' = [relay EXCEPT !.entry = IF relay.entry.success THEN [@ EXCEPT !.success = FALSE] ELSE Requeued(@, 1)]
  /\ UNCHANGED <<plan, conn, answer, pc, reply, remote, net, alive, runtime, count, history>>

-----------------------------------------------------------------------------
\* Both relays.

\* doCleanup
Cleaned(r) ==
  [r EXCEPT !.cleanups = @ - 1, !.ctx = @ \/ r.cancel, !.cancel = FALSE, !.queue = FALSE,
            !.closed = @ \/ r.logical \/ plan.v2, !.logical = FALSE, !.client = FALSE, !.success = FALSE, !.active = FALSE]
Cleanup(s) ==
  /\ relay[s].cleanups > 0
  /\ relay' = [relay EXCEPT ![s] = Cleaned(@)]
  /\ UNCHANGED <<plan, local, reply, remote, net, alive, runtime, count, history>>

\* channelCleaner: a channel without a time of last activity is left alone.
CleanIdle(s) ==
  /\ relay[s].cancel /\ relay[s].active
  /\ relay' = [relay EXCEPT ![s] = [@ EXCEPT !.cancel = FALSE, !.active = FALSE, !.ctx = TRUE]]
  /\ UNCHANGED <<plan, local, reply, remote, net, alive, runtime, count, history>>

\* expireOrphanData
ExpireOrphans(s) ==
  /\ relay[s].buffered
  /\ relay' = [relay EXCEPT ![s].buffered = FALSE, ![s].orphans = <<>>]
  /\ UNCHANGED <<plan, local, reply, remote, net, alive, runtime, count, history>>

Enqueued(s, m) == [relay[s] EXCEPT !.inbox = IF Room(s) THEN Append(@, m) ELSE @]
Buffered(s, m) == [relay[s] EXCEPT !.buffered = TRUE, !.orphans = IF Len(@) < QueueSize THEN Append(@, m) ELSE @]
\* What data does to the tables: a client buffers what belongs to no channel it
\* knows, the server takes it for a connector's.
Delivered(s, m) ==
  CASE plan.v2 /\ relay[s].closed -> relay[s]
    [] ~(plan.v2 /\ relay[s].closed) /\ relay[s].queue -> Enqueued(s, m)
    [] ~(plan.v2 /\ relay[s].closed) /\ ~relay[s].queue /\ s # plan.server /\ ~relay[s].logical -> Buffered(s, m)
    [] OTHER -> relay[s]

LinkBreaks(l) ==
  /\ plan.breaks /\ l \in alive
  /\ alive' = alive \ {l}
  /\ net' = [s \in Sides |-> [net[s] EXCEPT ![l] = <<>>]]
  /\ UNCHANGED <<plan, local, relay, reply, remote, runtime, count, history>>

-----------------------------------------------------------------------------
\* Messages to the entry.

Confirm(ok) == confirmed' = (confirmed \/ ok)

ConfirmedLost(ok) == IF ok THEN relay.entry ELSE Requeued(relay.entry, 1)
\* A response in fast-open mode, by the legacy protocol.
Confirmed(ok) == IF ok THEN [relay.entry EXCEPT !.success = TRUE] ELSE Requeued(relay.entry, 1)

\* secureSession.dispatch gives the handler's queue whatever arrives; it waits
\* for room while the session lasts.
DeliverToQueue(m) ==
  /\ Room("entry") \/ relay.entry.closed
  /\ relay' = IF relay.entry.closed THEN relay ELSE [relay EXCEPT !.entry = Enqueued("entry", m)]

\* A client's dispatcher handles a response by itself; the server's leaves it to
\* a goroutine.
TakeResponse(m) ==
  IF plan.server = "entry"
    THEN reply' = Append(reply, m) /\ UNCHANGED <<relay, confirmed>>
    ELSE /\ UNCHANGED reply
         /\ IF plan.fastOpen THEN relay' = [relay EXCEPT !.entry = Confirmed(m.ok)] /\ Confirm(m.ok)
              ELSE /\ relay' = IF relay.entry.queue THEN [relay EXCEPT !.entry = Enqueued("entry", m)] ELSE relay
                   /\ Confirm(m.ok /\ relay.entry.queue)

EntryTakes(l) ==
  /\ net.entry[l] # <<>>
  /\ net' = [net EXCEPT !.entry[l] = Tail(@)]
  /\ LET m == Head(net.entry[l])
     IN \/ m.type = "response" /\ ~plan.v2 /\ TakeResponse(m)
        \/ m.type = "response" /\ plan.v2 /\ DeliverToQueue(m) /\ Confirm(m.ok) /\ UNCHANGED reply
        \/ m.type = "data" /\ plan.v2 /\ DeliverToQueue(m) /\ UNCHANGED <<reply, confirmed>>
        \/ m.type = "data" /\ ~plan.v2 /\ relay' = [relay EXCEPT !.entry = Delivered("entry", m)] /\ UNCHANGED <<reply, confirmed>>
        \/ /\ m.type = "disconnect"
           /\ relay' = [relay EXCEPT !.entry = [Requeued(relay.entry, 1) EXCEPT !.closed = @ \/ (plan.v2 /\ plan.server # "entry")]]
           /\ UNCHANGED <<reply, confirmed>>
  /\ UNCHANGED <<plan, local, remote, alive, runtime, count, got, granted>>

\* The server's goroutine: the response belongs to a queue, or to a connector.
HandleResponse ==
  /\ reply # <<>>
  /\ reply' = Tail(reply)
  /\ IF ~relay.entry.queue THEN UNCHANGED <<relay, confirmed>>
       ELSE /\ relay' = [relay EXCEPT !.entry = IF plan.fastOpen THEN Confirmed(Head(reply).ok) ELSE Enqueued("entry", Head(reply))]
            /\ Confirm(Head(reply).ok)
  /\ UNCHANGED <<plan, local, remote, net, alive, runtime, count, got, granted>>

-----------------------------------------------------------------------------
\* The dialer.

\* A request: the server checks the forward token's rule first, a client adds
\* to the queue what came before it.
Accepted(l) ==
  [relay.dialer EXCEPT !.queue = TRUE, !.links = {l},
     !.inbox = IF relay.dialer.queue THEN @ ELSE IF plan.server = "dialer" THEN <<>> ELSE relay.dialer.orphans,
     !.buffered = @ /\ plan.server = "dialer", !.orphans = IF plan.server = "dialer" THEN @ ELSE <<>>]
TakeConnect(l) ==
  IF checkForwardAccess
    THEN /\ relay' = [relay EXCEPT !.dialer = Accepted(l)]
         /\ serving' = "start"
         /\ net' = [net EXCEPT !.dialer[l] = Tail(@)]
    ELSE /\ net' = [net EXCEPT !.dialer[l] = Tail(@), !.entry[l] = Append(@, Response(FALSE))]
         /\ UNCHANGED <<relay, serving>>

\* The relay's session waits for room, a plaintext dispatcher does not.
DialerTakes(l) ==
  /\ net.dialer[l] # <<>>
  /\ LET m == Head(net.dialer[l])
     IN \/ m.type = "connect" /\ TakeConnect(l)
        \/ /\ m.type # "connect"
           /\ m.type = "data" /\ plan.v2 /\ plan.server = "dialer" => Room("dialer") \/ ~relay.dialer.queue \/ relay.dialer.closed
           /\ net' = [net EXCEPT !.dialer[l] = Tail(@)]
           /\ relay' = [relay EXCEPT !.dialer = IF m.type = "data" THEN Delivered("dialer", m)
                          ELSE [Requeued(relay.dialer, 1) EXCEPT !.closed = @ \/ (plan.v2 /\ plan.server # "dialer")]]
           /\ UNCHANGED serving
  /\ UNCHANGED <<plan, local, reply, target, alive, runtime, count, history>>

\* HandleNetworkConnection, up to the dial.
StartDial ==
  /\ serving = "start"
  /\ relay' = [relay EXCEPT !.dialer.logical = TRUE]
  /\ serving' = IF ~udp /\ TargetPort(DefaultPort) \notin 1..MaxPort THEN "done"
                ELSE IF udp \/ checkDialAccess(request.host, TargetPort(DefaultPort)) THEN "dialing"
                ELSE "refuse"
  /\ granted' = (granted /\ (serving' = "dialing" => udp \/ Permits("dialer", request.host, TargetPort(DefaultPort))))
  /\ UNCHANGED <<plan, local, reply, target, net, alive, runtime, count, got, confirmed>>

\* A failed dial, or a dial the rules do not allow, is reported and no more.
RefuseDial ==
  /\ serving = "refuse"
  /\ SendOrLose("dialer", Response(FALSE))
  /\ serving' = "done"
  /\ UNCHANGED <<plan, local, relay, reply, target, alive, runtime, count, history>>

\* What an upstream proxy may answer, and what is made of it.
UpstreamReplies == [version : BOOLEAN, method : {"none", "userpass", "other"}, accepts : BOOLEAN, grants : BOOLEAN]
socks5Handshake(r) == r.version /\ (r.method = "none" \/ (r.method = "userpass" /\ r.accepts))
dialViaSocks5(r) == socks5Handshake(r) /\ r.grants
dialViaHTTP(r) == r.grants
\* A UDP association has a socket of its own and goes past the proxy.
upstream == IF udp THEN "none" ELSE plan.upstream

DialFails ==
  /\ serving = "dialing" /\ upstream # "silent"
  /\ CASE upstream = "socks" -> \E r \in UpstreamReplies : ~dialViaSocks5(r)
       [] upstream = "http" -> \E r \in UpstreamReplies : ~dialViaHTTP(r)
       [] OTHER -> TRUE
  /\ serving' = "refuse"
  /\ UNCHANGED <<plan, local, relay, reply, target, net, alive, runtime, count, history>>

\* One read of an HTTP proxy's answer may take what the target sent first along.
DialSucceeds ==
  /\ serving = "dialing"
  /\ CASE upstream = "socks" -> \E r \in UpstreamReplies : dialViaSocks5(r)
       [] upstream = "http" -> \E r \in UpstreamReplies : dialViaHTTP(r)
       [] OTHER -> upstream # "silent"
  /\ serving' = "respond" /\ target' = "open"
  /\ relay' = [relay EXCEPT !.dialer.cancel = TRUE, !.dialer.ctx = FALSE]
  /\ \E eaten \in 0..(IF upstream = "http" /\ plan.first /\ MaxDown > 0 THEN 1 ELSE 0) : count' = [count EXCEPT !.dialer = eaten]
  /\ UNCHANGED <<plan, local, reply, net, alive, runtime, history>>

\* The success response, and what HandleRemote*Forward sets up.
Respond ==
  /\ serving = "respond"
  /\ IF CanSend("dialer")
       THEN /\ Send("dialer", Response(TRUE))
            /\ serving' = "forward"
            /\ relay' = [relay EXCEPT !.dialer.active = TRUE, !.dialer.queue = TRUE, !.dialer.logical = TRUE,
                                      !.dialer.inbox = IF relay.dialer.queue THEN @ ELSE <<>>]
            /\ UNCHANGED target
       ELSE /\ serving' = "done" /\ target' = "closed"
            /\ relay' = [relay EXCEPT !.dialer.cancel = FALSE, !.dialer.active = FALSE]
            /\ UNCHANGED net
  /\ UNCHANGED <<plan, local, reply, alive, runtime, count, history>>

ReadRemote ==
  /\ serving = "forward" /\ target = "open" /\ ~relay.dialer.ctx /\ CanSend("dialer")
  /\ count.dialer < MaxDown
  /\ plan.first \/ got.dialer # <<>>
  /\ count' = [count EXCEPT !.dialer = @ + 1]
  /\ Send("dialer", Data(count.dialer + 1, TRUE))
  /\ relay' = [relay EXCEPT !.dialer.active = TRUE]
  /\ UNCHANGED <<plan, local, reply, remote, alive, runtime, history>>

\* A datagram whose destination does not resolve is skipped.
WriteRemote ==
  /\ serving = "forward" /\ relay.dialer.inbox # <<>> /\ target # "ended"
  /\ LET m == Head(relay.dialer.inbox)
     IN /\ relay' = [relay EXCEPT !.dialer.inbox = Tail(@), !.dialer.active = @ \/ m.type = "data"]
        /\ got' \in {[got EXCEPT !.dialer = Append(@, m)]} \cup (IF udp THEN {got} ELSE {})
  /\ UNCHANGED <<plan, local, reply, remote, net, alive, runtime, count, granted, confirmed>>

TargetEnds ==
  /\ target = "open" /\ ~udp /\ serving = "forward"
  /\ target' = "ended"
  /\ UNCHANGED <<plan, local, relay, reply, serving, net, alive, runtime, count, history>>

\* The end of the target is told to the entry, the end of the context is not;
\* a UDP association, which a failed write ends too, tells nothing.
RemoteEnded == target = "ended" \/ relay.dialer.ctx
EndRemote ==
  /\ serving = "forward"
  /\ \/ target = "ended" /\ SendOrLose("dialer", Disconnect)
     \/ (relay.dialer.ctx \/ (~CanSend("dialer") /\ count.dialer < MaxDown) \/ (udp /\ relay.dialer.inbox # <<>>)) /\ UNCHANGED net
  /\ serving' = "done" /\ target' = "closed"
  /\ relay' = [relay EXCEPT !.dialer = [Requeued(@, 1) EXCEPT !.cancel = FALSE, !.active = FALSE]]
  /\ UNCHANGED <<plan, local, reply, alive, runtime, count, history>>

-----------------------------------------------------------------------------

Entry ==
  \/ Refuse \/ (\E l \in Links : OpenChannel(l)) \/ OpenTransportFails \/ WriteConnect
  \/ AwaitResponse \/ AwaitTimeout \/ Reply \/ WriteLocal \/ MonitorLocal \/ EndForward \/ FastOpenTimeout
Dialer == StartDial \/ RefuseDial \/ DialFails \/ DialSucceeds \/ Respond
Dispatch == HandleResponse \/ (\E l \in Links : EntryTakes(l) \/ DialerTakes(l))
Housekeeping == \E s \in Sides : Cleanup(s) \/ CleanIdle(s) \/ ExpireOrphans(s)
Environment == ReadLocal \/ ReadRemote \/ ClientLeaves \/ TargetEnds \/ SetAccessControl \/ (\E l \in Links : LinkBreaks(l))

Next == Entry \/ Dialer \/ WriteRemote \/ EndRemote \/ Dispatch \/ Housekeeping \/ Environment

Spec == Init /\ [][Next]_vars

\* Every goroutine gets its turns, every timer fires: nothing is assumed of the
\* client, of the target or of the links.
Fairness ==
  /\ WF_vars(Refuse \/ (\E l \in Links : OpenChannel(l))) /\ WF_vars(WriteConnect)
  /\ WF_vars(AwaitResponse \/ AwaitTimeout) /\ WF_vars(Reply) /\ WF_vars(WriteLocal) /\ WF_vars(MonitorLocal) /\ WF_vars(LocalEnded /\ EndForward)
  /\ WF_vars(FastOpenTimeout)
  /\ WF_vars(Dialer) /\ WF_vars(WriteRemote) /\ WF_vars(RemoteEnded /\ EndRemote)
  /\ WF_vars(HandleResponse) /\ \A l \in Links : WF_vars(EntryTakes(l)) /\ WF_vars(DialerTakes(l))
  /\ \A s \in Sides : WF_vars(Cleanup(s)) /\ WF_vars(CleanIdle(s)) /\ WF_vars(ExpireOrphans(s))

FairSpec == Spec /\ Fairness

-----------------------------------------------------------------------------
\* Properties.

\* A client without fast open that is told "ok" has a target that was dialled:
\* no other message, and no failure, passes for the answer (relay.go,
\* HandleSocksRequest; local_proxy.go, waitForConnectSuccess).
ReplyTruthful == answer = "ok" /\ ~plan.fastOpen => target # "none"

\* Whatever is dialled, and every datagram that is sent out, comes from a client
\* that gave the credentials, and the rules in force at each check allow it
\* (relay.go, checkEntryAccess, checkDialAccess; server.go, the forward token).
DialsAllowed ==
  /\ target # "none" => granted
  /\ target # "none" /\ ~udp /\ plan.server = "dialer" =>
       Permitted(plan.forward.rules, request.host, TargetPort(DefaultPort))
  /\ \A i \in DOMAIN got.dialer : got.dialer[i].ok

\* The fast-open timer does not tear down a channel in use whose success has
\* reached the entry (relay.go, the goroutine of HandleSocksRequest;
\* local_proxy.go, armFastOpenTimeout).
ConfirmedStays ==
  [][timer = "armed" /\ timer' = "fired" /\ confirmed /\ pc = "forward" /\ ~relay.entry.closed /\ relay.entry.cleanups = 0
       => relay'.entry.cleanups = 0]_vars

\* Every client is answered or let go, whatever the other side does (relay.go,
\* HandleSocksRequest; local_proxy.go, HandleHTTPProxyRequest).
Settles == <>(answer # "none" \/ conn # "open")

\* When a request is over the entry keeps no queue, channel, cancel function or
\* socket of it, and the dialer keeps no target open (relay.go, the deferred
\* calls of the handlers, doCleanup, channelCleaner).
Released ==
  pc = "done" ~> /\ ~relay.entry.queue /\ ~relay.entry.logical /\ ~relay.entry.cancel /\ ~relay.entry.socket
                 /\ target \notin {"open", "ended"}

\* Every variable holds values of its type, and a queue stays within its size.
TypeOK ==
  /\ plan \in Plans
  /\ conn \in {"open", "left", "closed"} /\ timer \in {"off", "armed", "fired"}
  /\ pc \in {"accepted", "opening", "wait", "reply", "forward", "done"}
  /\ \A s \in Sides : Len(relay[s].inbox) <= QueueSize /\ Len(relay[s].orphans) <= QueueSize /\ relay[s].cleanups \in 0..6
  /\ serving \in {"none", "start", "refuse", "dialing", "respond", "forward", "done"}
  /\ target \in {"none", "open", "ended", "closed"}
  /\ alive \subseteq plan.links /\ Len(reply) <= 1

\* Not properties of this code: cfgs of findings name them.
\* The dialer forgets a request whose dial failed.
DialerForgets == serving = "done" ~> ~relay.dialer.queue /\ ~relay.dialer.logical
\* A dial ends.
DialEnds == serving = "dialing" ~> serving # "dialing"
\* The entry learns that the dialer has given a channel up.
EntryLearns == serving = "done" /\ pc = "forward" ~> pc # "forward"
\* A target that speaks first does not fail the request that reached it.
FirstWordsWait == answer # "unexpected"
\* No record of a success outlives its channel.
SuccessForgotten == pc = "done" ~> ~relay.entry.success
=============================================================================
