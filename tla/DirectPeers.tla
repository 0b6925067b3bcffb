---------------------------- MODULE DirectPeers -----------------------------
(***************************************************************************)
(* How two clients of a token prepare a direct path (linksocks/client.go,  *)
(* server.go, direct_probe.go): each discovers its candidates, announces   *)
(* them with its session and its key, answers what the other announces,    *)
(* agrees on a pair session and probes until packets pass.                 *)
(*                                                                         *)
(* Goroutines: at a client the dispatcher of its link, the direct agent    *)
(* and retry timers; at the server one dispatcher per link, which reads    *)
(* and changes clientMeta under s.mu and writes after it.  A step is one   *)
(* hold of directMu or s.mu, or one write.                                 *)
(*                                                                         *)
(* A client has one link.  The session of a client stands for its key and  *)
(* its candidates as well, which are made once and never apart from it.    *)
(* Host candidates of peers behind one address are not modelled.           *)
(***************************************************************************)
EXTENDS Integers, Sequences

CONSTANTS Sessions,  \* what uuid.New may return, in the order of minUUID
          Starts,    \* the sessions two clients start with
          Budgets    \* what may go wrong: see faults

Peers == {"connector", "provider"}
Other(p) == CHOOSE q \in Peers : q # p
Nil == 0

ASSUME DirectPeersAssumption ==
  /\ Sessions \subseteq Nat \ {Nil}
  /\ Starts \subseteq [Peers -> Sessions] /\ \A s \in Starts : s["connector"] # s["provider"]
  /\ Budgets \subseteq [breaks : Nat, restarts : Nat, refreshes : Nat, failures : Nat, probes : Nat, calm : BOOLEAN]

minUUID(a, b) == IF a < b THEN a ELSE b

VARIABLES
  self,     \* of a client, the fields under directMu
  agent,    \* its direct agent
  notify,   \* directNotifyCh holds a token
  retry,    \* goroutines of retry timers: the one of the present backoff, and older ones
  quic,     \* directQUICStartOnce is done
  link,     \* its link: "down", "up", "lost" (not noticed by the server)
  up, down, \* messages from and to it
  meta,     \* clientMeta of its link
  handler,  \* dispatcher of its link at the server
  used,     \* sessions drawn so far
  faults    \* links that may still break, clients that may restart, candidates
            \* that may be refreshed, discoveries that may fail, and probes
            \* (bounds); calm: links and clients do not fail

client == <<self, agent, notify, retry, quic>>
net == <<link, up, down>>
server == <<meta, handler>>
vars == <<self, agent, notify, retry, quic, link, up, down, meta, handler, used, faults>>

\* DirectCapabilities, DirectRendezvous and DirectStatus; the session of a
\* rendezvous is that of the receiver, that of a status the pair session.
Message == [type : {"hello", "capabilities", "rendezvous", "probing", "ready", "failed"},
            session : Sessions \cup {Nil}, remote : Sessions \cup {Nil}]
Hello == [type |-> "hello", session |-> Nil, remote |-> Nil]
Capabilities(s) == [type |-> "capabilities", session |-> s, remote |-> Nil]
Rendezvous(to, s) == [type |-> "rendezvous", session |-> to, remote |-> s]
Status(kind, pair) == [type |-> kind, session |-> pair, remote |-> Nil]

\* deriveDirectSessionKey: both ends compute the same from one pair session and
\* their two keys.
NoKey == <<>>
deriveDirectSessionKey(pair, local, remote) == <<pair, {local, remote}>>

NewClient(s) ==
  [session |-> s, local |-> FALSE, pending |-> {}, remote |-> Nil, pair |-> Nil, key |-> NoKey,
   probing |-> FALSE, ready |-> FALSE, backoff |-> Nil, next |-> FALSE, armed |-> FALSE, degraded |-> FALSE]
NoAgent == [pc |-> "none", remote |-> Nil, pair |-> Nil, key |-> NoKey, heard |-> FALSE, arm |-> FALSE, todo |-> {}]
NoMeta == [on |-> FALSE, direct |-> FALSE, caps |-> Nil]
Waiting == [pc |-> "idle", msg |-> Hello]
NoTimers == [own |-> FALSE, old |-> 0]

Init ==
  /\ \E s \in Starts :
       /\ self = [p \in Peers |-> NewClient(s[p])]
       /\ used = {s[p] : p \in Peers}
  /\ agent = [p \in Peers |-> NoAgent]
  /\ notify = [p \in Peers |-> FALSE]
  /\ retry = [p \in Peers |-> NoTimers]
  /\ quic = [p \in Peers |-> FALSE]
  /\ link = [p \in Peers |-> "down"]
  /\ up = [p \in Peers |-> <<>>] /\ down = [p \in Peers |-> <<>>]
  /\ meta = [p \in Peers |-> NoMeta]
  /\ handler = [p \in Peers |-> Waiting]
  /\ faults \in Budgets

-----------------------------------------------------------------------------
\* Links and clients.

\* connectAndServe: authenticated and registered, the client says hello; the
\* first link starts the agent.
Connect(p) ==
  /\ link[p] = "down"
  /\ link' = [link EXCEPT ![p] = "up"]
  /\ up' = [up EXCEPT ![p] = <<Hello>>]
  /\ meta' = [meta EXCEPT ![p] = [NoMeta EXCEPT !.on = TRUE]]
  /\ agent' = [agent EXCEPT ![p].pc = IF @ = "none" THEN "discover" ELSE @]
  /\ UNCHANGED <<self, notify, retry, quic, down, handler, used, faults>>

\* The connection fails, with what was not read yet.
Lose(p) ==
  /\ link' = [link EXCEPT ![p] = IF @ = "up" THEN "lost" ELSE @]
  /\ \E n \in 0..Len(up[p]) : up' = [up EXCEPT ![p] = SubSeq(@, 1, n)]
  /\ down' = [down EXCEPT ![p] = <<>>]

LinkBreaks(p) ==
  /\ link[p] = "up" /\ faults.breaks > 0
  /\ faults' = [faults EXCEPT !.breaks = @ - 1]
  /\ Lose(p)
  /\ UNCHANGED <<client, server, used>>

\* The client is started again, with a session of its own.
Restart(p) ==
  /\ faults.restarts > 0
  /\ faults' = [faults EXCEPT !.restarts = @ - 1]
  /\ \E s \in Sessions \ used :
       /\ self' = [self EXCEPT ![p] = NewClient(s)]
       /\ used' = used \cup {s}
  /\ agent' = [agent EXCEPT ![p] = NoAgent]
  /\ notify' = [notify EXCEPT ![p] = FALSE]
  /\ retry' = [retry EXCEPT ![p] = NoTimers]
  /\ quic' = [quic EXCEPT ![p] = FALSE]
  /\ Lose(p)
  /\ UNCHANGED server

\* The server has read what there was and forgets the link.
Departs(p) ==
  /\ link[p] = "lost" /\ up[p] = <<>> /\ handler[p].pc = "idle"
  /\ link' = [link EXCEPT ![p] = "down"]
  /\ meta' = [meta EXCEPT ![p] = NoMeta]
  /\ UNCHANGED <<client, up, down, handler, used, faults>>

\* sendDirectMessage and WriteMessage of a client: lost without a link.
Sent(p, m) == IF link[p] = "up" THEN [up EXCEPT ![p] = Append(@, m)] ELSE up

-----------------------------------------------------------------------------
\* The server: handleCommonDispatcherMessage of the link of p.

Delivered(p, m) == IF link[p] = "up" THEN [down EXCEPT ![p] = Append(@, m)] ELSE down
Reachable(p) == meta[p].on /\ meta[p].direct

\* Mutant: capabilities are forwarded and not kept.
NotesNothing(p) ==
  LET m == Head(up[p])
  IN /\ handler[p].pc = "idle" /\ up[p] # <<>>
     /\ m.type \in {"hello", "capabilities"}
     /\ up' = [up EXCEPT ![p] = Tail(@)]
     /\ meta' = [meta EXCEPT ![p].direct = TRUE]
     /\ handler' = [handler EXCEPT ![p] = [pc |-> m.type, msg |-> m]]
     /\ UNCHANGED <<client, link, down, used, faults>>

\* A hello marks the client (markClientSupportsDirect), capabilities are kept.
NotesMessage(p) ==
  LET m == Head(up[p])
  IN /\ handler[p].pc = "idle" /\ up[p] # <<>>
     /\ m.type \in {"hello", "capabilities"}
     /\ up' = [up EXCEPT ![p] = Tail(@)]
     /\ meta' = [meta EXCEPT ![p].direct = TRUE,
                             ![p].caps = IF m.type = "capabilities" THEN m.session ELSE @]
     /\ handler' = [handler EXCEPT ![p] = [pc |-> m.type, msg |-> m]]
     /\ UNCHANGED <<client, link, down, used, faults>>

\* sendKnownPeerDirectCapabilities: what the peer announced last is looked up ...
LooksUpPeer(p) ==
  LET peer == meta[Other(p)]
  IN /\ handler[p].pc = "hello"
     /\ handler' = [handler EXCEPT ![p] = IF Reachable(Other(p)) /\ peer.caps # Nil
                                            THEN [pc |-> "tell", msg |-> Capabilities(peer.caps)]
                                            ELSE Waiting]
     /\ UNCHANGED <<client, net, meta, used, faults>>

\* ... and sent to the client.
TellsClient(p) ==
  /\ handler[p].pc = "tell"
  /\ down' = Delivered(p, handler[p].msg)
  /\ handler' = [handler EXCEPT ![p] = Waiting]
  /\ UNCHANGED <<client, link, up, meta, used, faults>>

\* forwardDirectMessageFromClient: the peer gets the message if its link
\* supports it.  Capabilities were kept before that, in a step of their own.
ForwardsCapabilities(p) ==
  /\ handler[p].pc = "capabilities"
  /\ down' = IF Reachable(Other(p)) THEN Delivered(Other(p), handler[p].msg) ELSE down
  /\ handler' = [handler EXCEPT ![p] = Waiting]
  /\ UNCHANGED <<client, link, up, meta, used, faults>>

ForwardsMessage(p) ==
  LET m == Head(up[p])
  IN /\ handler[p].pc = "idle" /\ up[p] # <<>>
     /\ m.type \notin {"hello", "capabilities"}
     /\ up' = [up EXCEPT ![p] = Tail(@)]
     /\ meta' = [meta EXCEPT ![p].direct = TRUE]
     /\ down' = IF Reachable(Other(p)) THEN Delivered(Other(p), m) ELSE down
     /\ UNCHANGED <<client, link, handler, used, faults>>

-----------------------------------------------------------------------------
\* A client: its dispatcher.

\* directResetPeerStateLocked: everything known of another peer.
directResetPeerState(r) == [NewClient(r.session) EXCEPT !.local = r.local]

\* A timer that is not the one of the present backoff any more.
Outdated(t) == [own |-> FALSE, old |-> t.old + (IF t.own THEN 1 ELSE 0)]

Changed(r, s) == r.remote # Nil /\ r.remote # s

\* The remote session, candidates and key of a message, and a reset before it
\* when they are another peer's.
Learns(p, s) ==
  LET r == IF Changed(self[p], s) THEN directResetPeerState(self[p]) ELSE self[p]
  IN [r EXCEPT !.remote = s]

receives(p, type) == down[p] # <<>> /\ Head(down[p]).type \in type

HandleCapabilities(p) ==
  LET s == Head(down[p]).session
      r == Learns(p, s)
  IN /\ receives(p, {"capabilities"})
     /\ down' = [down EXCEPT ![p] = Tail(@)]
     /\ self' = [self EXCEPT ![p] = IF r.local THEN r ELSE [r EXCEPT !.pending = @ \cup {s}]]
     /\ retry' = IF Changed(self[p], s) THEN [retry EXCEPT ![p] = Outdated(@)] ELSE retry
     /\ up' = IF r.local THEN Sent(p, Rendezvous(s, r.session)) ELSE up
     /\ notify' = [notify EXCEPT ![p] = TRUE]
     /\ UNCHANGED <<agent, quic, link, server, used, faults>>

HandleRendezvous(p) ==
  LET m == Head(down[p])
      mine == m.session = self[p].session
  IN /\ receives(p, {"rendezvous"})
     /\ down' = [down EXCEPT ![p] = Tail(@)]
     /\ self' = IF mine THEN [self EXCEPT ![p] = Learns(p, m.remote)] ELSE self
     /\ retry' = IF mine /\ Changed(self[p], m.remote) THEN [retry EXCEPT ![p] = Outdated(@)] ELSE retry
     /\ notify' = [notify EXCEPT ![p] = TRUE]
     /\ UNCHANGED <<agent, quic, link, up, server, used, faults>>

\* Mutant: the pair session is taken for that of the receiver.
ShouldApplyOwn(r, pair) ==
  /\ r.remote # Nil => pair = r.session
  /\ r.pair \in {Nil, pair}

\* directShouldApplyStatusSessionLocked.
ShouldApplyStatus(r, pair) ==
  /\ r.remote # Nil => pair = minUUID(r.session, r.remote)
  /\ r.pair \in {Nil, pair}

\* A status of another pair session is ignored; a first one sets it.  A failure
\* degrades the path for a while; a peer that is ready starts the QUIC agent and
\* shortens or ends that while (directMarkRecovered), which is answered in kind.
HandleStatus(p) ==
  LET m == Head(down[p])
      apply == ShouldApplyStatus(self[p], m.session)
      ready == apply /\ m.type = "ready"
  IN /\ receives(p, {"probing", "ready", "failed"})
     /\ down' = [down EXCEPT ![p] = Tail(@)]
     /\ \E degraded \in CASE m.type = "failed" -> {TRUE}
                          [] m.type = "ready" -> {FALSE, self[p].degraded}
                          [] m.type = "probing" -> {self[p].degraded} :
          self' = IF apply THEN [self EXCEPT ![p].pair = m.session, ![p].degraded = degraded] ELSE self
     /\ up' = IF ready /\ self[p].degraded THEN Sent(p, m) ELSE up
     /\ quic' = [quic EXCEPT ![p] = @ \/ ready]
     /\ notify' = [notify EXCEPT ![p] = @ \/ apply]
     /\ UNCHANGED <<agent, retry, link, server, used, faults>>

-----------------------------------------------------------------------------
\* Its agent.

\* broadcastLocalCandidates at the end of discovery: the candidates are there,
\* they are announced, and whoever waits for them is answered.
Announces(p) ==
  LET r == self[p]
  IN /\ agent[p].pc = "discover"
     /\ self' = [self EXCEPT ![p].local = TRUE, ![p].pending = {}]
     /\ agent' = [agent EXCEPT ![p].pc = "send",
                    ![p].todo = {Capabilities(r.session)} \cup {Rendezvous(s, r.session) : s \in r.pending}]
     /\ notify' = [notify EXCEPT ![p] = TRUE]
     /\ UNCHANGED <<retry, quic, net, server, used, faults>>

\* ... or it fails, and the agent returns.
DiscoveryFails(p) ==
  /\ agent[p].pc = "discover" /\ faults.failures > 0
  /\ faults' = [faults EXCEPT !.failures = @ - 1]
  /\ agent' = [agent EXCEPT ![p].pc = "ended"]
  /\ UNCHANGED <<self, notify, retry, quic, net, server, used>>

\* The goroutine that watches the addresses of the host announces again.
Refreshes(p) ==
  /\ self[p].local /\ faults.refreshes > 0
  /\ faults' = [faults EXCEPT !.refreshes = @ - 1]
  /\ up' = Sent(p, Capabilities(self[p].session))
  /\ notify' = [notify EXCEPT ![p] = TRUE]
  /\ UNCHANGED <<self, agent, retry, quic, link, down, server, used>>

\* One message of the agent, capabilities first.  After the last it goes on:
\* after an announcement it notifies itself, after a success it starts the QUIC
\* agent, after a failure the retry timer.
AgentSends(p) ==
  /\ agent[p].pc = "send"
  /\ \E m \in agent[p].todo :
       LET left == agent[p].todo \ {m}
           arms == m.type = "failed" /\ agent[p].arm
       IN /\ m.type = "capabilities" \/ \A n \in left : n.type # "capabilities"
          /\ up' = Sent(p, m)
          /\ agent' = [agent EXCEPT ![p] = IF left = {} THEN [NoAgent EXCEPT !.pc = "idle"] ELSE [@ EXCEPT !.todo = left]]
          /\ notify' = [notify EXCEPT ![p] = @ \/ (left = {} /\ m.type \in {"capabilities", "rendezvous"})]
          /\ quic' = [quic EXCEPT ![p] = @ \/ m.type = "ready"]
          /\ retry' = IF arms THEN [retry EXCEPT ![p] = [Outdated(@) EXCEPT !.own = TRUE]] ELSE retry
  /\ UNCHANGED <<self, link, down, server, used, faults>>

\* A token is taken and the state read; there may be nothing to do.
AgentWakes(p) ==
  LET r == self[p]
  IN /\ agent[p].pc = "idle" /\ notify[p] /\ faults.probes > 0
     /\ notify' = [notify EXCEPT ![p] = FALSE]
     /\ agent' = IF r.ready \/ r.probing \/ r.remote = Nil THEN agent
                   ELSE [agent EXCEPT ![p] = [NoAgent EXCEPT !.pc = IF r.pair = Nil THEN "pair" ELSE "backoff",
                                                !.remote = r.remote, !.pair = r.pair, !.key = r.key]]
     /\ UNCHANGED <<self, retry, quic, net, server, used, faults>>

\* The pair session of the two that were read.
SetsPair(p) ==
  LET pair == minUUID(self[p].session, agent[p].remote)
  IN /\ agent[p].pc = "pair"
     /\ self' = [self EXCEPT ![p].pair = pair]
     /\ agent' = [agent EXCEPT ![p].pc = "backoff", ![p].pair = pair]
     /\ UNCHANGED <<notify, retry, quic, net, server, used, faults>>

\* The backoff of another pair session is dropped; its own is kept to.
ChecksBackoff(p) ==
  LET other == self[p].backoff # agent[p].pair
      early == ~other /\ self[p].next
  IN /\ agent[p].pc = "backoff"
     /\ self' = IF other THEN [self EXCEPT ![p].backoff = agent[p].pair, ![p].next = FALSE, ![p].armed = FALSE] ELSE self
     /\ retry' = IF other THEN [retry EXCEPT ![p] = Outdated(@)] ELSE retry
     /\ agent' = [agent EXCEPT ![p].pc = IF early THEN "idle" ELSE IF agent[p].key = NoKey THEN "key" ELSE "start"]
     /\ UNCHANGED <<notify, quic, net, server, used, faults>>

DerivesKey(p) ==
  LET key == deriveDirectSessionKey(agent[p].pair, self[p].session, agent[p].remote)
  IN /\ agent[p].pc = "key"
     /\ self' = [self EXCEPT ![p].key = key]
     /\ agent' = [agent EXCEPT ![p].pc = "start", ![p].key = key]
     /\ UNCHANGED <<notify, retry, quic, net, server, used, faults>>

StartsProbe(p) ==
  /\ agent[p].pc = "start" /\ faults.probes > 0
  /\ faults' = [faults EXCEPT !.probes = @ - 1]
  /\ self' = [self EXCEPT ![p].probing = TRUE]
  /\ agent' = [agent EXCEPT ![p].pc = "probe"]
  /\ up' = Sent(p, Status("probing", agent[p].pair))
  /\ UNCHANGED <<notify, retry, quic, link, down, server, used>>

\* DirectProber: a request or a response with the session and the key of this
\* prober, from the prober of the peer.
PacketArrives(p) ==
  LET peer == agent[Other(p)]
  IN /\ agent[p].pc = "probe" /\ peer.pc = "probe"
     /\ peer.pair = agent[p].pair /\ peer.key = agent[p].key
     /\ agent' = [agent EXCEPT ![p].heard = TRUE]
     /\ UNCHANGED <<self, notify, retry, quic, net, server, used, faults>>

ProbeSucceeds(p) ==
  /\ agent[p].pc = "probe" /\ agent[p].heard
  /\ self' = [self EXCEPT ![p].ready = TRUE, ![p].probing = FALSE, ![p].next = FALSE, ![p].armed = FALSE]
  /\ retry' = [retry EXCEPT ![p] = Outdated(@)]
  /\ agent' = [agent EXCEPT ![p].pc = "send", ![p].todo = {Status("ready", agent[p].pair)}]
  /\ UNCHANGED <<notify, quic, net, server, used, faults>>

\* A probe lasts 800 ms at least: a timer that was due when it started has fired.
ProbeFails(p) ==
  /\ agent[p].pc = "probe"
  /\ ~(self[p].armed /\ ~self[p].next)
  /\ self' = [self EXCEPT ![p].probing = FALSE, ![p].backoff = agent[p].pair, ![p].next = TRUE, ![p].armed = TRUE]
  /\ agent' = [agent EXCEPT ![p].pc = "send", ![p].arm = ~self[p].armed,
                            ![p].todo = {Status("failed", agent[p].pair)}]
  /\ UNCHANGED <<notify, retry, quic, net, server, used, faults>>

-----------------------------------------------------------------------------
\* Time.

\* A backoff lasts a second at least: what the last attempt has sent is there.
Quiet(p) ==
  /\ \A i \in DOMAIN up[p] : up[p][i].type \notin {"probing", "ready", "failed"}
  /\ \A i \in DOMAIN down[Other(p)] : down[Other(p)][i].type \notin {"probing", "ready", "failed"}
  /\ handler[p].pc = "idle"

\* directProbeNext passes.
BackoffPasses(p) ==
  /\ self[p].next /\ Quiet(p)
  /\ self' = [self EXCEPT ![p].next = FALSE]
  /\ UNCHANGED <<agent, notify, retry, quic, net, server, used, faults>>

\* Mutant: the timer lets the next failure arm one, and wakes nobody.
RetryDisarms(p) ==
  /\ \/ retry[p].own /\ ~self[p].next /\ retry' = [retry EXCEPT ![p].own = FALSE]
     \/ retry[p].old > 0 /\ retry' = [retry EXCEPT ![p].old = @ - 1]
  /\ self' = [self EXCEPT ![p].armed = FALSE]
  /\ UNCHANGED <<agent, notify, quic, net, server, used, faults>>

\* The timer goroutine of the present backoff, which ends after it, or an older one.
RetryFires(p) ==
  /\ \/ retry[p].own /\ ~self[p].next /\ retry' = [retry EXCEPT ![p].own = FALSE]
     \/ retry[p].old > 0 /\ retry' = [retry EXCEPT ![p].old = @ - 1]
  /\ self' = [self EXCEPT ![p].armed = FALSE]
  /\ notify' = [notify EXCEPT ![p] = TRUE]
  /\ UNCHANGED <<agent, quic, net, server, used, faults>>

-----------------------------------------------------------------------------
ServerStep(p) == NotesMessage(p) \/ LooksUpPeer(p) \/ TellsClient(p) \/ ForwardsCapabilities(p) \/ ForwardsMessage(p)
DispatcherStep(p) == HandleCapabilities(p) \/ HandleRendezvous(p) \/ HandleStatus(p)
AgentStep(p) ==
  \/ Announces(p) \/ AgentSends(p) \/ AgentWakes(p) \/ SetsPair(p) \/ ChecksBackoff(p)
  \/ DerivesKey(p) \/ StartsProbe(p) \/ ProbeSucceeds(p) \/ ProbeFails(p)
FaultStep(p) == LinkBreaks(p) \/ Restart(p) \/ DiscoveryFails(p) \/ Refreshes(p)

Next == \E p \in Peers :
  \/ Connect(p) \/ Departs(p) \/ ServerStep(p) \/ DispatcherStep(p) \/ AgentStep(p)
  \/ BackoffPasses(p) \/ RetryFires(p) \/ PacketArrives(p) \/ FaultStep(p)

Spec == Init /\ [][Next]_vars
FairSpec ==
  /\ Spec
  /\ \A p \in Peers :
       /\ WF_vars(Connect(p)) /\ WF_vars(Departs(p)) /\ WF_vars(ServerStep(p)) /\ WF_vars(DispatcherStep(p))
       /\ WF_vars(AgentStep(p)) /\ WF_vars(BackoffPasses(p)) /\ WF_vars(RetryFires(p))

-----------------------------------------------------------------------------
TypeOK ==
  /\ self \in [Peers -> [session : Sessions, local : BOOLEAN, pending : SUBSET Sessions, remote : Sessions \cup {Nil},
                         pair : Sessions \cup {Nil}, key : {NoKey} \cup (Sessions \X SUBSET Sessions),
                         probing : BOOLEAN, ready : BOOLEAN, backoff : Sessions \cup {Nil}, next : BOOLEAN,
                         armed : BOOLEAN, degraded : BOOLEAN]]
  /\ notify \in [Peers -> BOOLEAN] /\ quic \in [Peers -> BOOLEAN]
  /\ retry \in [Peers -> [own : BOOLEAN, old : Nat]]
  /\ link \in [Peers -> {"down", "up", "lost"}]
  /\ up \in [Peers -> Seq(Message)] /\ down \in [Peers -> Seq(Message)]

\* The two clients come to know each other's session, key and candidates, and
\* keep them, whenever they start and announce and whichever message a lost link
\* takes with it (server.go: sendKnownPeerDirectCapabilities and the forwarding;
\* client.go: the answers to capabilities).
Introduced ==
  <>[](\/ \E p \in Peers : agent[p].pc = "ended"
       \/ \A p \in Peers : self[p].remote = self[Other(p)].session)

\* An agent that has a peer and is not ready never sleeps for good: a token, the
\* timer of its backoff, or an older timer after it, will wake it (client.go:
\* directAgent and its retry timer, the notifications of the dispatcher).
ProbeRetried ==
  \A p \in Peers :
    agent[p].pc = "idle" /\ self[p].remote # Nil /\ ~self[p].ready =>
      \/ notify[p] \/ retry[p].own
      \/ retry[p].old > 0 /\ ~self[p].next

\* Once one side has seen packets pass, the QUIC agents of both are started, if
\* no link is lost and no client restarts (client.go: startDirectQUICAgent).
BothStart == \A p \in Peers : (faults.calm /\ self[p].ready) ~> (quic[p] /\ quic[Other(p)])

\* The same with links that break.
ReadyTold == \A p \in Peers : self[p].ready ~> (quic[p] /\ quic[Other(p)])

\* The pair session is that of the two clients (client.go:2944: "only when it
\* matches the current peer identity/generation").
PairCurrent ==
  \A p \in Peers : self[p].remote # Nil /\ self[p].pair # Nil => self[p].pair = minUUID(self[p].session, self[p].remote)
=============================================================================
