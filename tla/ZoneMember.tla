----------------------------- MODULE ZoneMember -----------------------------
(***************************************************************************)
(* A member of a zone over several connections to the coordinator: joining *)
(* and rejoining, the roster with the state of the peer's cipher, the      *)
(* sealing of frames and datagrams under one sequence, the NAT tables of   *)
(* UDP and the reader of the VLAN interface.                               *)
(*                                                                         *)
(* zone/client.go   run, connect, serve, send                              *)
(* zone/crypto.go   packetCipher                                           *)
(* zone/streams.go  forwardDatagram ... closeDatagrams                     *)
(* zone/rules.go    in ZoneRules                                           *)
(*                                                                         *)
(* Two members.  A sink is a SOCKS UDP association, named by the port of   *)
(* its client; all of them talk to ServicePort of the other member, where  *)
(* a service answers every datagram.  The coordinator is external.         *)
(***************************************************************************)
EXTENDS ZoneRules

CONSTANTS Members,      \* two members
          ServicePort,
          Frames,       \* frames an interface may hand over
          Settings,     \* zone settings the coordinator may send
          FirstSettings,
          MaxSends,     \* bound on the datagrams of a client
          MaxDelay,     \* 8 seconds
          Plans         \* what a behaviour may hold

\* sinks[m]: the ports of the UDP clients at m; vlan: the members in VLAN mode;
\* sessions[m], frames[m], copies: bounds on the connections of m, on the frames
\* of its interface and on the messages delivered twice; losses: members whose
\* connection may end; changes, reaps: whether the settings change and whether
\* entries grow idle.
Plan == [sinks : [Members -> SUBSET Ports], vlan : SUBSET Members, sessions : [Members -> Nat], copies : Nat,
         frames : [Members -> Nat], losses : SUBSET Members, changes : BOOLEAN, reaps : BOOLEAN]

ASSUME ZoneMemberAssumption ==
  /\ Members = Addresses /\ ServicePort \in Ports
  /\ \A m, n, k \in Members : m = n \/ n = k \/ m = k
  /\ FirstSettings \in Settings /\ MaxSends \in Nat /\ MaxDelay \in Nat
  /\ \A p \in Plans : p \in Plan /\ \A m \in Members : ServicePort \notin p.sinks[m]

Other(m) == CHOOSE n \in Members : n # m

VARIABLES
  plan,      \* the plan of this behaviour
  phase,     \* phase[m]: run: "connect", "starting", "serving", "delay" or "exit"
  delay,     \* delay[m]: the retry delay, in seconds
  ws,        \* ws[m]: the WebSocket: "none", "up" or why it was closed
  session,   \* session[m]: m's connection, with its key and session ID
  next,      \* next[m]: packetCipher.next
  peer,      \* peer[m]: peerCipher of the other member: session (0: none) and last
  rules,     \* rules[m]: the compiled settings
  sending,   \* sending[m]: messages sealed and not yet written
  sink,      \* sink[m][s]: pc of forwardDatagram, and datagrams so far
  client,    \* client[m]: udpClients, for the key of the other's ServicePort
  service,   \* service[m][p]: udpServices, for the key of the other's port p
  tap,       \* tap[m]: pc of the reader of the interface, and frames so far
  net,       \* net[m]: messages on their way to m
  settings,  \* the coordinator's settings
  copies,    \* messages delivered twice so far
  seen       \* history: seen[m]: session and number of the last message m accepted

udp == <<sink, client, service>>
conn == <<next, peer, rules, sending, udp, tap>>
vars == <<plan, phase, delay, ws, session, conn, net, settings, copies, seen>>

Absent == [session |-> 0, last |-> 0]
NoEntry == [listed |-> FALSE]
\* The tables and goroutines of a new connection; what is left of an old one
\* can only fail on its closed WebSocket.
NewSinks(m) == [s \in plan.sinks[m] |-> [sink[m][s] EXCEPT !.pc = "idle"]]
NoServices == [p \in Ports |-> NoEntry]

Init ==
  /\ plan \in Plans
  /\ phase = [m \in Members |-> "connect"]
  /\ delay = [m \in Members |-> 1]
  /\ ws = [m \in Members |-> "none"]
  /\ session = [m \in Members |-> 0]
  /\ next = [m \in Members |-> 0]
  /\ peer = [m \in Members |-> Absent]
  /\ rules = [m \in Members |-> Compiled(FirstSettings)]
  /\ sending = [m \in Members |-> {}]
  /\ sink = [m \in Members |-> [s \in plan.sinks[m] |-> [pc |-> "idle", sent |-> 0]]]
  /\ client = [m \in Members |-> NoEntry]
  /\ service = [m \in Members |-> NoServices]
  /\ tap = [m \in Members |-> [pc |-> "off", sent |-> 0]]
  /\ net = [m \in Members |-> <<>>]
  /\ settings = FirstSettings
  /\ copies = 0
  /\ seen = [m \in Members |-> [session |-> 0, seq |-> 0]]

-----------------------------------------------------------------------------
(* run, connect and the end of serve.                                      *)

Online(m) == ws[m] = "up"
Roster(s, of) == [kind |-> "members", session |-> s, settings |-> of]
Tell(n, m, s) == IF Online(m) THEN [n EXCEPT ![m] = Append(@, Roster(s, settings))] ELSE n

\* The network fails, the coordinator answers with HTTP 5xx or its settings do
\* not parse.
ConnectFails(m) ==
  /\ phase[m] = "connect"
  /\ phase' = [phase EXCEPT ![m] = "delay"]
  /\ UNCHANGED <<plan, delay, ws, session, conn, net, settings, copies, seen>>

\* A terminal error: HTTP 4xx, an error instead of a roster, settings that do
\* not compile; or the user stops the member, as it may while run waits.
ConnectRefused(m) ==
  /\ phase[m] \in {"connect", "delay"}
  /\ phase' = [phase EXCEPT ![m] = "exit"]
  /\ ws' = [ws EXCEPT ![m] = "none"]
  /\ UNCHANGED <<plan, delay, session, conn, net, settings, copies, seen>>

\* The coordinator takes the registration with its new key and session ID and
\* sends the roster to both members.
ConnectJoins(m) ==
  /\ phase[m] = "connect" /\ session[m] < plan.sessions[m]
  /\ SettingsParse(settings) /\ SettingsCompile(settings)
  /\ phase' = [phase EXCEPT ![m] = "starting"]
  /\ ws' = [ws EXCEPT ![m] = "up"]
  /\ session' = [session EXCEPT ![m] = @ + 1]
  /\ next' = [next EXCEPT ![m] = 0]
  /\ peer' = [peer EXCEPT ![m] = IF Online(Other(m)) THEN [session |-> session[Other(m)], last |-> 0] ELSE Absent]
  /\ rules' = [rules EXCEPT ![m] = Compiled(settings)]
  /\ net' = Tell(net, Other(m), session[m] + 1)
  /\ UNCHANGED <<plan, delay, sending, udp, tap, settings, copies, seen>>

\* serve starts its goroutines.
Serve(m) ==
  /\ phase[m] = "starting"
  /\ phase' = [phase EXCEPT ![m] = "serving"]
  /\ sink' = [sink EXCEPT ![m] = NewSinks(m)]
  /\ tap' = [tap EXCEPT ![m].pc = IF m \in plan.vlan THEN "read" ELSE "off"]
  /\ UNCHANGED <<plan, delay, ws, session, next, peer, rules, sending, client, service, net, settings, copies, seen>>

\* The interface or the SOCKS listener cannot be opened: a terminal error.
ServeFails(m) ==
  /\ phase[m] = "starting"
  /\ phase' = [phase EXCEPT ![m] = "exit"]
  /\ ws' = [ws EXCEPT ![m] = "failed"]
  /\ net' = Tell([net EXCEPT ![m] = <<>>], Other(m), 0)
  /\ UNCHANGED <<plan, delay, session, conn, settings, copies, seen>>

\* The WebSocket is closed: by the coordinator after a leave (4001) or to remove
\* the member (4003, 1008), by the member whose interface
\* failed or whose user stops it, or by the network, which the coordinator may
\* notice only when the member is back.
Disconnect(m) ==
  /\ phase[m] = "serving" /\ Online(m) /\ m \in plan.losses
  /\ \E why \in {"left", "removed", "failed", "lost"}, noticed \in BOOLEAN :
       /\ noticed \/ why = "lost"
       /\ ws' = [ws EXCEPT ![m] = why]
       /\ net' = [(IF noticed THEN Tell(net, Other(m), 0) ELSE net) EXCEPT ![m] = <<>>]
  /\ UNCHANGED <<plan, phase, delay, session, conn, settings, copies, seen>>

\* Mutant: every error ends the loop.
AfterServeExits(m) == "exit"

\* What run does when serve has returned.
AfterServe(m) == IF ws[m] = "lost" THEN "delay" ELSE "exit"

\* ReadMessage fails: serve closes what it opened and returns.
ServeEnds(m) ==
  /\ phase[m] = "serving" /\ ~Online(m)
  /\ phase' = [phase EXCEPT ![m] = AfterServe(m)]
  /\ delay' = [delay EXCEPT ![m] = 1]
  /\ sending' = [sending EXCEPT ![m] = {}]
  /\ sink' = [sink EXCEPT ![m] = [s \in plan.sinks[m] |-> [@[s] EXCEPT !.pc = "closed"]]]
  /\ client' = [client EXCEPT ![m] = NoEntry]
  /\ service' = [service EXCEPT ![m] = NoServices]
  /\ tap' = [tap EXCEPT ![m].pc = "off"]
  /\ UNCHANGED <<plan, ws, session, next, peer, rules, net, settings, copies, seen>>

NextDelay(d) == IF d < MaxDelay THEN 2 * d ELSE d

\* The delay passes and doubles, up to MaxDelay.
Retry(m) ==
  /\ phase[m] = "delay"
  /\ phase' = [phase EXCEPT ![m] = "connect"]
  /\ delay' = [delay EXCEPT ![m] = NextDelay(@)]
  /\ ws' = [ws EXCEPT ![m] = "none"]
  /\ UNCHANGED <<plan, session, conn, net, settings, copies, seen>>

\* The owner changes the zone's settings and the coordinator sends them.
ChangeSettings ==
  /\ plan.changes /\ settings = FirstSettings
  /\ settings' \in Settings \ {FirstSettings}
  /\ net' = [m \in Members |-> IF Online(m)
                               THEN Append(net[m], Roster(IF Online(Other(m)) THEN session[Other(m)] ELSE 0, settings'))
                               ELSE net[m]]
  /\ UNCHANGED <<plan, phase, delay, ws, session, conn, copies, seen>>

\* A message is delivered twice, the second time after what is on its way.
Repeat(m) ==
  /\ copies < plan.copies /\ net[m] # <<>> /\ Head(net[m]).kind # "members"
  /\ copies' = copies + 1
  /\ net' = [net EXCEPT ![m] = Append(@, [Head(@) EXCEPT !.copy = TRUE])]
  /\ UNCHANGED <<plan, phase, delay, ws, session, conn, settings, seen>>

-----------------------------------------------------------------------------
(* send: writeMu is held from the sealing of a message to its writing, so  *)
(* a second sender waits.  The rules and the roster are read when the lock *)
(* is taken.                                                               *)

Free(m) == sending[m] = {}

\* Mutant: a message is sealed before the lock is taken.
SealUnlocked(m, by, kind, flow) ==
  /\ next' = [next EXCEPT ![m] = @ + 1]
  /\ sending' = [sending EXCEPT ![m] = @ \cup
       {[by |-> by, message |-> [kind |-> kind, from |-> session[m], to |-> peer[m].session,
                                 seq |-> next[m] + 1, flow |-> flow, copy |-> FALSE]]}]

\* sealLocked: the next number, under the keys of the two sessions.
Seal(m, by, kind, flow) ==
  /\ Free(m)
  /\ next' = [next EXCEPT ![m] = @ + 1]
  /\ sending' = [sending EXCEPT ![m] = @ \cup
       {[by |-> by, message |-> [kind |-> kind, from |-> session[m], to |-> peer[m].session,
                                 seq |-> next[m] + 1, flow |-> flow, copy |-> FALSE]]}]

\* WriteMessage: the coordinator forwards the message to a member that is
\* online; on a closed WebSocket it fails.
Written(m, e) ==
  /\ e \in sending[m]
  /\ sending' = [sending EXCEPT ![m] = @ \ {e}]
  /\ net' = IF Online(m) /\ Online(Other(m)) THEN [net EXCEPT ![Other(m)] = Append(@, e.message)] ELSE net

\* forwardDatagram: a datagram of a client, which the roster and the rules let
\* pass, is sealed; any other is dropped.
ForwardDatagram(m, s) ==
  LET flow == DatagramFlow(m, Other(m), s, ServicePort)
      passes == peer[m] # Absent /\ RulesAllow(rules[m], flow)
  IN /\ phase[m] = "serving" /\ sink[m][s].pc = "idle" /\ sink[m][s].sent < MaxSends
     /\ IF passes THEN Seal(m, [who |-> "sink", port |-> s], "datagram", flow) ELSE UNCHANGED <<next, sending>>
     /\ sink' = [sink EXCEPT ![m][s] = [pc |-> IF passes THEN "write" ELSE "idle", sent |-> @.sent + 1]]
     /\ UNCHANGED <<plan, phase, delay, ws, session, peer, rules, client, service, tap, net, settings, copies, seen>>

\* The datagram is written, and the mapping for its replies is due.
WriteDatagram(m, s) ==
  /\ sink[m][s].pc = "write"
  /\ \E e \in sending[m] : e.by = [who |-> "sink", port |-> s] /\ Written(m, e)
  /\ sink' = [sink EXCEPT ![m][s].pc = IF Online(m) THEN "record" ELSE "idle"]
  /\ UNCHANGED <<plan, phase, delay, ws, session, next, peer, rules, client, service, tap, settings, copies, seen>>

RecordMapping(m, s) ==
  /\ sink[m][s].pc = "record"
  /\ sink' = [sink EXCEPT ![m][s].pc = "idle"]
  /\ client' = [client EXCEPT ![m] = [listed |-> TRUE, port |-> s]]
  /\ UNCHANGED <<plan, phase, delay, ws, session, next, peer, rules, sending, service, tap, net, settings, copies, seen>>

\* The control connection of an association ends: its socket is closed and its
\* mappings are released.
CloseAssociation(m, s) ==
  /\ phase[m] = "serving" /\ sink[m][s].pc = "idle"
  /\ sink' = [sink EXCEPT ![m][s].pc = "closed"]
  /\ client' = [client EXCEPT ![m] = IF @.listed /\ @.port = s THEN NoEntry ELSE @]
  /\ UNCHANGED <<plan, phase, delay, ws, session, next, peer, rules, sending, service, tap, net, settings, copies, seen>>

\* readServiceDatagrams takes an answer of the local service; the reader ends
\* when the peer has left the roster.
ReadService(m, p) ==
  LET entry == service[m][p]
      flow == DatagramFlow(m, Other(m), ServicePort, p)
      allowed == RulesAllow(rules[m], flow)
  IN /\ entry.listed /\ entry.reader = "read" /\ entry.answers > 0
     /\ IF allowed /\ peer[m] # Absent
        THEN Seal(m, [who |-> "service", port |-> p], "datagram", flow)
        ELSE (allowed => Free(m)) /\ UNCHANGED <<next, sending>>
     /\ service' = [service EXCEPT ![m][p] =
          [@ EXCEPT !.answers = @ - 1,
                    !.reader = IF ~allowed THEN "read" ELSE IF peer[m] = Absent THEN "ended" ELSE "write"]]
     /\ UNCHANGED <<plan, phase, delay, ws, session, peer, rules, sink, client, tap, net, settings, copies, seen>>

WriteService(m, p) ==
  /\ \E e \in sending[m] : e.by = [who |-> "service", port |-> p] /\ Written(m, e)
  /\ service' = [service EXCEPT ![m][p] = IF ~@.listed THEN @
                                          ELSE [@ EXCEPT !.reader = IF Online(m) THEN "read" ELSE "ended"]]
  /\ UNCHANGED <<plan, phase, delay, ws, session, next, peer, rules, sink, client, tap, settings, copies, seen>>

\* The reader of the interface: a frame the rules let pass is sealed for the
\* owner of its destination, or for every peer; a frame nobody owns ends the
\* reader.
ReadFrame(m, frame) ==
  LET allowed == RulesAllow(rules[m], EthernetFlow(frame))
      known == peer[m] # Absent /\ frame.to # "stranger"
  IN /\ tap[m].pc = "read" /\ tap[m].sent < plan.frames[m]
     /\ IF allowed /\ known
        THEN Seal(m, [who |-> "tap"], "frame", EthernetFlow(frame))
        ELSE (allowed => Free(m)) /\ UNCHANGED <<next, sending>>
     /\ tap' = [tap EXCEPT ![m] =
          [pc |-> IF ~allowed THEN "read" ELSE IF known THEN "write" ELSE IF frame.to = "group" THEN "read" ELSE "ended",
           sent |-> @.sent + 1]]
     /\ UNCHANGED <<plan, phase, delay, ws, session, peer, rules, udp, net, settings, copies, seen>>

WriteFrame(m) ==
  /\ \E e \in sending[m] : e.by = [who |-> "tap"] /\ Written(m, e)
  /\ tap' = [tap EXCEPT ![m].pc = IF Online(m) THEN "read" ELSE "ended"]
  /\ UNCHANGED <<plan, phase, delay, ws, session, next, peer, rules, udp, settings, copies, seen>>

-----------------------------------------------------------------------------
(* The messages serve reads.                                               *)

Reads(m, kind) == phase[m] = "serving" /\ Online(m) /\ net[m] # <<>> /\ Head(net[m]).kind = kind

\* Mutant: a roster builds the state of every peer anew.
UpdateRebuilds(old, s) == [session |-> s, last |-> 0]

\* update: a peer whose session is unchanged keeps its state.
Update(old, s) == IF old.session = s THEN old ELSE [session |-> s, last |-> 0]

\* A roster: the peers, then the rules; a terminal error when it does not parse
\* or its settings do not compile.
ReceiveMembers(m) ==
  LET message == Head(net[m])
      parses == SettingsParse(message.settings)
      compiles == parses /\ SettingsCompile(message.settings)
  IN /\ Reads(m, "members")
     /\ peer' = IF parses THEN [peer EXCEPT ![m] = Update(@, message.session)] ELSE peer
     /\ rules' = IF compiles THEN [rules EXCEPT ![m] = Compiled(message.settings)] ELSE rules
     /\ ws' = IF compiles THEN ws ELSE [ws EXCEPT ![m] = "failed"]
     /\ net' = IF compiles THEN [net EXCEPT ![m] = Tail(@)] ELSE Tell([net EXCEPT ![m] = <<>>], Other(m), 0)
     /\ UNCHANGED <<plan, phase, delay, session, next, sending, udp, tap, settings, copies, seen>>

\* open: the keys are those of both current sessions and the number is new.
Opens(m, message) ==
  /\ peer[m] # Absent
  /\ message.from = peer[m].session /\ message.to = session[m]
  /\ message.seq > peer[m].last

\* A message that opens advances the window, whatever the rules say of it.
Accept(m, message) ==
  /\ peer' = [peer EXCEPT ![m].last = message.seq]
  /\ seen' = [seen EXCEPT ![m] = [session |-> message.from, seq |-> message.seq]]

\* A message that does not open is skipped.
Skip(m) ==
  /\ \E kind \in {"frame", "datagram"} : Reads(m, kind)
  /\ ~Opens(m, Head(net[m]))
  /\ net' = [net EXCEPT ![m] = Tail(@)]
  /\ UNCHANGED <<plan, phase, delay, ws, session, conn, settings, copies, seen>>

\* The frame goes to the interface, if the rules and the mode allow; an
\* interface that fails is a terminal error.
ReceiveFrame(m) ==
  /\ Reads(m, "frame") /\ Opens(m, Head(net[m]))
  /\ Accept(m, Head(net[m]))
  /\ \/ /\ net' = [net EXCEPT ![m] = Tail(@)]
        /\ ws' = ws
     \/ /\ m \in plan.vlan /\ RulesAllow(rules[m], Head(net[m]).flow)
        /\ net' = Tell([net EXCEPT ![m] = <<>>], Other(m), 0)
        /\ ws' = [ws EXCEPT ![m] = "failed"]
  /\ UNCHANGED <<plan, phase, delay, session, next, rules, sending, udp, tap, settings, copies>>

\* deliverDatagram: to the client of a mapping, or to the service, which
\* answers, through a socket that is opened, if it can be, when there is none.
ReceiveDatagram(m) ==
  LET flow == Head(net[m]).flow
      mapped == client[m].listed /\ flow.srcPort = ServicePort
      entry == service[m][flow.srcPort]
      listed == IF entry.listed THEN entry ELSE [listed |-> TRUE, reader |-> "read", answers |-> 0]
  IN /\ Reads(m, "datagram") /\ Opens(m, Head(net[m]))
     /\ Accept(m, Head(net[m]))
     /\ net' = [net EXCEPT ![m] = Tail(@)]
     /\ \E opened \in {TRUE, entry.listed} :
          service' = IF mapped \/ ~RulesAllow(rules[m], flow) \/ ~opened THEN service
                     ELSE [service EXCEPT ![m][flow.srcPort] =
                           [listed EXCEPT !.answers = IF flow.dstPort = ServicePort THEN @ + 1 ELSE @]]
     /\ UNCHANGED <<plan, phase, delay, ws, session, next, rules, sending, sink, client, tap, settings, copies>>

\* reapDatagrams drops entries that were idle for datagramIdleTTL.
ReapClient(m) ==
  /\ plan.reaps /\ phase[m] = "serving" /\ client[m].listed
  /\ client' = [client EXCEPT ![m] = NoEntry]
  /\ UNCHANGED <<plan, phase, delay, ws, session, next, peer, rules, sending, sink, service, tap, net, settings, copies, seen>>

ReapService(m, p) ==
  /\ plan.reaps /\ phase[m] = "serving" /\ service[m][p].listed
  /\ service' = [service EXCEPT ![m][p] = NoEntry]
  /\ UNCHANGED <<plan, phase, delay, ws, session, next, peer, rules, sending, sink, client, tap, net, settings, copies, seen>>

-----------------------------------------------------------------------------
Connects(m) == ConnectJoins(m) \/ ConnectRefused(m)

Next ==
  \/ ChangeSettings
  \/ \E m \in Members :
       \/ ConnectFails(m) \/ Connects(m) \/ Serve(m) \/ ServeFails(m)
       \/ Disconnect(m) \/ ServeEnds(m) \/ Retry(m) \/ Repeat(m)
       \/ WriteFrame(m) \/ ReceiveMembers(m) \/ Skip(m) \/ ReceiveFrame(m) \/ ReceiveDatagram(m) \/ ReapClient(m)
       \/ \E s \in plan.sinks[m] : ForwardDatagram(m, s) \/ WriteDatagram(m, s) \/ RecordMapping(m, s) \/ CloseAssociation(m, s)
       \/ \E p \in plan.sinks[Other(m)] : ReadService(m, p) \/ WriteService(m, p) \/ ReapService(m, p)
       \/ \E frame \in Frames : ReadFrame(m, frame)

Spec == Init /\ [][Next]_vars

\* run and serve go on while they can, and a coordinator that is asked again
\* and again answers in the end.
FairSpec == Spec /\ \A m \in Members : WF_vars(Serve(m)) /\ WF_vars(ServeEnds(m)) /\ WF_vars(Retry(m)) /\ SF_vars(Connects(m))

-----------------------------------------------------------------------------
TypeOK ==
  /\ phase \in [Members -> {"connect", "starting", "serving", "delay", "exit"}]
  /\ delay \in [Members -> 1..(2 * MaxDelay)]
  /\ ws \in [Members -> {"none", "up", "left", "removed", "failed", "lost"}]
  /\ \A m \in Members : session[m] \in 0..plan.sessions[m] /\ next[m] \in Nat /\ peer[m] \in [session : Nat, last : Nat]
  /\ \A m \in Members : \A s \in plan.sinks[m] : sink[m][s] \in [pc : {"idle", "write", "record", "closed"}, sent : 0..MaxSends]
  /\ \A m \in Members : tap[m] \in [pc : {"off", "read", "write", "ended"}, sent : 0..plan.frames[m]]
  /\ settings \in Settings /\ copies \in 0..plan.copies

\* No message is taken twice or out of order: what a member accepts is newer
\* than what it accepted before, over repeated messages, roster updates and
\* rejoins of either member (crypto.go update and open).
AcceptedInOrder ==
  [][\A m \in Members : peer'[m].last > peer[m].last =>
       \/ peer'[m].session > seen[m].session
       \/ peer'[m].session = seen[m].session /\ peer'[m].last > seen[m].seq]_vars

\* The replay window never costs a message: whatever is on its way for the
\* first time, sealed for the present sessions, is newer than the last one
\* accepted (send holds writeMu from sealing to writing).
InFlightFresh ==
  \A m \in Members : \A i \in DOMAIN net[m] :
    LET message == net[m][i]
    IN message.kind # "members" /\ ~message.copy /\ message.from = peer[m].session /\ message.to = session[m]
         => message.seq > peer[m].last

\* A member that lost its connection rejoins, unless the coordinator refuses it
\* or its user stops it (run).
Rejoins ==
  \A m \in Members :
    ws[m] = "lost" /\ session[m] < plan.sessions[m] ~> ws[m] = "up" \/ (phase[m] = "exit" /\ ws[m] = "none")

\* The rule set decides by the first rule that covers the flow, and a rule with
\* a port covers only TCP and UDP flows whose port is known (rules.go allow and
\* matches), for all settings, frames, streams and datagrams of the model.
FirstMatchDecides ==
  LET Covers(n, addr) == ~n.set \/ addr \in n.addresses
      Within(p, proto, known, port) == ~p.set \/ (proto \in {"tcp", "udp"} /\ known /\ port \in p.from..p.to)
      Applies(r, f) == /\ r.proto \in {"", "any", f.proto}
                       /\ Covers(r.src, f.src) /\ Covers(r.dst, f.dst)
                       /\ Within(r.srcPort, f.proto, f.srcKnown, f.srcPort)
                       /\ Within(r.dstPort, f.proto, f.dstKnown, f.dstPort)
      Flows == {EthernetFlow(frame) : frame \in Frames}
               \cup {DatagramFlow(m, Other(m), p, q) : m \in Members, p \in Ports, q \in Ports}
               \cup {StreamFlow(m, Other(m), p) : m \in Members, p \in Ports}
  IN \A f \in Flows :
       LET applying == {i \in DOMAIN settings.rules : Applies(settings.rules[i], f)}
           first == CHOOSE i \in applying : \A j \in applying : i <= j
       IN SettingsParse(settings) /\ SettingsCompile(settings)
            => RulesAllow(Compiled(settings), f)
                 = (IF applying = {} THEN settings.default # "deny" ELSE settings.rules[first].action = "allow")

\* Violated: the reply of a service goes to the client it is for; the mapping
\* is kept by the service's address alone (streams.go forwardDatagram: "records
\* the NAT mapping used to route replies back to the client socket").
ReplyToItsClient ==
  \A m \in Members :
    Reads(m, "datagram") /\ Opens(m, Head(net[m])) /\ client[m].listed /\ Head(net[m]).flow.srcPort = ServicePort
      => client[m].port = Head(net[m]).flow.dstPort

\* Violated: the reader of the interface runs as long as the session does, and
\* frames for an unknown or offline destination are dropped (design/zone.md).
TapReaderRuns == \A m \in Members : phase[m] = "serving" /\ Online(m) => tap[m].pc # "ended"
=============================================================================
