------------------------- MODULE DirectPeersProofs --------------------------
(* An agent that has a peer and no direct path always has something left   *)
(* that will wake it: ProbeRetried of DirectPeers, for any sessions and any *)
(* number of lost links, restarts, refreshes and probes.                    *)
EXTENDS DirectPeers, TLAPS

(* The invariant of one client.  A probe is marked only while the agent is  *)
(* in it, and starts only when the backoff is over; while a backoff lasts   *)
(* its timer runs, or the agent is about to start it; and a success that    *)
(* was undone by a new peer before the agent has told of it left a token.   *)

Flags(r) ==
  /\ {"probing", "ready", "next", "armed", "remote", "pair", "key", "backoff", "local", "pending", "session", "degraded"} \subseteq DOMAIN r
  /\ r.probing \in BOOLEAN /\ r.ready \in BOOLEAN /\ r.next \in BOOLEAN /\ r.armed \in BOOLEAN
Timers(t) == {"own", "old"} \subseteq DOMAIN t /\ t.own \in BOOLEAN /\ t.old \in Nat
Position(a) == {"pc", "remote", "pair", "key", "heard", "arm", "todo"} \subseteq DOMAIN a /\ a.arm \in BOOLEAN

Types(a, types) == \A m \in a.todo : m.type \in types

Probes(r, a) ==
  /\ r.probing => a.pc = "probe"
  /\ a.pc \in {"key", "start", "probe"} => ~r.next
BacksOff(r, a, t) == r.next => t.own \/ (a.pc = "send" /\ a.arm /\ Types(a, {"failed"}))
Tells(r, a, n) ==
  a.pc = "send" => \/ Types(a, {"capabilities", "rendezvous"})
                   \/ Types(a, {"ready"}) /\ (r.ready \/ n)
                   \/ Types(a, {"failed"}) /\ a.arm
Wakes(r, a, n, t) ==
  a.pc = "idle" /\ r.remote # Nil /\ ~r.ready => n \/ t.own \/ (t.old > 0 /\ ~r.next)

Good(r, a, n, t) ==
  /\ Flags(r) /\ Position(a) /\ n \in BOOLEAN /\ Timers(t)
  /\ Probes(r, a) /\ BacksOff(r, a, t) /\ Tells(r, a, n) /\ Wakes(r, a, n, t)

Tables == DOMAIN self = Peers /\ DOMAIN agent = Peers /\ DOMAIN notify = Peers /\ DOMAIN retry = Peers
RetryInv == Tables /\ \A p \in Peers : Good(self[p], agent[p], notify[p], retry[p])

\* A step of one client leaves the other's state alone.
LEMMA OneClient ==
  ASSUME RetryInv, NEW p \in Peers, Tables',
         \A q \in Peers \ {p} : self'[q] = self[q] /\ agent'[q] = agent[q] /\ notify'[q] = notify[q] /\ retry'[q] = retry[q],
         Good(self'[p], agent'[p], notify'[p], retry'[p])
  PROVE  RetryInv'
<1>1. ASSUME NEW q \in Peers PROVE Good(self'[q], agent'[q], notify'[q], retry'[q])
  <2>1. CASE q = p
    BY <2>1, Zenon
  <2>2. CASE q # p
    BY <2>2, Zenon DEF RetryInv
  <2> QED BY <2>1, <2>2, Zenon
<1> QED BY <1>1, Zenon DEF RetryInv

\* A step that leaves the clients alone.
LEMMA NoClient ==
  ASSUME RetryInv, UNCHANGED <<self, agent, notify, retry>>
  PROVE  RetryInv'
BY DEF RetryInv, Tables, Good, Flags, Position, Timers, Probes, BacksOff, Tells, Wakes, Types

\* A client that has just started.
LEMMA FreshClient ==
  ASSUME NEW s
  PROVE  Good(NewClient(s), NoAgent, FALSE, NoTimers)
BY Zenon DEF Good, Flags, Position, Timers, Probes, BacksOff, Tells, Wakes, Types, NewClient, NoAgent, NoTimers, Nil, NoKey

\* Nothing is known of a peer at first.
LEMMA RetryInit == Init => RetryInv
<1> SUFFICES ASSUME Init PROVE RetryInv
  BY Zenon
<1>1. PICK s \in Starts : self = [p \in Peers |-> NewClient(s[p])]
  BY Zenon DEF Init
<1>2. Tables
  BY <1>1, Zenon DEF Tables, Init
<1>3. ASSUME NEW p \in Peers PROVE Good(self[p], agent[p], notify[p], retry[p])
  <2>1. self[p] = NewClient(s[p]) /\ agent[p] = NoAgent /\ notify[p] = FALSE /\ retry[p] = NoTimers
    BY <1>1, Zenon DEF Init
  <2> QED BY <2>1, FreshClient, Zenon
<1> QED BY <1>2, <1>3, Zenon DEF RetryInv

\* An outdated timer still wakes the agent.
LEMMA OutdatedTimers ==
  ASSUME NEW t, Timers(t)
  PROVE  /\ Timers(Outdated(t)) /\ ~Outdated(t).own
         /\ t.own \/ t.old > 0 => Outdated(t).old > 0
BY DEF Timers, Outdated

\* What another peer's announcement leaves of a client, in any case with a token.
LEMMA Learnt ==
  ASSUME NEW p \in Peers, NEW s, NEW x, Good(self[p], agent[p], notify[p], retry[p]),
         NEW r, r = Learns(p, s) \/ r = [Learns(p, s) EXCEPT !.pending = x],
         NEW t, t = IF Changed(self[p], s) THEN Outdated(retry[p]) ELSE retry[p]
  PROVE  Good(r, agent[p], TRUE, t)
<1>1. Flags(r) /\ (r.probing => self[p].probing) /\ (r.next => self[p].next /\ ~Changed(self[p], s))
  BY Zenon DEF Learns, directResetPeerState, NewClient, Good, Flags, Nil, NoKey
<1>2. Timers(t) /\ (~Changed(self[p], s) => t = retry[p])
  BY OutdatedTimers, Zenon DEF Good
<1> QED BY <1>1, <1>2, Zenon DEF Good, Flags, Position, Timers, Probes, BacksOff, Tells, Wakes, Types

\* The steps of the dispatcher.
LEMMA DispatcherInv ==
  ASSUME RetryInv, NEW p \in Peers, DispatcherStep(p)
  PROVE  RetryInv'
<1> DEFINE Same(q) == self'[q] = self[q] /\ agent'[q] = agent[q] /\ notify'[q] = notify[q] /\ retry'[q] = retry[q]
<1>0. Tables /\ Good(self[p], agent[p], notify[p], retry[p])
  BY Zenon DEF RetryInv
<1>1. CASE HandleCapabilities(p)
  <2> DEFINE s == Head(down[p]).session
  <2> DEFINE r == IF Learns(p, s).local THEN Learns(p, s) ELSE [Learns(p, s) EXCEPT !.pending = @ \cup {s}]
  <2>1. Tables' /\ \A q \in Peers \ {p} : Same(q)
    BY <1>0, <1>1, Zenon DEF HandleCapabilities, Tables
  <2>2. /\ self'[p] = r
        /\ agent'[p] = agent[p] /\ notify'[p] = TRUE
        /\ retry'[p] = IF Changed(self[p], s) THEN Outdated(retry[p]) ELSE retry[p]
    BY <1>0, <1>1, Zenon DEF HandleCapabilities, Tables
  <2> DEFINE x == Learns(p, s).pending \cup {s}
  <2>3. r = Learns(p, s) \/ r = [Learns(p, s) EXCEPT !.pending = x]
    BY Zenon
  <2> DEFINE t == IF Changed(self[p], s) THEN Outdated(retry[p]) ELSE retry[p]
  <2>4. t = IF Changed(self[p], s) THEN Outdated(retry[p]) ELSE retry[p]
    BY Zenon
  <2> HIDE DEF r, x, t, s
  <2>5. Good(r, agent[p], TRUE, t)
    BY <1>0, <2>3, <2>4, Learnt, Zenon
  <2>6. Good(self'[p], agent'[p], notify'[p], retry'[p])
    BY <2>2, <2>5, Zenon DEF t
  <2> QED BY <2>1, <2>6, OneClient, Zenon
<1>2. CASE HandleRendezvous(p)
  <2> DEFINE m == Head(down[p])
  <2>1. Tables' /\ \A q \in Peers \ {p} : Same(q)
    BY <1>0, <1>2, Zenon DEF HandleRendezvous, Tables
  <2>2. agent'[p] = agent[p] /\ notify'[p] = TRUE
    BY <1>0, <1>2, Zenon DEF HandleRendezvous, Tables
  <2>3. CASE m.session = self[p].session
    <3>1. self'[p] = Learns(p, m.remote) /\ retry'[p] = IF Changed(self[p], m.remote) THEN Outdated(retry[p]) ELSE retry[p]
      BY <1>0, <1>2, <2>3, Zenon DEF HandleRendezvous, Tables
    <3>2. Good(self'[p], agent'[p], notify'[p], retry'[p])
      BY <1>0, <2>2, <3>1, Learnt, Zenon
    <3> QED BY <2>1, <3>2, OneClient, Zenon
  <2>4. CASE m.session # self[p].session
    <3>1. self'[p] = self[p] /\ retry'[p] = retry[p]
      BY <1>2, <2>4, Zenon DEF HandleRendezvous
    <3>2. Good(self'[p], agent'[p], notify'[p], retry'[p])
      BY <1>0, <2>2, <3>1, Zenon DEF Good, Flags, Position, Timers, Probes, BacksOff, Tells, Wakes, Types
    <3> QED BY <2>1, <3>2, OneClient, Zenon
  <2> QED BY <2>3, <2>4, Zenon
<1>3. CASE HandleStatus(p)
  <2> DEFINE apply == ShouldApplyStatus(self[p], Head(down[p]).session)
  <2>1. Tables' /\ \A q \in Peers \ {p} : Same(q)
    BY <1>0, <1>3, Zenon DEF HandleStatus, Tables
  <2> DEFINE x == Head(down[p]).session
  <2>2. PICK d : self' = IF apply THEN [self EXCEPT ![p].pair = x, ![p].degraded = d] ELSE self
    BY <1>3, Zenon DEF HandleStatus
  <2>3. self'[p] = self[p] \/ self'[p] = [self[p] EXCEPT !.pair = x, !.degraded = d]
    BY <1>0, <2>2, Zenon DEF Tables
  <2>4. agent'[p] = agent[p] /\ retry'[p] = retry[p] /\ notify'[p] = (notify[p] \/ apply)
    BY <1>0, <1>3, Zenon DEF HandleStatus, Tables
  <2>5. notify'[p] \in BOOLEAN /\ (notify[p] => notify'[p])
    BY <2>4, Zenon
  <2>6. /\ Flags(self'[p]) /\ self'[p].probing = self[p].probing /\ self'[p].next = self[p].next
        /\ self'[p].ready = self[p].ready /\ self'[p].remote = self[p].remote
    BY <1>0, <2>3, Zenon DEF Good, Flags
  <2>7. Good(self'[p], agent'[p], notify'[p], retry'[p])
    BY <1>0, <2>4, <2>5, <2>6, Zenon DEF Good, Flags, Position, Timers, Probes, BacksOff, Tells, Wakes, Types
  <2> QED BY <2>1, <2>7, OneClient, Zenon
<1> QED BY <1>1, <1>2, <1>3, Zenon DEF DispatcherStep

\* The steps of the agent.
LEMMA AgentInv ==
  ASSUME RetryInv, NEW p \in Peers, AgentStep(p)
  PROVE  RetryInv'
<1> DEFINE Same(q) == self'[q] = self[q] /\ agent'[q] = agent[q] /\ notify'[q] = notify[q] /\ retry'[q] = retry[q]
<1>0. Tables /\ Good(self[p], agent[p], notify[p], retry[p])
  BY Zenon DEF RetryInv
<1>1. CASE Announces(p)
  <2>1. Tables' /\ \A q \in Peers \ {p} : Same(q)
    BY <1>0, <1>1, Zenon DEF Announces, Tables
  <2>2. /\ self'[p] = [self[p] EXCEPT !.local = TRUE, !.pending = {}]
        /\ agent'[p] = [agent[p] EXCEPT !.pc = "send", !.todo = {Capabilities(self[p].session)} \cup {Rendezvous(s, self[p].session) : s \in self[p].pending}]
        /\ notify'[p] = TRUE
        /\ retry'[p] = retry[p]
    BY <1>0, <1>1, Zenon DEF Announces, Tables
  <2>3. agent[p].pc = "discover"
    BY <1>1, Zenon DEF Announces
  <2>4. /\ Flags(self'[p]) /\ self'[p].probing = self[p].probing /\ self'[p].next = self[p].next
        /\ self'[p].ready = self[p].ready /\ self'[p].remote = self[p].remote
    BY <1>0, <2>2 DEF Good, Flags
  <2>5. Position(agent'[p]) /\ agent'[p].pc = "send" /\ Types(agent'[p], {"capabilities", "rendezvous"})
    BY <1>0, <2>2 DEF Good, Flags, Position, Capabilities, Rendezvous, Types
  <2>6. notify'[p] = TRUE /\ retry'[p] = retry[p]
    BY <1>0, <2>2, OutdatedTimers, Zenon DEF Good
  <2>7. Good(self'[p], agent'[p], notify'[p], retry'[p])
    BY <1>0, <2>3, <2>4, <2>5, <2>6, Zenon DEF Good, Flags, Position, Timers, Probes, BacksOff, Tells, Wakes, Types
  <2> QED BY <2>1, <2>7, OneClient, Zenon
<1>2. CASE AgentSends(p)
  <2>1. PICK m \in agent[p].todo :
          LET left == agent[p].todo \ {m}
              arms == m.type = "failed" /\ agent[p].arm
          IN /\ agent' = [agent EXCEPT ![p] = IF left = {} THEN [NoAgent EXCEPT !.pc = "idle"] ELSE [@ EXCEPT !.todo = left]]
             /\ notify' = [notify EXCEPT ![p] = @ \/ (left = {} /\ m.type \in {"capabilities", "rendezvous"})]
             /\ retry' = IF arms THEN [retry EXCEPT ![p] = [Outdated(@) EXCEPT !.own = TRUE]] ELSE retry
    BY <1>2, Zenon DEF AgentSends
  <2> DEFINE left == agent[p].todo \ {m}
  <2> DEFINE arms == m.type = "failed" /\ agent[p].arm
  <2>2. Tables' /\ \A q \in Peers \ {p} : Same(q)
    BY <1>0, <1>2, <2>1, Zenon DEF AgentSends, Tables
  <2>3. /\ self'[p] = self[p]
        /\ agent'[p] = IF left = {} THEN [NoAgent EXCEPT !.pc = "idle"] ELSE [agent[p] EXCEPT !.todo = left]
        /\ notify'[p] = (notify[p] \/ (left = {} /\ m.type \in {"capabilities", "rendezvous"}))
        /\ retry'[p] = IF arms THEN [Outdated(retry[p]) EXCEPT !.own = TRUE] ELSE retry[p]
    BY <1>0, <1>2, <2>1, Zenon DEF AgentSends, Tables
  <2>4. agent[p].pc = "send"
    BY <1>2, Zenon DEF AgentSends
  <2>5. /\ notify'[p] \in BOOLEAN /\ (notify[p] => notify'[p])
        /\ left = {} /\ m.type \in {"capabilities", "rendezvous"} => notify'[p]
    BY <2>3, Zenon
  <2>6. /\ Timers(retry'[p]) /\ (arms => retry'[p].own) /\ (~arms => retry'[p] = retry[p])
    BY <1>0, <2>3, OutdatedTimers, Zenon DEF Good, Timers, Outdated
  <2>7. CASE left = {}
    <3>1. agent'[p] = [NoAgent EXCEPT !.pc = "idle"]
      BY <2>3, <2>7, Zenon
    <3>2. Position(agent'[p]) /\ agent'[p].pc = "idle"
      BY <3>1, Zenon DEF Position, NoAgent
    <3> HIDE DEF left
    <3>3. Good(self'[p], agent'[p], notify'[p], retry'[p])
      BY <1>0, <2>3, <2>4, <2>5, <2>6, <2>7, <3>2, Zenon DEF Good, Flags, Position, Timers, Probes, BacksOff, Tells, Wakes, Types
    <3> QED BY <2>2, <3>3, OneClient, Zenon
  <2>8. CASE left # {}
    <3>1. agent'[p] = [agent[p] EXCEPT !.todo = left]
      BY <2>3, <2>8, Zenon
    <3>2. /\ Position(agent'[p]) /\ agent'[p].pc = "send" /\ agent'[p].arm = agent[p].arm
          /\ \A n \in agent'[p].todo : n \in agent[p].todo
      BY <1>0, <2>4, <3>1, Zenon DEF Position, Good
    <3> HIDE DEF left
    <3>3. Good(self'[p], agent'[p], notify'[p], retry'[p])
      BY <1>0, <2>3, <2>4, <2>5, <2>6, <3>2, Zenon DEF Good, Flags, Position, Timers, Probes, BacksOff, Tells, Wakes, Types
    <3> QED BY <2>2, <3>3, OneClient, Zenon
  <2> QED BY <2>7, <2>8, Zenon
<1>3. CASE AgentWakes(p)
  <2>1. Tables' /\ \A q \in Peers \ {p} : Same(q)
    BY <1>0, <1>3, Zenon DEF AgentWakes, Tables
  <2>2. /\ self'[p] = self[p]
        /\ agent'[p] = IF self[p].ready \/ self[p].probing \/ self[p].remote = Nil THEN agent[p]
                         ELSE [NoAgent EXCEPT !.pc = IF self[p].pair = Nil THEN "pair" ELSE "backoff",
                                 !.remote = self[p].remote, !.pair = self[p].pair, !.key = self[p].key]
        /\ notify'[p] = FALSE
        /\ retry'[p] = retry[p]
    BY <1>0, <1>3, Zenon DEF AgentWakes, Tables
  <2>3. agent[p].pc = "idle"
    BY <1>3, Zenon DEF AgentWakes
  <2>4. ~self[p].probing
    BY <1>0, <2>3, Zenon DEF Good, Probes
  <2>5. CASE self[p].ready \/ self[p].remote = Nil
    <3>1. agent'[p] = agent[p] /\ notify'[p] = FALSE /\ self'[p] = self[p] /\ retry'[p] = retry[p]
      BY <2>2, <2>5, Zenon
    <3>2. Good(self'[p], agent'[p], notify'[p], retry'[p])
      BY <1>0, <2>3, <2>5, <3>1, Zenon DEF Good, Flags, Position, Timers, Probes, BacksOff, Tells, Wakes, Types
    <3> QED BY <2>1, <3>2, OneClient, Zenon
  <2>6. CASE ~(self[p].ready \/ self[p].remote = Nil)
    <3>1. Position(agent'[p]) /\ agent'[p].pc \in {"pair", "backoff"}
      BY <2>2, <2>4, <2>6, Zenon DEF NoAgent, Position
    <3>2. notify'[p] = FALSE /\ self'[p] = self[p] /\ retry'[p] = retry[p]
      BY <2>2, Zenon
    <3>3. Good(self'[p], agent'[p], notify'[p], retry'[p])
      BY <1>0, <2>3, <2>4, <3>1, <3>2, Zenon DEF Good, Flags, Position, Timers, Probes, BacksOff, Tells, Wakes, Types
    <3> QED BY <2>1, <3>3, OneClient, Zenon
  <2> QED BY <2>5, <2>6, Zenon
<1>4. CASE SetsPair(p)
  <2>1. Tables' /\ \A q \in Peers \ {p} : Same(q)
    BY <1>0, <1>4, Zenon DEF SetsPair, Tables
  <2>2. /\ self'[p] = [self[p] EXCEPT !.pair = minUUID(self[p].session, agent[p].remote)]
        /\ agent'[p] = [agent[p] EXCEPT !.pc = "backoff", !.pair = minUUID(self[p].session, agent[p].remote)]
        /\ notify'[p] = notify[p]
        /\ retry'[p] = retry[p]
    BY <1>0, <1>4, Zenon DEF SetsPair, Tables
  <2>3. agent[p].pc = "pair"
    BY <1>4, Zenon DEF SetsPair
  <2>4. /\ Flags(self'[p]) /\ self'[p].probing = self[p].probing /\ self'[p].next = self[p].next
        /\ self'[p].ready = self[p].ready /\ self'[p].remote = self[p].remote
    BY <1>0, <2>2, Zenon DEF Good, Flags
  <2>5. Position(agent'[p]) /\ agent'[p].pc = "backoff"
    BY <1>0, <2>2, Zenon DEF Good, Flags, Position
  <2>6. notify'[p] = notify[p] /\ retry'[p] = retry[p]
    BY <1>0, <2>2, OutdatedTimers, Zenon DEF Good
  <2>7. Good(self'[p], agent'[p], notify'[p], retry'[p])
    BY <1>0, <2>3, <2>4, <2>5, <2>6, Zenon DEF Good, Flags, Position, Timers, Probes, BacksOff, Tells, Wakes, Types
  <2> QED BY <2>1, <2>7, OneClient, Zenon
<1>5. CASE ChecksBackoff(p)
  <2> DEFINE other == self[p].backoff # agent[p].pair
  <2> DEFINE early == ~other /\ self[p].next
  <2>1. Tables' /\ \A q \in Peers \ {p} : Same(q)
    BY <1>0, <1>5, Zenon DEF ChecksBackoff, Tables
  <2>2. /\ self'[p] = IF other THEN [self[p] EXCEPT !.backoff = agent[p].pair, !.next = FALSE, !.armed = FALSE] ELSE self[p]
        /\ agent'[p] = [agent[p] EXCEPT !.pc = IF early THEN "idle" ELSE IF agent[p].key = NoKey THEN "key" ELSE "start"]
        /\ notify'[p] = notify[p]
        /\ retry'[p] = IF other THEN Outdated(retry[p]) ELSE retry[p]
    BY <1>0, <1>5, Zenon DEF ChecksBackoff, Tables
  <2>3. agent[p].pc = "backoff"
    BY <1>5, Zenon DEF ChecksBackoff
  <2>4. /\ Flags(self'[p]) /\ self'[p].probing = self[p].probing /\ self'[p].ready = self[p].ready
        /\ self'[p].remote = self[p].remote /\ self'[p].next = (self[p].next /\ ~other)
    BY <1>0, <2>2, Zenon DEF Good, Flags
  <2>5. /\ Position(agent'[p])
        /\ early => agent'[p].pc = "idle"
        /\ ~early => agent'[p].pc \in {"key", "start"}
    BY <1>0, <2>2, Zenon DEF Good, Position
  <2>6. notify'[p] = notify[p] /\ Timers(retry'[p]) /\ (~other => retry'[p] = retry[p])
    BY <1>0, <2>2, OutdatedTimers DEF Good
  <2> HIDE DEF other
  <2>7. Good(self'[p], agent'[p], notify'[p], retry'[p])
    BY <1>0, <2>3, <2>4, <2>5, <2>6, Zenon DEF Good, Flags, Position, Timers, Probes, BacksOff, Tells, Wakes, Types
  <2> QED BY <2>1, <2>7, OneClient, Zenon
<1>6. CASE DerivesKey(p)
  <2>1. Tables' /\ \A q \in Peers \ {p} : Same(q)
    BY <1>0, <1>6, Zenon DEF DerivesKey, Tables
  <2>2. /\ self'[p] = [self[p] EXCEPT !.key = deriveDirectSessionKey(agent[p].pair, self[p].session, agent[p].remote)]
        /\ agent'[p] = [agent[p] EXCEPT !.pc = "start", !.key = deriveDirectSessionKey(agent[p].pair, self[p].session, agent[p].remote)]
        /\ notify'[p] = notify[p]
        /\ retry'[p] = retry[p]
    BY <1>0, <1>6, Zenon DEF DerivesKey, Tables
  <2>3. agent[p].pc = "key"
    BY <1>6, Zenon DEF DerivesKey
  <2>4. /\ Flags(self'[p]) /\ self'[p].probing = self[p].probing /\ self'[p].next = self[p].next
        /\ self'[p].ready = self[p].ready /\ self'[p].remote = self[p].remote
    BY <1>0, <2>2, Zenon DEF Good, Flags
  <2>5. Position(agent'[p]) /\ agent'[p].pc = "start"
    BY <1>0, <2>2, Zenon DEF Good, Flags, Position
  <2>6. notify'[p] = notify[p] /\ retry'[p] = retry[p]
    BY <1>0, <2>2, OutdatedTimers, Zenon DEF Good
  <2>7. Good(self'[p], agent'[p], notify'[p], retry'[p])
    BY <1>0, <2>3, <2>4, <2>5, <2>6, Zenon DEF Good, Flags, Position, Timers, Probes, BacksOff, Tells, Wakes, Types
  <2> QED BY <2>1, <2>7, OneClient, Zenon
<1>7. CASE StartsProbe(p)
  <2>1. Tables' /\ \A q \in Peers \ {p} : Same(q)
    BY <1>0, <1>7, Zenon DEF StartsProbe, Tables
  <2>2. /\ self'[p] = [self[p] EXCEPT !.probing = TRUE]
        /\ agent'[p] = [agent[p] EXCEPT !.pc = "probe"]
        /\ notify'[p] = notify[p]
        /\ retry'[p] = retry[p]
    BY <1>0, <1>7, Zenon DEF StartsProbe, Tables
  <2>3. agent[p].pc = "start"
    BY <1>7, Zenon DEF StartsProbe
  <2>4. /\ Flags(self'[p]) /\ self'[p].probing = TRUE /\ self'[p].next = self[p].next
        /\ self'[p].ready = self[p].ready /\ self'[p].remote = self[p].remote
    BY <1>0, <2>2, Zenon DEF Good, Flags
  <2>5. Position(agent'[p]) /\ agent'[p].pc = "probe"
    BY <1>0, <2>2, Zenon DEF Good, Flags, Position
  <2>6. notify'[p] = notify[p] /\ retry'[p] = retry[p]
    BY <1>0, <2>2, OutdatedTimers, Zenon DEF Good
  <2>7. Good(self'[p], agent'[p], notify'[p], retry'[p])
    BY <1>0, <2>3, <2>4, <2>5, <2>6, Zenon DEF Good, Flags, Position, Timers, Probes, BacksOff, Tells, Wakes, Types
  <2> QED BY <2>1, <2>7, OneClient, Zenon
<1>8. CASE ProbeSucceeds(p)
  <2>1. Tables' /\ \A q \in Peers \ {p} : Same(q)
    BY <1>0, <1>8, Zenon DEF ProbeSucceeds, Tables
  <2>2. /\ self'[p] = [self[p] EXCEPT !.ready = TRUE, !.probing = FALSE, !.next = FALSE, !.armed = FALSE]
        /\ agent'[p] = [agent[p] EXCEPT !.pc = "send", !.todo = {Status("ready", agent[p].pair)}]
        /\ notify'[p] = notify[p]
        /\ retry'[p] = Outdated(retry[p])
    BY <1>0, <1>8, Zenon DEF ProbeSucceeds, Tables
  <2>3. agent[p].pc = "probe"
    BY <1>8, Zenon DEF ProbeSucceeds
  <2>4. /\ Flags(self'[p]) /\ self'[p].probing = FALSE /\ self'[p].next = FALSE
        /\ self'[p].ready = TRUE /\ self'[p].remote = self[p].remote
    BY <1>0, <2>2, Zenon DEF Good, Flags
  <2>5. Position(agent'[p]) /\ agent'[p].pc = "send" /\ Types(agent'[p], {"ready"})
    BY <1>0, <2>2 DEF Good, Flags, Position, Status, Types
  <2>6. notify'[p] = notify[p] /\ Timers(retry'[p])
    BY <1>0, <2>2, OutdatedTimers DEF Good
  <2>7. Good(self'[p], agent'[p], notify'[p], retry'[p])
    BY <1>0, <2>3, <2>4, <2>5, <2>6, Zenon DEF Good, Flags, Position, Timers, Probes, BacksOff, Tells, Wakes, Types
  <2> QED BY <2>1, <2>7, OneClient, Zenon
<1>9. CASE ProbeFails(p)
  <2>1. Tables' /\ \A q \in Peers \ {p} : Same(q)
    BY <1>0, <1>9, Zenon DEF ProbeFails, Tables
  <2>2. /\ self'[p] = [self[p] EXCEPT !.probing = FALSE, !.backoff = agent[p].pair, !.next = TRUE, !.armed = TRUE]
        /\ agent'[p] = [agent[p] EXCEPT !.pc = "send", !.arm = ~self[p].armed, !.todo = {Status("failed", agent[p].pair)}]
        /\ notify'[p] = notify[p]
        /\ retry'[p] = retry[p]
    BY <1>0, <1>9, Zenon DEF ProbeFails, Tables
  <2>3. agent[p].pc = "probe" /\ ~(self[p].armed /\ ~self[p].next)
    BY <1>9, Zenon DEF ProbeFails
  <2>4. /\ Flags(self'[p]) /\ self'[p].probing = FALSE /\ self'[p].next = TRUE
        /\ self'[p].ready = self[p].ready /\ self'[p].remote = self[p].remote
    BY <1>0, <2>2, Zenon DEF Good, Flags
  <2>5. Position(agent'[p]) /\ agent'[p].pc = "send" /\ agent'[p].arm = ~self[p].armed /\ Types(agent'[p], {"failed"})
    BY <1>0, <2>2 DEF Good, Flags, Position, Status, Types
  <2>6. notify'[p] = notify[p] /\ retry'[p] = retry[p]
    BY <1>0, <2>2, OutdatedTimers, Zenon DEF Good
  <2>7. Good(self'[p], agent'[p], notify'[p], retry'[p])
    BY <1>0, <2>3, <2>4, <2>5, <2>6, Zenon DEF Good, Flags, Position, Timers, Probes, BacksOff, Tells, Wakes, Types
  <2> QED BY <2>1, <2>7, OneClient, Zenon
<1> QED BY <1>1, <1>2, <1>3, <1>4, <1>5, <1>6, <1>7, <1>8, <1>9, Zenon DEF AgentStep

\* Time passes.
LEMMA TimeInv ==
  ASSUME RetryInv, NEW p \in Peers, BackoffPasses(p) \/ RetryFires(p)
  PROVE  RetryInv'
<1> DEFINE Same(q) == self'[q] = self[q] /\ agent'[q] = agent[q] /\ notify'[q] = notify[q] /\ retry'[q] = retry[q]
<1>0. Tables /\ Good(self[p], agent[p], notify[p], retry[p])
  BY Zenon DEF RetryInv
<1>1. CASE BackoffPasses(p)
  <2>1. Tables' /\ \A q \in Peers \ {p} : Same(q)
    BY <1>0, <1>1, Zenon DEF BackoffPasses, Tables
  <2>2. /\ self'[p] = [self[p] EXCEPT !.next = FALSE]
        /\ agent'[p] = agent[p] /\ notify'[p] = notify[p] /\ retry'[p] = retry[p]
    BY <1>0, <1>1, Zenon DEF BackoffPasses, Tables
  <2>3. /\ Flags(self'[p]) /\ self'[p].probing = self[p].probing /\ self'[p].next = FALSE
        /\ self'[p].ready = self[p].ready /\ self'[p].remote = self[p].remote
    BY <1>0, <2>2, Zenon DEF Good, Flags
  <2>4. agent'[p] = agent[p] /\ notify'[p] = notify[p] /\ retry'[p] = retry[p]
    BY <2>2, Zenon
  <2>5. Good(self'[p], agent'[p], notify'[p], retry'[p])
    BY <1>0, <2>3, <2>4, Zenon DEF Good, Flags, Position, Timers, Probes, BacksOff, Tells, Wakes, Types
  <2> QED BY <2>1, <2>5, OneClient, Zenon
<1>2. CASE RetryFires(p)
  <2>1. Tables' /\ \A q \in Peers \ {p} : Same(q)
    BY <1>0, <1>2, Zenon DEF RetryFires, Tables
  <2>2. /\ self'[p] = [self[p] EXCEPT !.armed = FALSE]
        /\ agent'[p] = agent[p] /\ notify'[p] = TRUE
        /\ \/ ~self[p].next /\ retry'[p] = [retry[p] EXCEPT !.own = FALSE]
           \/ retry[p].old > 0 /\ retry'[p] = [retry[p] EXCEPT !.old = @ - 1]
    BY <1>0, <1>2, Zenon DEF RetryFires, Tables
  <2>3. /\ Flags(self'[p]) /\ self'[p].probing = self[p].probing /\ self'[p].next = self[p].next
        /\ self'[p].ready = self[p].ready /\ self'[p].remote = self[p].remote
    BY <1>0, <2>2 DEF Good, Flags
  <2>4. Timers(retry'[p]) /\ (self[p].next => retry'[p].own = retry[p].own)
    <3>1. CASE ~self[p].next /\ retry'[p] = [retry[p] EXCEPT !.own = FALSE]
      BY <1>0, <3>1, Zenon DEF Good, Timers
    <3>2. CASE retry[p].old > 0 /\ retry'[p] = [retry[p] EXCEPT !.old = @ - 1]
      <4>1. retry'[p].own = retry[p].own /\ retry'[p].old = retry[p].old - 1 /\ DOMAIN retry'[p] = DOMAIN retry[p]
        BY <1>0, <3>2, Zenon DEF Good, Timers
      <4> QED BY <1>0, <3>2, <4>1 DEF Good, Timers
    <3> QED BY <2>2, <3>1, <3>2, Zenon
  <2>5. agent'[p] = agent[p] /\ notify'[p] = TRUE
    BY <2>2, Zenon
  <2>6. Good(self'[p], agent'[p], notify'[p], retry'[p])
    BY <1>0, <2>3, <2>4, <2>5, Zenon DEF Good, Flags, Position, Timers, Probes, BacksOff, Tells, Wakes, Types
  <2> QED BY <2>1, <2>6, OneClient, Zenon
<1> QED BY <1>1, <1>2, Zenon

\* The agent starts, ends without candidates, or hears a packet.
LEMMA StartInv ==
  ASSUME RetryInv, NEW p \in Peers, Connect(p) \/ DiscoveryFails(p) \/ PacketArrives(p)
  PROVE  RetryInv'
<1>0. Tables /\ Good(self[p], agent[p], notify[p], retry[p])
  BY Zenon DEF RetryInv
<1>1. /\ Tables' /\ self' = self /\ notify' = notify /\ retry' = retry
      /\ \A q \in Peers \ {p} : agent'[q] = agent[q]
  BY <1>0, Zenon DEF Connect, DiscoveryFails, PacketArrives, Tables
<1>2. \/ agent'[p] = [agent[p] EXCEPT !.heard = TRUE]
      \/ agent'[p] = [agent[p] EXCEPT !.pc = agent[p].pc]
      \/ agent[p].pc = "none" /\ agent'[p] = [agent[p] EXCEPT !.pc = "discover"]
      \/ agent[p].pc = "discover" /\ agent'[p] = [agent[p] EXCEPT !.pc = "ended"]
  BY <1>0, Zenon DEF Connect, DiscoveryFails, PacketArrives, Tables
<1>3. /\ Position(agent'[p]) /\ agent'[p].arm = agent[p].arm /\ agent'[p].todo = agent[p].todo
      /\ agent'[p].pc = agent[p].pc \/ (agent[p].pc \in {"none", "discover"} /\ agent'[p].pc \in {"discover", "ended"})
  BY <1>0, <1>2, Zenon DEF Good, Position
<1>4. Good(self'[p], agent'[p], notify'[p], retry'[p])
  BY <1>0, <1>1, <1>3, Zenon DEF Good, Flags, Position, Timers, Probes, BacksOff, Tells, Wakes, Types
<1> QED BY <1>1, <1>4, OneClient, Zenon

\* A client that is started again, or that announces again.
LEMMA AgainInv ==
  ASSUME RetryInv, NEW p \in Peers, Restart(p) \/ Refreshes(p)
  PROVE  RetryInv'
<1> DEFINE Same(q) == self'[q] = self[q] /\ agent'[q] = agent[q] /\ notify'[q] = notify[q] /\ retry'[q] = retry[q]
<1>0. Tables /\ Good(self[p], agent[p], notify[p], retry[p])
  BY Zenon DEF RetryInv
<1>1. CASE Restart(p)
  <2>1. PICK s \in Sessions \ used : self' = [self EXCEPT ![p] = NewClient(s)]
    BY <1>1, Zenon DEF Restart
  <2>2. Tables' /\ \A q \in Peers \ {p} : Same(q)
    BY <1>0, <1>1, <2>1, Zenon DEF Restart, Tables
  <2>3. self'[p] = NewClient(s) /\ agent'[p] = NoAgent /\ notify'[p] = FALSE /\ retry'[p] = NoTimers
    BY <1>0, <1>1, <2>1, Zenon DEF Restart, Tables
  <2>4. Good(self'[p], agent'[p], notify'[p], retry'[p])
    BY <2>3, FreshClient, Zenon
  <2> QED BY <2>2, <2>4, OneClient, Zenon
<1>2. CASE Refreshes(p)
  <2>1. Tables' /\ \A q \in Peers \ {p} : Same(q)
    BY <1>0, <1>2, Zenon DEF Refreshes, Tables
  <2>2. self'[p] = self[p] /\ agent'[p] = agent[p] /\ notify'[p] = TRUE /\ retry'[p] = retry[p]
    BY <1>0, <1>2, Zenon DEF Refreshes, Tables
  <2>3. Good(self'[p], agent'[p], notify'[p], retry'[p])
    BY <1>0, <2>2, Zenon DEF Good, Flags, Position, Timers, Probes, BacksOff, Tells, Wakes, Types
  <2> QED BY <2>1, <2>3, OneClient, Zenon
<1> QED BY <1>1, <1>2, Zenon

\* Every step keeps the invariant.
LEMMA RetryNext == RetryInv /\ [Next]_vars => RetryInv'
<1> SUFFICES ASSUME RetryInv, [Next]_vars PROVE RetryInv'
  BY Zenon
<1>1. CASE UNCHANGED vars
  <2>1. UNCHANGED <<self, agent, notify, retry>>
    BY <1>1, Zenon DEF vars
  <2> QED BY <2>1, NoClient, Zenon
<1>2. CASE Next
  <2>1. PICK p \in Peers :
          \/ Connect(p) \/ Departs(p) \/ ServerStep(p) \/ DispatcherStep(p) \/ AgentStep(p)
          \/ BackoffPasses(p) \/ RetryFires(p) \/ PacketArrives(p) \/ FaultStep(p)
    BY <1>2, Zenon DEF Next
  <2>2. CASE Departs(p) \/ ServerStep(p) \/ LinkBreaks(p)
    <3>1. UNCHANGED <<self, agent, notify, retry>>
      BY <2>2, Zenon DEF Departs, ServerStep, NotesMessage, LooksUpPeer, TellsClient, ForwardsCapabilities, ForwardsMessage, LinkBreaks, client
    <3> QED BY <3>1, NoClient, Zenon
  <2>3. CASE DispatcherStep(p)
    BY <2>3, DispatcherInv, Zenon
  <2>4. CASE AgentStep(p)
    BY <2>4, AgentInv, Zenon
  <2>5. CASE BackoffPasses(p) \/ RetryFires(p)
    BY <2>5, TimeInv, Zenon
  <2>6. CASE Connect(p) \/ DiscoveryFails(p) \/ PacketArrives(p)
    BY <2>6, StartInv, Zenon
  <2>7. CASE Restart(p) \/ Refreshes(p)
    BY <2>7, AgainInv, Zenon
  <2> QED BY <2>1, <2>2, <2>3, <2>4, <2>5, <2>6, <2>7, Zenon DEF FaultStep
<1> QED BY <1>1, <1>2, Zenon

\* No agent that has a peer and no direct path sleeps for good: a token or a
\* timer that will give it one is always left (client.go: directAgent, its retry
\* timer, and what the dispatcher resets under it).
THEOREM ProbeIsRetried == Spec => []ProbeRetried
<1>1. RetryInv => ProbeRetried
  BY Zenon DEF RetryInv, Good, Wakes, ProbeRetried
<1> QED BY <1>1, RetryInit, RetryNext, PTL DEF Spec
=============================================================================
