----------------------------- MODULE ZoneRules -----------------------------
(***************************************************************************)
(* The firewall rules of a zone (zone/rules.go): which settings compile,   *)
(* how a frame is classified, which flows a rule matches and what a rule   *)
(* set decides.                                                            *)
(*                                                                         *)
(* A network is the set of addresses it contains, or Unset; a port field   *)
(* is Unset or a range.  The text forms of both are left out.              *)
(***************************************************************************)
EXTENDS Naturals, Sequences, SequencesExt

CONSTANTS Addresses, Ports,
          MaxRules      \* maxZoneRules

ASSUME ZoneRulesAssumption == Ports \subseteq Nat /\ 0 \in Ports /\ MaxRules \in Nat

Unset == [set |-> FALSE]
PortRange(from, to) == [set |-> TRUE, from |-> from, to |-> to]
Network(addresses) == [set |-> TRUE, addresses |-> addresses]
NoAddress == [none |-> TRUE]
Protocols == {"any", "tcp", "udp", "icmp", "arp"}
Actions == {"allow", "deny"}

-----------------------------------------------------------------------------
(* Settings.                                                               *)

\* UnmarshalJSON of a port field rejects the whole message.
PortFieldParses(p) == p.set => p.from <= p.to
SettingsParse(s) == \A i \in DOMAIN s.rules : PortFieldParses(s.rules[i].srcPort) /\ PortFieldParses(s.rules[i].dstPort)

\* compileRule
RuleCompiles(r) ==
  /\ r.proto \in Protocols \cup {""}
  /\ r.proto \in {"icmp", "arp"} => ~r.srcPort.set /\ ~r.dstPort.set
  /\ r.action \in Actions
CompiledRule(r) == [r EXCEPT !.proto = IF @ = "" THEN "any" ELSE @]

\* compileSettings: an empty default action allows.
SettingsCompile(s) ==
  /\ s.default \in Actions \cup {""}
  /\ Len(s.rules) <= MaxRules
  /\ \A i \in DOMAIN s.rules : RuleCompiles(s.rules[i])
Compiled(s) == [rules |-> [i \in DOMAIN s.rules |-> CompiledRule(s.rules[i])], defaultAllow |-> s.default # "deny"]

-----------------------------------------------------------------------------
(* Flows.                                                                  *)

NoFlow == [src |-> NoAddress, dst |-> NoAddress, proto |-> "any", srcPort |-> 0, dstPort |-> 0,
           srcKnown |-> FALSE, dstKnown |-> FALSE]
\* The flow of a datagram, and of a stream, whose source port is not known.
DatagramFlow(src, dst, srcPort, dstPort) ==
  [src |-> src, dst |-> dst, proto |-> "udp", srcPort |-> srcPort, dstPort |-> dstPort, srcKnown |-> TRUE, dstKnown |-> TRUE]
StreamFlow(src, dst, port) ==
  [src |-> src, dst |-> dst, proto |-> "tcp", srcPort |-> 0, dstPort |-> port, srcKnown |-> FALSE, dstKnown |-> TRUE]

\* A frame has a type, addresses, the transport of an IPv4 packet and its ports;
\* header and ports say whether it is long enough to hold them, and to is the
\* owner of its destination: "peer", "group" or "stranger".
Frame(to, type, header, src, dst, transport, ports, srcPort, dstPort) ==
  [to |-> to, type |-> type, header |-> header, src |-> src, dst |-> dst, transport |-> transport,
   ports |-> ports, srcPort |-> srcPort, dstPort |-> dstPort]

\* readIPPorts
ReadIPPorts(f, frame) ==
  IF frame.ports
  THEN [f EXCEPT !.srcPort = frame.srcPort, !.dstPort = frame.dstPort, !.srcKnown = TRUE, !.dstKnown = TRUE]
  ELSE f

\* ethernetFlow
EthernetFlow(frame) ==
  LET addressed == [NoFlow EXCEPT !.src = frame.src, !.dst = frame.dst]
  IN CASE frame.type = "ipv4" /\ frame.header ->
            (CASE frame.transport = "icmp" -> [addressed EXCEPT !.proto = "icmp", !.srcKnown = TRUE, !.dstKnown = TRUE]
               [] frame.transport \in {"tcp", "udp"} -> ReadIPPorts([addressed EXCEPT !.proto = frame.transport], frame)
               [] OTHER -> addressed)
       [] frame.type = "arp" -> [(IF frame.header THEN addressed ELSE NoFlow) EXCEPT !.proto = "arp"]
       [] OTHER -> NoFlow

-----------------------------------------------------------------------------
(* Decisions.                                                              *)

\* Mutant: the end of a range is not contained.
PortContainsHalfOpen(p, port) == ~p.set \/ (port >= p.from /\ port < p.to)

\* portField.contains
PortContains(p, port) == ~p.set \/ (port >= p.from /\ port <= p.to)

\* matches: a rule with a port only matches flows of TCP and UDP whose port is
\* known.
PortMatches(p, proto, known, port) == p.set => proto \in {"tcp", "udp"} /\ known /\ PortContains(p, port)
NetworkMatches(n, addr) == n.set => addr # NoAddress /\ addr \in n.addresses
RuleMatches(r, f) ==
  /\ r.proto = "any" \/ r.proto = f.proto
  /\ PortMatches(r.srcPort, f.proto, f.srcKnown, f.srcPort)
  /\ PortMatches(r.dstPort, f.proto, f.dstKnown, f.dstPort)
  /\ NetworkMatches(r.src, f.src)
  /\ NetworkMatches(r.dst, f.dst)

\* allow: the first rule that matches decides.
RulesAllow(rs, f) ==
  LET Decide(decided, r) == IF decided # "open" \/ ~RuleMatches(r, f) THEN decided ELSE r.action
      verdict == FoldLeft(Decide, "open", rs.rules)
  IN IF verdict = "open" THEN rs.defaultAllow ELSE verdict = "allow"
=============================================================================
