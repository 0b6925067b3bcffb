---------------------------- MODULE MCZoneMember ----------------------------
(***************************************************************************)
(* ZoneMember for TLC.                                                     *)
(***************************************************************************)
EXTENDS ZoneMember

CONSTANTS a, b

Two == {a, b}
MCPorts == 0..3
ClientsOfA(clients) == [m \in Two |-> IF m = a THEN clients ELSE {}]
Comings(m) == [n \in Two |-> IF n = m THEN 2 ELSE 1]
None == [n \in Two |-> 0]
Once == [n \in Two |-> 1]
MCPlans ==
  {\* two clients of one service
   [sinks |-> ClientsOfA({1, 2}), vlan |-> {}, sessions |-> Once, copies |-> 1, frames |-> None,
    losses |-> {}, changes |-> FALSE, reaps |-> FALSE],
   \* the sender rejoins
   [sinks |-> ClientsOfA({1}), vlan |-> {}, sessions |-> Comings(a), copies |-> 1, frames |-> None,
    losses |-> {a}, changes |-> FALSE, reaps |-> FALSE],
   \* the service's member rejoins
   [sinks |-> ClientsOfA({1}), vlan |-> {}, sessions |-> Comings(b), copies |-> 1, frames |-> None,
    losses |-> {b}, changes |-> FALSE, reaps |-> TRUE],
   \* new settings
   [sinks |-> ClientsOfA({1}), vlan |-> {}, sessions |-> Once, copies |-> 1, frames |-> None,
    losses |-> {}, changes |-> TRUE, reaps |-> FALSE],
   \* frames and datagrams, and new settings
   [sinks |-> ClientsOfA({2}), vlan |-> Two, sessions |-> Once, copies |-> 0, frames |-> [None EXCEPT ![a] = 1],
    losses |-> {}, changes |-> TRUE, reaps |-> FALSE]}

Rule(src, srcPort, proto, dst, dstPort, action) ==
  [src |-> src, srcPort |-> srcPort, proto |-> proto, dst |-> dst, dstPort |-> dstPort, action |-> action]
Open == [default |-> "", rules |-> <<>>]
\* Client 2 may not talk, the replies to the others may not pass a later rule.
Closed ==
  [default |-> "allow",
   rules |-> <<Rule(Network({a}), PortRange(2, 2), "udp", Unset, Unset, "deny"),
               Rule(Unset, Unset, "udp", Network({b}), PortRange(3, 3), "allow"),
               Rule(Unset, PortRange(1, 2), "any", Unset, PortRange(1, 3), "deny"),
               Rule(Unset, Unset, "", Network({b}), Unset, "deny")>>]
Strange == [default |-> "allow", rules |-> <<Rule(Unset, Unset, "arp", Unset, PortRange(1, 1), "deny")>>]
Broken == [default |-> "allow", rules |-> <<Rule(Unset, PortRange(2, 1), "tcp", Unset, Unset, "deny")>>]
MCSettings == {Open, Closed, Strange, Broken}

MCFrames ==
  {Frame("peer", "ipv4", TRUE, a, b, "udp", TRUE, 2, 3),
   Frame("group", "arp", TRUE, a, b, "other", FALSE, 0, 0),
   Frame("stranger", "ipv6", TRUE, a, b, "other", FALSE, 0, 0)}
=============================================================================
