--------------------------- MODULE MCZoneStreams ---------------------------
(* The scenarios of ZoneStreams.                                           *)
EXTENDS ZoneStreams

CONSTANTS a, b

Reads(client, service) == [m \in Members |-> [o \in Objects |->
                             CASE m = a /\ o = "out" -> client [] m = b /\ o = "in" -> service [] OTHER -> 0]]
Apart == [m \in Members |-> IF m = a THEN 0 ELSE 1]
Same == [m \in Members |-> 0]

\* A service that sends two payloads and whose member may be lost, a client
\* that sends one, and two members that pick the same ID.
ThreePlans == {[openers |-> {a}, seeds |-> Apart, reads |-> Reads(0, 2), apps |-> {a, b}, losses |-> {b}],
               [openers |-> {a}, seeds |-> Apart, reads |-> Reads(1, 0), apps |-> {a, b}, losses |-> {a}],
               [openers |-> {a, b}, seeds |-> Same, reads |-> Reads(0, 0), apps |-> {}, losses |-> {}]}
=============================================================================
