--------------------------- MODULE MCChannelSetup ---------------------------
(***************************************************************************)
(* Instances of ChannelSetup: two octets of two bits, four hosts of which  *)
(* one resolves to two addresses and one does not, five ports.             *)
(***************************************************************************)
EXTENDS ChannelSetup

MCHosts == {"in", "out", "both", "lost"}
MCResolve == [h \in MCHosts \cup {""} |-> CASE h = "in" -> {5} [] h = "out" -> {8} [] h = "both" -> {5, 8} [] h \in {"lost", ""} -> {}]

Rule(addrs, ports) == [addrs |-> addrs, ports |-> ports]
\* Rules of every form, at and beyond their ends.
Specs == {CIDR(ip, size) : ip \in {5, 8}, size \in {1, 4, 16}} \cup {FullRange(lo, hi) : lo, hi \in {4, 5, 8}}
           \cup {ShortRange(lo, last) : lo \in {5, 8}, last \in {0, 1, 3, 4}} \cup {Single(5), Unparsable}
Ports == {<<1, 2>>, <<2, 3>>, <<3, 1>>, <<0, 1>>}
RawLists == {<<>>} \cup {<<Rule(a, p)>> : a \in {<<>>} \cup {<<s>> : s \in Specs}, p \in {<<>>} \cup {<<q>> : q \in Ports}}
              \cup {<<Rule(<<Single(5)>>, <<<<1, 1>>>>), Rule(<<s>>, <<<<2, 3>>>>)>> : s \in Specs}

\* A destination is allowed exactly when a rule of the list names its port and
\* one of its addresses, for every form of rule (access.go).
AllowedMeansNamed == pc = "accepted" => AllowMeans(RawLists)

Socks == [proto |-> "socks", methods |-> {"none"}, cred |-> "absent", form |-> "good", cmd |-> "connect", host |-> "in", port |-> 2]
Http == [Socks EXCEPT !.proto = "http", !.port = -1]
Udp == [Socks EXCEPT !.cmd = "udp"]
Base == [server |-> "entry", v2 |-> FALSE, fastOpen |-> FALSE, links |-> {"l1"}, auth |-> FALSE, backend |-> TRUE,
         request |-> Socks, upstream |-> "none", breaks |-> FALSE, first |-> FALSE,
         token |-> NoRules, option |-> NoRules, dial |-> NoRules, forward |-> NoRules, later |-> NoRules]
OnlyIn == Rules(<<Rule(<<CIDR(5, 4)>>, <<>>)>>)
OnlyOut == Rules(<<Rule(<<ShortRange(8, 3)>>, <<>>)>>)

\* Requests of every form; the target is never reached.
FrontEndPlans ==
  {[Base EXCEPT !.auth = a, !.request = [Socks EXCEPT !.methods = ms, !.cred = c, !.form = f, !.cmd = "bind"], !.upstream = "silent"] :
     a \in BOOLEAN, ms \in SUBSET {"none", "userpass"}, c \in {"right", "wrong", "absent"}, f \in {"good", "version", "short", "type"}}
  \cup {[Base EXCEPT !.auth = a, !.request = [Http EXCEPT !.cred = c, !.form = f, !.cmd = m, !.port = p], !.upstream = "silent"] :
     a \in BOOLEAN, c \in {"right", "wrong"}, f \in {"good", "short", "https"}, m \in {"connect", "get"}, p \in {-1, 0, 3, MaxPort + 1}}
  \cup {[Base EXCEPT !.request = [Http EXCEPT !.host = "", !.cmd = m]] : m \in {"connect", "get"}}
  \cup {[Base EXCEPT !.backend = FALSE, !.request.proto = p] : p \in {"socks", "http", "other"}}
  \cup {[Base EXCEPT !.request.proto = "other"]}

\* Every rule that may stand between a request and its target.
RulePlans ==
  {[Base EXCEPT !.server = s, !.request.host = h, !.token = t, !.option = OnlyIn, !.later = n] :
     s \in Sides, h \in {"in", "out"}, t \in {NoRules, OnlyOut, Rules(<<>>)}, n \in {NoRules, OnlyOut}}
  \cup {[Base EXCEPT !.request = [Http EXCEPT !.host = h], !.option = OnlyIn] : h \in MCHosts}
  \cup {[Base EXCEPT !.request.host = "", !.option = OnlyIn]}
  \cup {[Base EXCEPT !.server = "dialer", !.v2 = v, !.request.host = h, !.forward = OnlyIn, !.dial = d] :
     v \in BOOLEAN, h \in {"both", "out"}, d \in {NoRules, OnlyOut}}
  \cup {[Base EXCEPT !.server = "dialer", !.request.host = h, !.dial = OnlyIn, !.later = n] :
     h \in {"in", "out"}, n \in {OnlyOut, Rules(<<>>)}}
  \cup {[Base EXCEPT !.request = Udp, !.auth = a, !.option = OnlyIn] : a \in BOOLEAN}
  \cup {[Base EXCEPT !.server = "dialer", !.request = Udp, !.forward = f] : f \in {OnlyIn, Rules(<<>>)}}
  \cup {[Base EXCEPT !.auth = TRUE, !.request.methods = {"none", "userpass"}, !.request.cred = c] : c \in {"right", "wrong"}}

\* Channels that are set up, used and ended, with what may go wrong.
ChannelPlans ==
  {[Base EXCEPT !.server = s, !.fastOpen = f, !.request = r, !.first = (f /\ r # Udp)] : s \in Sides, f \in BOOLEAN, r \in {Socks, Udp}}
  \cup {[Base EXCEPT !.server = s, !.v2 = TRUE, !.request = r, !.first = (r # Udp)] : s \in Sides, r \in {Http, Udp}}
  \cup {[Base EXCEPT !.server = s, !.upstream = u, !.request = r] : s \in Sides, u \in {"socks", "http", "silent"}, r \in {Socks, Udp}}
  \cup {[Base EXCEPT !.server = s, !.breaks = TRUE, !.fastOpen = f] : s \in Sides, f \in BOOLEAN}
  \cup {[Base EXCEPT !.request.port = 0], [Base EXCEPT !.first = TRUE]}
\* A client with two links, whose messages overtake one another.
TwoLinkPlans == {[Base EXCEPT !.server = s, !.links = {"l1", "l2"}, !.fastOpen = TRUE] : s \in Sides}

SetupPlans == FrontEndPlans \cup RulePlans \cup ChannelPlans \cup TwoLinkPlans

\* The fast-open timer of an encrypted channel.
V2Plans == {[Base EXCEPT !.server = s, !.v2 = TRUE, !.fastOpen = TRUE] : s \in Sides}
=============================================================================
