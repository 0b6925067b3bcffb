---------------------------- MODULE AccessRules -----------------------------
(***************************************************************************)
(* Access control of destinations (linksocks/access.go): parsing of rules, *)
(* and the decision for a host and a port.  Pure definitions, with the     *)
(* meaning they should have.                                               *)
(*                                                                         *)
(* An address is its number in the 16-byte form, of which Octets octets    *)
(* vary; a host name stands for the addresses it resolves to.              *)
(***************************************************************************)
EXTENDS Integers, FiniteSets, Sequences, Functions

CONSTANTS Octet,    \* 256
          Octets,   \* octets of an address
          MaxPort,  \* 65535
          Hosts,    \* names of destinations
          Resolve   \* Resolve[h]: net.ParseIP or net.LookupIP of h, {} when it fails,
                    \* as it does for the empty name

Addresses == 0..(Octet ^ Octets - 1)

ASSUME AccessRulesAssumption ==
  /\ Octet \in Nat \ {0, 1} /\ Octets \in Nat \ {0} /\ MaxPort \in Nat
  /\ Resolve \in [Hosts \cup {""} -> SUBSET Addresses] /\ Resolve[""] = {}

\* The forms of an address: "10.0.0.0/8" with the addresses below the mask,
\* "10.0.0.1-10.0.1.9", "10.0.0.1-9", "10.0.0.1", and what does not parse.
CIDR(ip, hosts) == [form |-> "cidr", ip |-> ip, arg |-> hosts]
FullRange(lo, hi) == [form |-> "range", ip |-> lo, arg |-> hi]
ShortRange(lo, last) == [form |-> "short", ip |-> lo, arg |-> last]
Single(ip) == [form |-> "ip", ip |-> ip, arg |-> 0]
Unparsable == [form |-> "none", ip |-> 0, arg |-> 0]

\* The lists a configuration or the API may hold.
AddrSpec == {spec \in [form : {"cidr", "range", "short", "ip", "none"}, ip : Addresses, arg : Nat] : spec.form = "cidr" => spec.arg > 0}
RawRules == Seq([addrs : Seq(AddrSpec), ports : Seq(Int \X Int)])

AddrParses(spec) == spec.form # "none" /\ (spec.form = "short" => spec.arg < Octet)

\* The last address of a subnet, its first one with every host bit set.
ipNetEndExclusive(start, hosts) == start + hosts
ipNetEnd(start, hosts) == start + hosts - 1

NetworkStart(spec) == (spec.ip \div spec.arg) * spec.arg

\* start and end of the ipRange of a form that parses.
parseAddrSpec(spec) ==
  CASE spec.form = "cidr" -> <<NetworkStart(spec), ipNetEnd(NetworkStart(spec), spec.arg)>>
    [] spec.form = "range" -> <<spec.ip, spec.arg>>
    [] spec.form = "short" -> <<spec.ip, (spec.ip \div Octet) * Octet + spec.arg>>
    [] spec.form = "ip" -> <<spec.ip, spec.ip>>

PortParses(range) == range[1] >= 1 /\ range[2] <= MaxPort /\ range[2] >= range[1]

\* NewAccessControl: one bad entry refuses the whole list.
RulesParse(raw) ==
  \A i \in DOMAIN raw : /\ \A j \in DOMAIN raw[i].addrs : AddrParses(raw[i].addrs[j])
                        /\ \A j \in DOMAIN raw[i].ports : PortParses(raw[i].ports[j])
NewAccessControl(raw) ==
  [i \in DOMAIN raw |-> [addrs |-> [j \in DOMAIN raw[i].addrs |-> parseAddrSpec(raw[i].addrs[j])], ports |-> raw[i].ports]]

Empty(ac) == ac = <<>>

InRange(range, x) == x >= range[1] /\ x <= range[2]

\* One rule allows both the port and one of the addresses; a host that does
\* not resolve is refused.
AllowEither(ac, host, port) ==
  \/ Empty(ac)
  \/ \E i \in DOMAIN ac, ip \in Resolve[host] :
       \/ ac[i].ports # <<>> /\ \E j \in DOMAIN ac[i].ports : InRange(ac[i].ports[j], port)
       \/ ac[i].addrs # <<>> /\ \E j \in DOMAIN ac[i].addrs : InRange(ac[i].addrs[j], ip)
Allow(ac, host, port) ==
  \/ Empty(ac)
  \/ \E i \in DOMAIN ac, ip \in Resolve[host] :
       /\ ac[i].ports = <<>> \/ \E j \in DOMAIN ac[i].ports : InRange(ac[i].ports[j], port)
       /\ ac[i].addrs = <<>> \/ \E j \in DOMAIN ac[i].addrs : InRange(ac[i].addrs[j], ip)

-----------------------------------------------------------------------------

\* What a form means: the addresses it names.
Named(spec) ==
  {x \in Addresses :
     CASE spec.form = "cidr" -> x \div spec.arg = spec.ip \div spec.arg
       [] spec.form = "range" -> x \in spec.ip..spec.arg
       [] spec.form = "short" -> x \div Octet = spec.ip \div Octet /\ x % Octet \in (spec.ip % Octet)..spec.arg
       [] spec.form = "ip" -> x = spec.ip}

\* What a list of rules means.
Permitted(raw, host, port) ==
  raw = <<>> \/ \E i \in DOMAIN raw :
    /\ raw[i].ports = <<>> \/ port \in UNION {r[1]..r[2] : r \in Range(raw[i].ports)}
    /\ Resolve[host] \cap (IF raw[i].addrs = <<>> THEN Addresses ELSE UNION {Named(s) : s \in Range(raw[i].addrs)}) # {}

\* A destination is allowed exactly when a rule names both its port and one of
\* its addresses (access.go, parseAddrSpec to Allow).
AllowMeans(raws) ==
  \A raw \in raws : RulesParse(raw) =>
    \A h \in Hosts, port \in 0..MaxPort : Allow(NewAccessControl(raw), h, port) <=> Permitted(raw, h, port)
=============================================================================
