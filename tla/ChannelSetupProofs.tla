------------------------- MODULE ChannelSetupProofs -------------------------
(***************************************************************************)
(* Proofs about AccessRules and ChannelSetup: lists of rules mean what     *)
(* they say for every size of addresses and ports, and nothing is dialled  *)
(* or sent out against the rules in force, for every plan.                 *)
(***************************************************************************)
EXTENDS ChannelSetup, TLAPS

-----------------------------------------------------------------------------
(* Rules.                                                                  *)

\* Division with remainder.
LEMMA Division ==
  ASSUME NEW a \in Nat, NEW d \in Nat, d > 0
  PROVE  /\ a \div d \in Nat /\ a % d \in 0..(d - 1)
         /\ a = d * (a \div d) + (a % d)
BY Z3

\* Two numbers have the same quotient exactly when the second lies between the
\* first multiple of the quotient and the next.
LEMMA SameQuotient ==
  ASSUME NEW ip \in Nat, NEW x \in Nat, NEW d \in Nat, d > 0
  PROVE  x \div d = ip \div d <=> (ip \div d) * d <= x /\ x <= (ip \div d) * d + d - 1
<1> DEFINE q == ip \div d  k == x \div d  m == x % d
<1>1. q \in Nat /\ k \in Nat /\ m \in 0..(d - 1) /\ x = d * k + m
  BY Division, Zenon
<1> HIDE DEF q, k, m
<1>2. k = q => q * d <= x /\ x <= q * d + d - 1
  BY <1>1, Z3
<1>3. ASSUME q * d <= x, x <= q * d + d - 1 PROVE k = q
  <2>1. CASE k < q
    <3>1. PICK e \in Nat : q = k + 1 + e
      <4>1. q - k - 1 \in Nat /\ q = k + 1 + (q - k - 1)
        BY <1>1, <2>1
      <4> QED BY <4>1, Zenon
    <3>2. q * d = k * d + d + e * d /\ e * d >= 0
      BY <3>1, <1>1, Z3
    <3> QED BY <3>2, <1>1, <1>3, Z3
  <2>2. CASE k > q
    <3>1. PICK e \in Nat : k = q + 1 + e
      <4>1. k - q - 1 \in Nat /\ k = q + 1 + (k - q - 1)
        BY <1>1, <2>2
      <4> QED BY <4>1, Zenon
    <3>2. k * d = q * d + d + e * d /\ e * d >= 0
      BY <3>1, <1>1, Z3
    <3> QED BY <3>2, <1>1, <1>3, Z3
  <2> QED BY <2>1, <2>2, <1>1
<1> QED BY <1>2, <1>3, Zenon DEF q, k

\* An address is in the parsed range of a form exactly when the form names it:
\* networks, full and short ranges and single addresses (parseAddrSpec, ipRange).
LEMMA RangeMeans ==
  ASSUME NEW spec \in AddrSpec, AddrParses(spec), NEW x \in Addresses
  PROVE  InRange(parseAddrSpec(spec), x) <=> x \in Named(spec)
<1>1. /\ spec.form \in {"cidr", "range", "short", "ip"} /\ spec.ip \in Nat /\ spec.arg \in Nat /\ x \in Nat
      /\ spec.form = "cidr" => spec.arg > 0
      /\ spec.form = "short" => spec.arg < Octet
      /\ Octet \in Nat /\ Octet > 0
  <2>1. Octet \in Nat /\ Octet > 0
    <3>1. Octet \in Nat \ {0, 1}
      BY AccessRulesAssumption, Zenon
    <3> QED BY <3>1
  <2>2. spec \in [form : {"cidr", "range", "short", "ip", "none"}, ip : Addresses, arg : Nat] /\ (spec.form = "cidr" => spec.arg > 0)
    BY Zenon DEF AddrSpec
  <2>3. spec.ip \in Nat /\ x \in Nat
    <3>1. spec.ip \in Addresses
      BY <2>2, Zenon
    <3>2. \A y \in Addresses : y \in Nat
      BY DEF Addresses
    <3> QED BY <3>1, <3>2, Zenon
  <2> QED BY <2>1, <2>2, <2>3, Zenon DEF AddrParses
<1>2. CASE spec.form = "cidr"
  <2>1. parseAddrSpec(spec) = <<NetworkStart(spec), ipNetEnd(NetworkStart(spec), spec.arg)>>
    BY <1>2, Zenon DEF parseAddrSpec
  <2>2. x \in Named(spec) <=> x \div spec.arg = spec.ip \div spec.arg
    BY <1>2, Zenon DEF Named
  <2>3. InRange(parseAddrSpec(spec), x)
          <=> (spec.ip \div spec.arg) * spec.arg <= x /\ x <= (spec.ip \div spec.arg) * spec.arg + spec.arg - 1
    <3>1. (spec.ip \div spec.arg) * spec.arg \in Int
      BY Division, <1>1, <1>2
    <3> QED BY <2>1, <1>1, <3>1 DEF InRange, NetworkStart, ipNetEnd
  <2> QED BY <2>2, <2>3, <1>1, <1>2, SameQuotient, Zenon
<1>3. CASE spec.form = "range"
  BY <1>1, <1>3 DEF parseAddrSpec, Named, InRange
<1>4. CASE spec.form = "short"
  <2> DEFINE q == spec.ip \div Octet
  <2>1. /\ q \in Nat /\ spec.ip = Octet * q + (spec.ip % Octet) /\ spec.ip % Octet \in 0..(Octet - 1)
        /\ x = Octet * (x \div Octet) + (x % Octet) /\ x % Octet \in 0..(Octet - 1)
    BY <1>1, Division, Zenon
  <2>2. InRange(parseAddrSpec(spec), x) <=> spec.ip <= x /\ x <= q * Octet + spec.arg
    <3>1. parseAddrSpec(spec) = <<spec.ip, q * Octet + spec.arg>>
      BY <1>4, Zenon DEF parseAddrSpec
    <3>2. q * Octet \in Int
      BY <2>1, <1>1
    <3> HIDE DEF q
    <3> QED BY <3>1, <3>2, <1>1 DEF InRange
  <2>3. x \in Named(spec) <=> x \div Octet = q /\ x % Octet \in (spec.ip % Octet)..spec.arg
    BY <1>4, Zenon DEF Named
  <2>4. x \div Octet = q <=> q * Octet <= x /\ x <= q * Octet + Octet - 1
    BY <1>1, SameQuotient, Zenon
  <2> DEFINE qo == q * Octet  r == x % Octet  i == spec.ip % Octet
  <2>5. qo \in Int /\ Octet * q = qo
    BY <2>1, <1>1
  <2> HIDE DEF q, qo, r, i
  <2>6. x \div Octet = q => x = qo + r
    BY <2>1, <2>5, Zenon DEF r
  <2>7. spec.ip = qo + i /\ i \in 0..(Octet - 1) /\ r \in 0..(Octet - 1)
    BY <2>1, <2>5, Zenon DEF r, i
  <2>8. x \in Named(spec) <=> x \div Octet = q /\ r \in i..spec.arg
    BY <2>3, Zenon DEF r, i
  <2>9. x \div Octet = q <=> qo <= x /\ x <= qo + Octet - 1
    BY <2>4, Zenon DEF qo
  <2>10. InRange(parseAddrSpec(spec), x) <=> spec.ip <= x /\ x <= qo + spec.arg
    BY <2>2, Zenon DEF qo
  <2> QED BY <2>5, <2>6, <2>7, <2>8, <2>9, <2>10, <1>1, <1>4
<1>5. CASE spec.form = "ip"
  BY <1>1, <1>5 DEF parseAddrSpec, Named, InRange
<1> QED BY <1>1, <1>2, <1>3, <1>4, <1>5, Zenon

\* Parsing keeps a list empty or not.
LEMMA MappedEmpty ==
  ASSUME NEW S, NEW s \in Seq(S), NEW f, DOMAIN f = DOMAIN s
  PROVE  f = <<>> => s = <<>>
OBVIOUS

\* And so does mapping the empty list.
LEMMA EmptyMapped ==
  ASSUME NEW s, s = <<>>, NEW f, f = [i \in DOMAIN f |-> f[i]], DOMAIN f = DOMAIN s
  PROVE  f = <<>>
OBVIOUS

\* An element of a sequence over S is in S.
LEMMA ElementIn ==
  ASSUME NEW S, NEW s \in Seq(S), NEW i \in DOMAIN s
  PROVE  s[i] \in S
OBVIOUS

\* A port is in one of the ranges of a rule exactly when it is one of the ports
\* they name (NewAccessControl, Allow).
LEMMA PortsMean ==
  ASSUME NEW ports \in Seq(Int \X Int), NEW port \in Int
  PROVE  (\E j \in DOMAIN ports : InRange(ports[j], port)) <=> port \in UNION {r[1]..r[2] : r \in Range(ports)}
<1>1. \A j \in DOMAIN ports : ports[j][1] \in Int /\ ports[j][2] \in Int
  OBVIOUS
<1>2. \A j \in DOMAIN ports : InRange(ports[j], port) <=> port \in ports[j][1]..ports[j][2]
  BY <1>1 DEF InRange
<1>3. port \in UNION {r[1]..r[2] : r \in Range(ports)} <=> \E j \in DOMAIN ports : port \in ports[j][1]..ports[j][2]
  BY Zenon DEF Range
<1> QED BY <1>2, <1>3, Zenon

\* The same of the addresses of a rule and what a host resolves to.
LEMMA AddressesMean ==
  ASSUME NEW addrs \in Seq(AddrSpec), \A j \in DOMAIN addrs : AddrParses(addrs[j]), NEW ip \in Addresses
  PROVE  (\E j \in DOMAIN addrs : InRange(parseAddrSpec(addrs[j]), ip)) <=> ip \in UNION {Named(spec) : spec \in Range(addrs)}
<1>1. \A j \in DOMAIN addrs : addrs[j] \in AddrSpec
  OBVIOUS
<1>2. \A j \in DOMAIN addrs : InRange(parseAddrSpec(addrs[j]), ip) <=> ip \in Named(addrs[j])
  BY <1>1, RangeMeans, Zenon
<1>3. ip \in UNION {Named(spec) : spec \in Range(addrs)} <=> \E j \in DOMAIN addrs : ip \in Named(addrs[j])
  BY Zenon DEF Range
<1> QED BY <1>2, <1>3, Zenon

\* A list that parses allows a destination exactly when one of its rules names
\* the port and an address of the host, or when it is empty (access.go).
LEMMA AllowIsPermitted ==
  ASSUME NEW raw \in RawRules, RulesParse(raw), NEW h \in Hosts \cup {""}, NEW port \in Int
  PROVE  Allow(NewAccessControl(raw), h, port) <=> Permitted(raw, h, port)
<1> DEFINE ac == NewAccessControl(raw)
<1> DEFINE Serves(i) == raw[i].ports = <<>> \/ port \in UNION {r[1]..r[2] : r \in Range(raw[i].ports)}
<1> DEFINE Covered(i) == IF raw[i].addrs = <<>> THEN Addresses ELSE UNION {Named(s) : s \in Range(raw[i].addrs)}
<1>1. /\ DOMAIN ac = DOMAIN raw
      /\ \A i \in DOMAIN raw : /\ ac[i].ports = raw[i].ports
                               /\ ac[i].addrs = [j \in DOMAIN raw[i].addrs |-> parseAddrSpec(raw[i].addrs[j])]
  BY Zenon DEF NewAccessControl
<1>2. \A i \in DOMAIN raw : raw[i].addrs \in Seq(AddrSpec) /\ raw[i].ports \in Seq(Int \X Int)
  <2> DEFINE Rule == [addrs : Seq(AddrSpec), ports : Seq(Int \X Int)]
  <2>1. raw \in Seq(Rule)
    BY Zenon DEF RawRules
  <2> SUFFICES ASSUME NEW i \in DOMAIN raw PROVE raw[i] \in Rule
    BY Zenon
  <2> HIDE DEF Rule
  <2> QED BY <2>1, ElementIn, Zenon
<1>3. Resolve[h] \subseteq Addresses
  BY AccessRulesAssumption, Zenon
<1>4. ac = <<>> <=> raw = <<>>
  <2>1. ASSUME raw = <<>> PROVE ac = <<>>
    <3>1. ac = [i \in DOMAIN ac |-> ac[i]] /\ DOMAIN ac = DOMAIN raw
      BY Zenon DEF NewAccessControl
    <3> HIDE DEF ac
    <3> QED BY <2>1, <3>1, EmptyMapped, Zenon
  <2>2. ac = <<>> => raw = <<>>
    BY <1>1, MappedEmpty, Zenon DEF RawRules
  <2> QED BY <2>1, <2>2, Zenon
<1>5. ASSUME NEW i \in DOMAIN raw
      PROVE  (ac[i].ports = <<>> \/ \E j \in DOMAIN ac[i].ports : InRange(ac[i].ports[j], port)) <=> Serves(i)
  BY <1>1, <1>2, PortsMean, Zenon
<1>6. ASSUME NEW i \in DOMAIN raw, NEW ip \in Resolve[h]
      PROVE  (ac[i].addrs = <<>> \/ \E j \in DOMAIN ac[i].addrs : InRange(ac[i].addrs[j], ip)) <=> ip \in Covered(i)
  <2> DEFINE addrs == raw[i].addrs
  <2>1. ip \in Addresses /\ addrs \in Seq(AddrSpec) /\ \A j \in DOMAIN addrs : AddrParses(addrs[j])
    BY <1>2, <1>3, Zenon DEF RulesParse
  <2>2. DOMAIN ac[i].addrs = DOMAIN addrs /\ \A j \in DOMAIN addrs : ac[i].addrs[j] = parseAddrSpec(addrs[j])
    BY <1>1, Zenon
  <2>3. CASE addrs = <<>>
    <3>1. ac[i].addrs = <<>>
      <4> DEFINE f == ac[i].addrs
      <4>1. f = [j \in DOMAIN f |-> f[j]] /\ DOMAIN f = DOMAIN addrs
        BY <1>1, Zenon
      <4> HIDE DEF f, addrs
      <4>2. f = <<>>
        BY <2>3, <4>1, EmptyMapped, Zenon
      <4> QED BY <4>2, Zenon DEF f
    <3> QED BY <3>1, <2>1, <2>3, Zenon
  <2>4. CASE addrs # <<>>
    <3>1. ac[i].addrs # <<>>
      BY <2>1, <2>2, <2>4, MappedEmpty, Zenon
    <3>2. (\E j \in DOMAIN addrs : InRange(parseAddrSpec(addrs[j]), ip)) <=> ip \in UNION {Named(s) : s \in Range(addrs)}
      BY <2>1, AddressesMean, Zenon
    <3>3. Covered(i) = UNION {Named(s) : s \in Range(addrs)}
      BY <2>4, Zenon
    <3> QED BY <3>1, <3>2, <3>3, <2>2, Zenon
  <2> QED BY <2>3, <2>4, Zenon
<1> DEFINE Ported(i) == ac[i].ports = <<>> \/ \E j \in DOMAIN ac[i].ports : InRange(ac[i].ports[j], port)
<1> DEFINE Addressed(i, ip) == ac[i].addrs = <<>> \/ \E j \in DOMAIN ac[i].addrs : InRange(ac[i].addrs[j], ip)
<1>7. Allow(ac, h, port) <=> ac = <<>> \/ \E i \in DOMAIN ac, ip \in Resolve[h] : Ported(i) /\ Addressed(i, ip)
  BY Zenon DEF Allow, Empty
<1>8. Permitted(raw, h, port) <=> raw = <<>> \/ \E i \in DOMAIN raw : Serves(i) /\ Resolve[h] \cap Covered(i) # {}
  BY Zenon DEF Permitted
<1>9. \A i \in DOMAIN raw : Ported(i) <=> Serves(i)
  BY <1>5, Zenon
<1>10. \A i \in DOMAIN raw, ip \in Resolve[h] : Addressed(i, ip) <=> ip \in Covered(i)
  BY <1>6, Zenon
<1> HIDE DEF ac, Ported, Addressed, Serves, Covered
<1>11. Allow(ac, h, port) <=> Permitted(raw, h, port)
  BY <1>1, <1>4, <1>7, <1>8, <1>9, <1>10, Zenon
<1> QED BY <1>11, Zenon DEF ac

\* What lists of rules mean, for every size of addresses and every range of
\* ports: the statement of AllowedMeansNamed for all lists (access.go).
THEOREM RulesMeanWhatTheyName == AllowMeans(RawRules)
<1> SUFFICES ASSUME NEW raw \in RawRules, RulesParse(raw), NEW h \in Hosts, NEW port \in 0..MaxPort
             PROVE  Allow(NewAccessControl(raw), h, port) <=> Permitted(raw, h, port)
  BY Zenon DEF AllowMeans
<1>0. MaxPort \in Nat
  BY AccessRulesAssumption, Zenon
<1>1. port \in Int
  BY <1>0
<1>2. h \in Hosts \cup {""}
  BY Zenon
<1> QED BY <1>1, <1>2, AllowIsPermitted, Zenon

-----------------------------------------------------------------------------
(* Checks.                                                                 *)

\* What a plan says of the request and of the rules.
LEMMA PlanFacts ==
  ASSUME plan \in Plans
  PROVE  /\ request.host \in Hosts \cup {""} /\ request.port \in Int /\ TargetPort(DefaultPort) \in Int
         /\ plan.server \in Sides
         /\ \A r \in {plan.token, plan.option, plan.dial, plan.forward, plan.later} : r.rules \in RawRules /\ RulesParse(r.rules)
<1>1. PlanOK(plan)
  BY ChannelSetupAssumption, Zenon
<1>2. plan.server \in Sides /\ plan.request \in Request
  BY <1>1, Zenon DEF PlanOK
<1>0. MaxPort \in Nat
  BY AccessRulesAssumption, Zenon
<1>3. request.host \in Hosts \cup {""} /\ request.port \in Int
  <2> DEFINE names == Hosts \cup {""}
             ports == -1..(MaxPort + 1)
  <2>1. ports \subseteq Int
    BY <1>0
  <2>2. request \in Request
    BY <1>2, Zenon DEF request
  <2> HIDE DEF names, ports
  <2>3. request.host \in names /\ request.port \in ports
    <3> HIDE DEF request
    <3> QED BY <2>2, Zenon DEF Request, names, ports
  <2> QED BY <2>1, <2>3, Zenon DEF names
<1>4. HTTPPort \in Int /\ HTTPSPort \in Int
  BY ChannelSetupAssumption
<1>5. TargetPort(DefaultPort) \in Int
  BY <1>3, <1>4, Zenon DEF TargetPort, DefaultPort
<1>6. \A r \in {plan.token, plan.option, plan.dial, plan.forward, plan.later} : r \in [set : BOOLEAN, rules : RawRules] /\ RulesParse(r.rules)
  BY <1>1, Zenon DEF PlanOK
<1>7. \A r \in {plan.token, plan.option, plan.dial, plan.forward, plan.later} : r.rules \in RawRules
  <2> SUFFICES ASSUME NEW r \in [set : BOOLEAN, rules : RawRules] PROVE r.rules \in RawRules
    BY <1>6, Zenon
  <2> QED BY Zenon
<1> QED BY <1>2, <1>3, <1>5, <1>6, <1>7, Zenon

\* A list that is checked and lets a destination pass permits it.
LEMMA CheckedRule ==
  ASSUME plan \in Plans, NEW ac \in {NoRules, plan.token, plan.option, plan.dial, plan.forward, plan.later},
         NEW h \in Hosts \cup {""}, NEW port \in Int, checkRule(ac, h, port)
  PROVE  Permitted(ac.rules, h, port)
<1>1. CASE ac = NoRules
  BY <1>1, Zenon DEF NoRules, Permitted
<1>2. CASE ac # NoRules
  <2>1. ac.rules \in RawRules /\ RulesParse(ac.rules)
    BY <1>2, PlanFacts, Zenon
  <2> QED BY <2>1, AllowIsPermitted, Zenon DEF checkRule
<1> QED BY <1>1, <1>2, Zenon

\* A rule alone.
LEMMA OnlyOne ==
  ASSUME NEW x PROVE \A i \in DOMAIN <<x>> : <<x>>[i] = x
OBVIOUS

\* The first of three that is set.
LEMMA FirstOfThree ==
  ASSUME NEW x, NEW y, NEW z, NEW h, NEW port,
         x.set => Permitted(x.rules, h, port),
         ~x.set /\ y.set => Permitted(y.rules, h, port),
         ~x.set /\ ~y.set => Permitted(z.rules, h, port)
  PROVE  \A i \in DOMAIN <<x, y, z>> :
           <<x, y, z>>[i].set /\ (\A j \in 1..(i - 1) : ~<<x, y, z>>[j].set) => Permitted(<<x, y, z>>[i].rules, h, port)
<1> DEFINE t == <<x, y, z>>
<1>1. DOMAIN t = 1..3 /\ t[1] = x /\ t[2] = y /\ t[3] = z
  OBVIOUS
<1> HIDE DEF t
<1> SUFFICES ASSUME NEW i \in 1..3, t[i].set, \A j \in 1..(i - 1) : ~t[j].set
             PROVE  Permitted(t[i].rules, h, port)
  BY <1>1, Zenon DEF t
<1>2. CASE i = 1
  BY <1>1, <1>2, Zenon
<1>3. CASE i = 2
  <2>1. ~t[1].set
    BY <1>3
  <2> QED BY <1>1, <1>3, <2>1, Zenon
<1>4. CASE i = 3
  <2>1. ~t[1].set /\ ~t[2].set
    BY <1>4
  <2> QED BY <1>1, <1>4, <2>1, Zenon
<1> QED BY <1>2, <1>3, <1>4

\* The entry checks the rule in force: that of the token, of the API or of the
\* options (checkEntryAccess).
LEMMA EntryChecked ==
  ASSUME plan \in Plans, runtime \in {NoRules, plan.later}, NEW h \in Hosts \cup {""}, NEW port \in Int, checkEntryAccess(h, port)
  PROVE  Permits("entry", h, port)
<1> DEFINE ac == EntryAccessControl
<1>1. ac \in {NoRules, plan.token, plan.option, plan.dial, plan.forward, plan.later}
  BY Zenon DEF EntryAccessControl
<1>2. Permitted(ac.rules, h, port)
  BY <1>1, CheckedRule, Zenon DEF checkEntryAccess
<1>3. CASE plan.server = "entry"
  <2>1. Ranked("entry") = <<plan.token, runtime, plan.option>>
    BY <1>3, Zenon DEF Ranked
  <2>2. /\ plan.token.set => Permitted(plan.token.rules, h, port)
        /\ ~plan.token.set /\ runtime.set => Permitted(runtime.rules, h, port)
        /\ ~plan.token.set /\ ~runtime.set => Permitted(plan.option.rules, h, port)
    <3>1. CASE plan.token.set
      <4>1. ac = plan.token
        BY <1>3, <3>1, Zenon DEF EntryAccessControl
      <4> QED BY <1>2, <3>1, <4>1, Zenon
    <3>2. CASE ~plan.token.set /\ runtime.set
      <4>1. ac = runtime
        BY <1>3, <3>2, Zenon DEF EntryAccessControl
      <4> QED BY <1>2, <3>2, <4>1, Zenon
    <3>3. CASE ~plan.token.set /\ ~runtime.set
      <4>1. ac = plan.option
        BY <1>3, <3>3, Zenon DEF EntryAccessControl
      <4> QED BY <1>2, <3>3, <4>1, Zenon
    <3> QED BY <3>1, <3>2, <3>3, Zenon
  <2> DEFINE t == <<plan.token, runtime, plan.option>>
  <2>3. \A i \in DOMAIN t : t[i].set /\ (\A j \in 1..(i - 1) : ~t[j].set) => Permitted(t[i].rules, h, port)
    BY <2>2, FirstOfThree, Zenon
  <2> HIDE DEF t
  <2>4. Ranked("entry") = t
    BY <2>1, Zenon DEF t
  <2> QED BY <2>3, <2>4, Zenon DEF Permits
<1>4. CASE plan.server # "entry"
  <2>1. Ranked("entry") = <<plan.option>> /\ ac = plan.option
    BY <1>4, Zenon DEF Ranked, EntryAccessControl
  <2>2. Permitted(plan.option.rules, h, port)
    BY <1>2, <2>1, Zenon
  <2> QED BY <2>1, <2>2, OnlyOne, Zenon DEF Permits
<1> QED BY <1>3, <1>4, Zenon

\* The dialer checks the rule of the API at the server, else that of the options
\* (checkDialAccess).
LEMMA DialChecked ==
  ASSUME plan \in Plans, runtime \in {NoRules, plan.later}, NEW h \in Hosts \cup {""}, NEW port \in Int, checkDialAccess(h, port)
  PROVE  Permits("dialer", h, port)
<1> DEFINE ac == DialAccessControl
<1>1. ac \in {NoRules, plan.token, plan.option, plan.dial, plan.forward, plan.later}
  BY Zenon DEF DialAccessControl
<1>2. Permitted(ac.rules, h, port)
  BY <1>1, CheckedRule, Zenon DEF checkDialAccess
<1>3. CASE plan.server = "dialer"
  <2> DEFINE t == <<NoRules, runtime, plan.dial>>
  <2>1. Ranked("dialer") = t
    BY <1>3, Zenon DEF Ranked
  <2>2. ~NoRules.set
    BY Zenon DEF NoRules
  <2>3. runtime.set => Permitted(runtime.rules, h, port)
    BY <1>2, <1>3, Zenon DEF DialAccessControl
  <2>4. ~runtime.set => Permitted(plan.dial.rules, h, port)
    BY <1>2, <1>3, Zenon DEF DialAccessControl
  <2>5. \A i \in DOMAIN t : t[i].set /\ (\A j \in 1..(i - 1) : ~t[j].set) => Permitted(t[i].rules, h, port)
    BY <2>2, <2>3, <2>4, FirstOfThree, Zenon
  <2> HIDE DEF t
  <2> QED BY <2>1, <2>5, Zenon DEF Permits
<1>4. CASE plan.server # "dialer"
  <2>1. Ranked("dialer") = <<plan.dial>> /\ ac = plan.dial
    BY <1>4, Zenon DEF Ranked, DialAccessControl
  <2>2. Permitted(plan.dial.rules, h, port)
    BY <1>2, <2>1, Zenon
  <2> QED BY <2>1, <2>2, OnlyOne, Zenon DEF Permits
<1> QED BY <1>3, <1>4, Zenon

\* A request that a front end lets go on has the credentials asked for.
LEMMA Authenticated ==
  ASSUME plan.auth, HandleLocalProxyRequest = "go"
  PROVE  request.cred = "right"
<1>1. CASE request.proto = "socks"
  <2>1. HandleSocksHandshake = "go"
    BY <1>1, Zenon DEF HandleLocalProxyRequest
  <2>2. CASE ~SocksAuthenticates
    BY <2>1, <2>2, Zenon DEF HandleSocksHandshake
  <2>3. CASE SocksAuthenticates
    BY <2>3, Zenon DEF SocksAuthenticates
  <2> QED BY <2>2, <2>3, Zenon
<1>2. CASE request.proto = "http"
  <2>1. HandleHTTPProxyRequest = "go"
    BY <1>2, Zenon DEF HandleLocalProxyRequest
  <2>2. CASE ~authenticateHTTPProxy
    BY <2>1, <2>2, Zenon DEF HandleHTTPProxyRequest
  <2>3. CASE authenticateHTTPProxy
    BY <2>3, Zenon DEF authenticateHTTPProxy
  <2> QED BY <2>2, <2>3, Zenon
<1>3. CASE request.proto \notin {"socks", "http"}
  BY <1>3, Zenon DEF HandleLocalProxyRequest
<1> QED BY <1>1, <1>2, <1>3, Zenon

-----------------------------------------------------------------------------
(* The invariant: the checks have said what the rules mean, a handler of the *)
(* dialer runs for a destination of the forward token, and every message on  *)
(* its way to the target was allowed when it was sent.                       *)

Ok == [type : {"connect", "data", "disconnect"}, n : Nat, ok : {TRUE}]
Clean(r) == {"inbox", "orphans"} \subseteq DOMAIN r /\ r.inbox \in Seq(Ok) /\ r.orphans \in Seq(Ok)

ForwardAllows == ~udp /\ plan.server = "dialer" => Permitted(plan.forward.rules, request.host, TargetPort(DefaultPort))

CheckInv ==
  /\ plan \in Plans /\ runtime \in {NoRules, plan.later}
  /\ granted
  /\ serving # "none" => ForwardAllows
  /\ target # "none" => serving # "none"
NetInv == DOMAIN net = Sides /\ net.dialer \in [Links -> Seq(Ok)]
TableInv == DOMAIN relay = Sides /\ Clean(relay.dialer)
GotInv == DOMAIN got = Sides /\ got.dialer \in Seq(Ok)
CountInv == DOMAIN count = Sides /\ count.entry \in Nat
AllowedInv == CheckInv /\ NetInv /\ TableInv /\ GotInv /\ CountInv

\* The two sides.
LEMMA OtherSide == Other("entry") = "dialer" /\ Other("dialer") = "entry"
BY Zenon DEF Other, Sides

\* One more message on a link.
LEMMA AppendOn ==
  ASSUME NEW f \in [Links -> Seq(Ok)], NEW l, NEW m \in Ok
  PROVE  [f EXCEPT ![l] = Append(@, m)] \in [Links -> Seq(Ok)]
<1>1. \A x \in Seq(Ok) : Append(x, m) \in Seq(Ok)
  OBVIOUS
<1> QED BY <1>1, Zenon

\* What is sent leaves the messages to the dialer allowed.
LEMMA SendKeeps ==
  ASSUME NetInv, NEW s \in Sides, NEW m, s = "entry" => m \in Ok, Send(s, m)
  PROVE  NetInv'
<1>1. PICK l \in Writable(s) : net' = [net EXCEPT ![Other(s)][l] = Append(@, m)]
  BY Zenon DEF Send
<1>2. CASE s = "entry"
  <2>1. net' = [net EXCEPT !["dialer"] = [net["dialer"] EXCEPT ![l] = Append(@, m)]]
    BY <1>1, <1>2, OtherSide, Zenon DEF NetInv, Sides
  <2>2. [net["dialer"] EXCEPT ![l] = Append(@, m)] \in [Links -> Seq(Ok)]
    BY <1>2, AppendOn, Zenon DEF NetInv
  <2> QED BY <2>1, <2>2, Zenon DEF NetInv, Sides
<1>3. CASE s = "dialer"
  BY <1>1, <1>3, OtherSide, Zenon DEF NetInv, Sides
<1> QED BY <1>2, <1>3, Zenon DEF Sides

\* The same of a write whose error is not looked at.
LEMMA SendOrLoseKeeps ==
  ASSUME NetInv, NEW s \in Sides, NEW m, s = "entry" => m \in Ok, SendOrLose(s, m)
  PROVE  NetInv'
BY SendKeeps, Zenon DEF SendOrLose, NetInv

\* The messages of the entry.
LEMMA EntryMessages ==
  /\ Connect \in Ok /\ Disconnect \in Ok
  /\ \A n \in Nat : Data(n, TRUE) \in Ok
BY Zenon DEF Connect, Disconnect, Data, Ok

\* Tables of the entry do not touch those of the dialer.
LEMMA EntryTables ==
  ASSUME TableInv, NEW r, relay' = [relay EXCEPT !.entry = r]
  PROVE  TableInv'
BY Zenon DEF TableInv, Sides

\* A step of the entry's handler leaves the invariant to its checks.
LEMMA EntryChecks ==
  ASSUME CheckInv, UNCHANGED <<plan, serving, target, runtime>>, granted'
  PROVE  CheckInv'
BY Zenon DEF CheckInv, ForwardAllows, udp, request, TargetPort, DefaultPort

\* The initial states.
LEMMA AllowedInit == Init => AllowedInv
<1> SUFFICES ASSUME Init PROVE AllowedInv
  BY Zenon
<1>1. CheckInv
  BY Zenon DEF Init, CheckInv
<1>2. NetInv
  BY DEF Init, NetInv, Sides
<1>3. TableInv
  <2>1. <<>> \in Seq(Ok)
    OBVIOUS
  <2>2. DOMAIN relay = Sides /\ relay.dialer = NewTables
    BY Zenon DEF Init, Sides
  <2>3. {"inbox", "orphans"} \subseteq DOMAIN NewTables /\ NewTables.inbox = <<>> /\ NewTables.orphans = <<>>
    BY Zenon DEF NewTables
  <2> QED BY <2>1, <2>2, <2>3, Zenon DEF TableInv, Clean
<1>4. GotInv /\ CountInv
  BY DEF Init, GotInv, CountInv, Sides
<1> QED BY <1>1, <1>2, <1>3, <1>4, Zenon DEF AllowedInv

\* The tables of the dialer that a step leaves alone.
LEMMA SameDialer ==
  ASSUME TableInv, DOMAIN relay' = Sides, relay'["dialer"] = relay["dialer"]
  PROVE  TableInv'
BY Zenon DEF TableInv

\* The entry's handler: the request is checked before the channel is opened.
LEMMA OpenKeeps ==
  ASSUME AllowedInv, NEW l \in Links, OpenChannel(l)
  PROVE  AllowedInv'
<1> DEFINE port == TargetPort(DefaultPort)
<1>0. CheckInv /\ NetInv /\ TableInv /\ GotInv /\ CountInv
  BY Zenon DEF AllowedInv
<1>1. NetInv' /\ GotInv' /\ CountInv'
  BY <1>0, Zenon DEF OpenChannel, NetInv, GotInv, CountInv
<1>2. TableInv'
  <2>1. DOMAIN relay = Sides
    BY <1>0, Zenon DEF TableInv
  <2>2. CASE relay' = relay
    BY <1>0, <2>1, <2>2, SameDialer, Zenon
  <2>3. CASE \E r : relay' = [relay EXCEPT !.entry = r]
    BY <1>0, <2>3, EntryTables, Zenon
  <2>4. (\E r : relay' = [relay EXCEPT !.entry = r]) \/ relay' = relay
    BY Zenon DEF OpenChannel, Leave
  <2> QED BY <2>2, <2>3, <2>4, Zenon
<1>3. CheckInv'
  <2>1. plan \in Plans /\ runtime \in {NoRules, plan.later} /\ granted
    BY <1>0, Zenon DEF CheckInv
  <2>2. request.host \in Hosts \cup {""} /\ port \in Int
    BY <2>1, PlanFacts, Zenon
  <2>3. plan.auth => request.cred = "right"
    BY Authenticated, Zenon DEF OpenChannel
  <2>4. CASE udp \/ checkEntryAccess(request.host, port)
    <3>1. udp \/ Permits("entry", request.host, port)
      BY <2>1, <2>2, <2>4, EntryChecked, Zenon
    <3>2. granted'
      BY <2>3, <2>4, <3>1, Zenon DEF OpenChannel
    <3>3. UNCHANGED <<plan, serving, target, runtime>>
      BY Zenon DEF OpenChannel, remote
    <3> QED BY <1>0, <3>2, <3>3, EntryChecks, Zenon
  <2>5. CASE ~(udp \/ checkEntryAccess(request.host, port))
    <3>1. granted' = granted
      BY <2>5, Zenon DEF OpenChannel
    <3>2. UNCHANGED <<plan, serving, target, runtime>>
      BY Zenon DEF OpenChannel, remote
    <3> QED BY <1>0, <2>1, <3>1, <3>2, EntryChecks, Zenon
  <2> QED BY <2>4, <2>5, Zenon
<1> QED BY <1>1, <1>2, <1>3, Zenon DEF AllowedInv

\* The entry's handler: everything it sends to the dialer is allowed.
LEMMA EntryKeeps ==
  ASSUME AllowedInv, Entry
  PROVE  AllowedInv'
<1>0. /\ CheckInv /\ NetInv /\ TableInv /\ GotInv /\ CountInv
      /\ granted /\ DOMAIN relay = Sides
  BY Zenon DEF AllowedInv, CheckInv, TableInv
<1> DEFINE Keeps == /\ UNCHANGED <<plan, serving, target, runtime, granted, count>>
                    /\ DOMAIN relay' = Sides /\ relay'["dialer"] = relay["dialer"]
<1>1. ASSUME Keeps, NetInv', GotInv' PROVE AllowedInv'
  <2>1. CheckInv'
    BY <1>0, <1>1, EntryChecks, Zenon
  <2>2. TableInv'
    BY <1>0, <1>1, SameDialer, Zenon
  <2>3. CountInv'
    BY <1>0, <1>1, Zenon DEF CountInv
  <2> QED BY <1>1, <2>1, <2>2, <2>3, Zenon DEF AllowedInv
<1>2. ASSUME UNCHANGED net PROVE NetInv'
  BY <1>0, <1>2, Zenon DEF NetInv
<1>3. ASSUME UNCHANGED got PROVE GotInv'
  BY <1>0, <1>3, Zenon DEF GotInv
<1>4. CASE Refuse
  BY <1>0, <1>1, <1>2, <1>3, <1>4, Zenon DEF Refuse, remote, history
<1>5. CASE \E l \in Links : OpenChannel(l)
  BY <1>5, OpenKeeps, Zenon
<1>6. CASE OpenTransportFails
  BY <1>0, <1>1, <1>2, <1>3, <1>6, Zenon DEF OpenTransportFails, Leave, remote, history, Sides
<1>7. CASE WriteConnect
  <2>1. Keeps /\ UNCHANGED got
    BY <1>0, <1>7, Zenon DEF WriteConnect, Leave, remote, history, Sides
  <2>2. NetInv'
    BY <1>0, <1>2, <1>7, SendKeeps, EntryMessages, Zenon DEF WriteConnect, Sides
  <2> QED BY <1>1, <1>3, <2>1, <2>2, Zenon
<1>8. CASE AwaitResponse
  BY <1>0, <1>1, <1>2, <1>3, <1>8, Zenon DEF AwaitResponse, Leave, remote, history, Sides
<1>9. CASE AwaitTimeout
  BY <1>0, <1>1, <1>2, <1>3, <1>9, Zenon DEF AwaitTimeout, Leave, remote, history, Sides
<1>10. CASE Reply
  BY <1>0, <1>1, <1>2, <1>3, <1>10, Zenon DEF Reply, Leave, remote, history, Sides
<1>11. CASE WriteLocal
  <2>1. Keeps /\ UNCHANGED net
    BY <1>0, <1>11, Zenon DEF WriteLocal, remote, Sides
  <2>2. GotInv'
    BY <1>0, <1>11, Zenon DEF WriteLocal, GotInv, Sides
  <2> QED BY <1>1, <1>2, <2>1, <2>2, Zenon
<1>12. CASE MonitorLocal
  BY <1>0, <1>1, <1>2, <1>3, <1>12, Zenon DEF MonitorLocal, remote, history, Sides
<1>13. CASE EndForward
  <2>1. Keeps /\ UNCHANGED got
    BY <1>0, <1>13, Zenon DEF EndForward, remote, history, Sides
  <2>2. NetInv'
    BY <1>0, <1>13, SendOrLoseKeeps, EntryMessages, Zenon DEF EndForward, Sides
  <2> QED BY <1>1, <1>3, <2>1, <2>2, Zenon
<1>14. CASE FastOpenTimeout
  BY <1>0, <1>1, <1>2, <1>3, <1>14, Zenon DEF FastOpenTimeout, remote, history, Sides
<1> QED BY <1>4, <1>5, <1>6, <1>7, <1>8, <1>9, <1>10, <1>11, <1>12, <1>13, <1>14, Zenon DEF Entry

\* A handler of the dialer that goes on keeps the destination it was given.
LEMMA DialerChecks ==
  ASSUME CheckInv, UNCHANGED <<plan, runtime>>, granted',
         serving # "none", serving' # "none"
  PROVE  CheckInv'
BY Zenon DEF CheckInv, ForwardAllows, udp, request, TargetPort, DefaultPort

\* The dialer's handler: the destination is checked before it is dialled.
LEMMA DialerKeeps ==
  ASSUME AllowedInv, Dialer \/ WriteRemote \/ EndRemote
  PROVE  AllowedInv'
<1>0. /\ CheckInv /\ NetInv /\ TableInv /\ GotInv /\ CountInv
      /\ granted /\ DOMAIN relay = Sides /\ Clean(relay.dialer)
  BY Zenon DEF AllowedInv, CheckInv, TableInv
<1>1. ASSUME UNCHANGED net PROVE NetInv'
  BY <1>0, <1>1, Zenon DEF NetInv
<1>2. ASSUME UNCHANGED got PROVE GotInv'
  BY <1>0, <1>2, Zenon DEF GotInv
<1>3. ASSUME UNCHANGED count PROVE CountInv'
  BY <1>0, <1>3, Zenon DEF CountInv
<1>4. ASSUME UNCHANGED relay PROVE TableInv'
  BY <1>0, <1>4, Zenon DEF TableInv
<1>5. CASE StartDial
  <2>1. NetInv' /\ GotInv' /\ CountInv'
    BY <1>1, <1>2, <1>3, <1>5, Zenon DEF StartDial
  <2>2. TableInv'
    BY <1>0, <1>5, Zenon DEF StartDial, TableInv, Clean, Sides
  <2>3. CheckInv'
    <3> DEFINE port == TargetPort(DefaultPort)
    <3>1. plan \in Plans /\ runtime \in {NoRules, plan.later}
      BY <1>0, Zenon DEF CheckInv
    <3>2. request.host \in Hosts \cup {""} /\ port \in Int
      BY <3>1, PlanFacts, Zenon
    <3>3. serving' = "dialing" => udp \/ checkDialAccess(request.host, port)
      BY <1>5, Zenon DEF StartDial
    <3>4. serving' = "dialing" => udp \/ Permits("dialer", request.host, port)
      BY <3>1, <3>2, <3>3, DialChecked, Zenon
    <3>5. granted'
      BY <1>0, <1>5, <3>4, Zenon DEF StartDial
    <3>6. serving # "none" /\ serving' # "none" /\ UNCHANGED <<plan, runtime>>
      BY <1>5, Zenon DEF StartDial
    <3> QED BY <1>0, <3>5, <3>6, DialerChecks, Zenon
  <2> QED BY <2>1, <2>2, <2>3, Zenon DEF AllowedInv
<1>6. CASE RefuseDial
  <2>1. NetInv'
    BY <1>0, <1>6, SendOrLoseKeeps, Zenon DEF RefuseDial, Sides
  <2>2. CheckInv'
    BY <1>0, <1>6, DialerChecks, Zenon DEF RefuseDial, history
  <2> QED BY <1>2, <1>3, <1>4, <1>6, <2>1, <2>2, Zenon DEF RefuseDial, history, AllowedInv
<1>7. CASE DialFails
  <2>1. CheckInv'
    BY <1>0, <1>7, DialerChecks, Zenon DEF DialFails, history
  <2> QED BY <1>1, <1>2, <1>3, <1>4, <1>7, <2>1, Zenon DEF DialFails, history, AllowedInv
<1>8. CASE DialSucceeds
  <2>1. CheckInv'
    BY <1>0, <1>8, DialerChecks, Zenon DEF DialSucceeds, history
  <2>2. CountInv'
    BY <1>0, <1>8, Zenon DEF DialSucceeds, CountInv, Sides
  <2>3. TableInv'
    BY <1>0, <1>8, Zenon DEF DialSucceeds, TableInv, Clean, Sides
  <2> QED BY <1>1, <1>2, <1>8, <2>1, <2>2, <2>3, Zenon DEF DialSucceeds, history, AllowedInv
<1>9. CASE Respond
  <2>1. CheckInv'
    BY <1>0, <1>9, DialerChecks, Zenon DEF Respond, history
  <2>2. NetInv'
    BY <1>0, <1>1, <1>9, SendKeeps, Zenon DEF Respond, Sides
  <2>3. TableInv'
    <3>1. CASE CanSend("dialer")
      <4> DEFINE kept == IF relay.dialer.queue THEN relay.dialer.inbox ELSE <<>>
      <4>1. kept \in Seq(Ok)
        BY <1>0 DEF Clean
      <4>2. relay' = [relay EXCEPT !.dialer.active = TRUE, !.dialer.queue = TRUE, !.dialer.logical = TRUE, !.dialer.inbox = kept]
        BY <1>9, <3>1, Zenon DEF Respond
      <4> HIDE DEF kept
      <4> QED BY <1>0, <4>1, <4>2, Zenon DEF TableInv, Clean, Sides
    <3>2. CASE ~CanSend("dialer")
      <4>1. relay' = [relay EXCEPT !.dialer.cancel = FALSE, !.dialer.active = FALSE]
        BY <1>9, <3>2, Zenon DEF Respond
      <4> QED BY <1>0, <4>1, Zenon DEF TableInv, Clean, Sides
    <3> QED BY <3>1, <3>2, Zenon
  <2> QED BY <1>2, <1>3, <1>9, <2>1, <2>2, <2>3, Zenon DEF Respond, history, AllowedInv
<1>10. CASE WriteRemote
  <2>1. CheckInv'
    BY <1>0, <1>10, EntryChecks, Zenon DEF WriteRemote, remote
  <2>2. TableInv'
    <3>1. DOMAIN relay' = Sides /\ DOMAIN relay'.dialer = DOMAIN relay.dialer
      BY <1>0, <1>10, Zenon DEF WriteRemote, Sides
    <3>2. relay'.dialer.orphans = relay.dialer.orphans /\ relay'.dialer.inbox = Tail(relay.dialer.inbox)
      BY <1>0, <1>10, Zenon DEF WriteRemote, Clean, Sides
    <3>3. Tail(relay.dialer.inbox) \in Seq(Ok)
      BY <1>0, <1>10 DEF WriteRemote, Clean
    <3> QED BY <1>0, <3>1, <3>2, <3>3, Zenon DEF TableInv, Clean
  <2>3. Head(relay.dialer.inbox) \in Ok
    BY <1>0, <1>10 DEF WriteRemote, Clean
  <2>4. got' = [got EXCEPT !.dialer = Append(@, Head(relay.dialer.inbox))] \/ got' = got
    BY <1>10, Zenon DEF WriteRemote
  <2>5. GotInv'
    BY <1>0, <2>3, <2>4 DEF GotInv, Sides
  <2> QED BY <1>1, <1>3, <1>10, <2>1, <2>2, <2>5, Zenon DEF WriteRemote, AllowedInv
<1>11. CASE EndRemote
  <2>1. CheckInv'
    BY <1>0, <1>11, DialerChecks, Zenon DEF EndRemote, history
  <2>2. NetInv'
    BY <1>0, <1>1, <1>11, SendOrLoseKeeps, Zenon DEF EndRemote, Sides
  <2>3. TableInv'
    BY <1>0, <1>11, Zenon DEF EndRemote, Requeued, TableInv, Clean, Sides
  <2> QED BY <1>2, <1>3, <1>11, <2>1, <2>2, <2>3, Zenon DEF EndRemote, history, AllowedInv
<1> QED BY <1>5, <1>6, <1>7, <1>8, <1>9, <1>10, <1>11, Zenon DEF Dialer

\* What arrives at the entry concerns the entry.
LEMMA EntryTakesKeeps ==
  ASSUME AllowedInv, HandleResponse \/ (\E l \in Links : EntryTakes(l))
  PROVE  AllowedInv'
<1>0. /\ CheckInv /\ NetInv /\ TableInv /\ GotInv /\ CountInv
      /\ granted /\ DOMAIN relay = Sides
  BY Zenon DEF AllowedInv, CheckInv, TableInv
<1>1. CASE HandleResponse
  <2>1. UNCHANGED <<plan, serving, target, runtime, granted, count, net, got>>
    BY <1>1, Zenon DEF HandleResponse, remote
  <2>2. relay' = relay \/ \E r : relay' = [relay EXCEPT !.entry = r]
    BY <1>1, Zenon DEF HandleResponse
  <2>3. TableInv'
    BY <1>0, <2>2, SameDialer, EntryTables, Zenon
  <2>4. CheckInv'
    BY <1>0, <2>1, EntryChecks, Zenon
  <2> QED BY <1>0, <2>1, <2>3, <2>4, Zenon DEF AllowedInv, NetInv, GotInv, CountInv
<1>2. ASSUME NEW l \in Links, EntryTakes(l) PROVE AllowedInv'
  <2>1. UNCHANGED <<plan, serving, target, runtime, granted, count, got>>
    BY <1>2, Zenon DEF EntryTakes, remote
  <2>2. relay' = relay \/ \E r : relay' = [relay EXCEPT !.entry = r]
    BY <1>2, Zenon DEF EntryTakes, TakeResponse, DeliverToQueue
  <2>3. TableInv'
    BY <1>0, <2>2, SameDialer, EntryTables, Zenon
  <2>4. CheckInv'
    BY <1>0, <2>1, EntryChecks, Zenon
  <2>5. NetInv'
    BY <1>0, <1>2, Zenon DEF EntryTakes, NetInv, Sides
  <2> QED BY <1>0, <2>1, <2>3, <2>4, <2>5, Zenon DEF AllowedInv, GotInv, CountInv
<1> QED BY <1>1, <1>2, Zenon

\* One message less on a link.
LEMMA TailOn ==
  ASSUME NEW f \in [Links -> Seq(Ok)], NEW l \in Links, f[l] # <<>>
  PROVE  Head(f[l]) \in Ok /\ [f EXCEPT ![l] = Tail(@)] \in [Links -> Seq(Ok)]
<1>1. f[l] \in Seq(Ok)
  BY Zenon
<1>2. Head(f[l]) \in Ok /\ Tail(f[l]) \in Seq(Ok)
  BY <1>1
<1> QED BY <1>2, Zenon

\* The forward token's rule is checked before a handler starts.
LEMMA ForwardChecked ==
  ASSUME plan \in Plans, checkForwardAccess
  PROVE  ForwardAllows
<1> DEFINE port == TargetPort(DefaultPort)
<1>1. request.host \in Hosts \cup {""} /\ port \in Int
  BY PlanFacts, Zenon
<1> SUFFICES ASSUME ~udp, plan.server = "dialer" PROVE Permitted(plan.forward.rules, request.host, port)
  BY Zenon DEF ForwardAllows
<1>2. checkRule(plan.forward, request.host, port)
  BY Zenon DEF checkForwardAccess
<1>3. plan.forward \in {NoRules, plan.token, plan.option, plan.dial, plan.forward, plan.later}
  BY Zenon
<1> QED BY <1>1, <1>2, <1>3, CheckedRule, Zenon

\* Data for the dialer goes to its queue, to the orphans or nowhere.
LEMMA DeliveredClean ==
  ASSUME TableInv, NEW m \in Ok
  PROVE  Clean(Delivered("dialer", m))
<1> DEFINE r == relay["dialer"]
<1>0. Clean(r)
  BY Zenon DEF TableInv
<1>1. Append(r.inbox, m) \in Seq(Ok) /\ Append(r.orphans, m) \in Seq(Ok)
  BY <1>0 DEF Clean
<1>2. Clean(Enqueued("dialer", m))
  BY <1>0, <1>1, Zenon DEF Enqueued, Clean
<1>3. Clean(Buffered("dialer", m))
  BY <1>0, <1>1, Zenon DEF Buffered, Clean
<1>4. Delivered("dialer", m) \in {r, Enqueued("dialer", m), Buffered("dialer", m)}
  BY Zenon DEF Delivered
<1> QED BY <1>0, <1>2, <1>3, <1>4, Zenon

\* A request takes the orphans for its queue.
LEMMA AcceptedClean ==
  ASSUME TableInv, NEW l
  PROVE  Clean(Accepted(l))
<1> DEFINE r == relay["dialer"]
           inbox == IF r.queue THEN r.inbox ELSE IF plan.server = "dialer" THEN <<>> ELSE r.orphans
           orphans == IF plan.server = "dialer" THEN r.orphans ELSE <<>>
<1>0. Clean(r)
  BY Zenon DEF TableInv
<1>1. inbox \in Seq(Ok) /\ orphans \in Seq(Ok)
  BY <1>0 DEF Clean
<1>2. DOMAIN Accepted(l) = DOMAIN r
  BY Zenon DEF Accepted
<1>3. Accepted(l).inbox = inbox
  BY <1>0, Zenon DEF Accepted, Clean
<1>4. Accepted(l).orphans = orphans
  BY <1>0, Zenon DEF Accepted, Clean
<1> HIDE DEF inbox, orphans, r
<1> QED BY <1>0, <1>1, <1>2, <1>3, <1>4, Zenon DEF Clean

\* What arrives at the dialer was allowed when it was sent.
LEMMA DialerTakesKeeps ==
  ASSUME AllowedInv, NEW l \in Links, DialerTakes(l)
  PROVE  AllowedInv'
<1> DEFINE m == Head(net["dialer"][l])
           rest == [net["dialer"] EXCEPT ![l] = Tail(@)]
           r == relay["dialer"]
<1>0. /\ CheckInv /\ NetInv /\ TableInv /\ GotInv /\ CountInv
      /\ granted /\ plan \in Plans /\ DOMAIN relay = Sides /\ Clean(r) /\ DOMAIN net = Sides
  BY Zenon DEF AllowedInv, CheckInv, TableInv, NetInv
<1>1. m \in Ok /\ rest \in [Links -> Seq(Ok)]
  BY <1>0, TailOn, Zenon DEF NetInv, DialerTakes
<1>2. UNCHANGED <<plan, runtime, granted, target, got, count>>
  BY Zenon DEF DialerTakes, history
<1>3. GotInv' /\ CountInv'
  BY <1>0, <1>2, Zenon DEF GotInv, CountInv
<1>4. ASSUME DOMAIN net' = Sides, net'["dialer"] = rest PROVE NetInv'
  BY <1>1, <1>4, Zenon DEF NetInv
<1>5. ASSUME DOMAIN relay' = Sides, Clean(relay'["dialer"]) PROVE TableInv'
  BY <1>5, Zenon DEF TableInv
<1>6. CASE TakeConnect(l) /\ checkForwardAccess
  <2>1. NetInv'
    BY <1>0, <1>4, <1>6, Zenon DEF TakeConnect, Sides
  <2>2. TableInv'
    <3>1. relay' = [relay EXCEPT !["dialer"] = Accepted(l)]
      BY <1>6, Zenon DEF TakeConnect
    <3> QED BY <1>0, <1>5, <3>1, AcceptedClean, Zenon DEF Sides
  <2>3. CheckInv'
    <3>1. ForwardAllows
      BY <1>0, <1>6, ForwardChecked, Zenon
    <3>2. serving' = "start"
      BY <1>6, Zenon DEF TakeConnect
    <3> QED BY <1>0, <1>2, <3>1, <3>2, Zenon DEF CheckInv, ForwardAllows, udp, request, TargetPort, DefaultPort
  <2> QED BY <1>3, <2>1, <2>2, <2>3, Zenon DEF AllowedInv
<1>7. CASE TakeConnect(l) /\ ~checkForwardAccess
  <2>1. NetInv'
    BY <1>0, <1>4, <1>7, Zenon DEF TakeConnect, Sides
  <2>2. UNCHANGED <<relay, serving>>
    BY <1>7, Zenon DEF TakeConnect
  <2>3. TableInv'
    BY <1>0, <2>2, Zenon DEF TableInv
  <2>4. CheckInv'
    BY <1>0, <1>2, <2>2, EntryChecks, Zenon
  <2> QED BY <1>3, <2>1, <2>3, <2>4, Zenon DEF AllowedInv
<1>8. CASE /\ net' = [net EXCEPT !.dialer[l] = Tail(@)] /\ UNCHANGED serving
           /\ relay' = [relay EXCEPT !.dialer = IF m.type = "data" THEN Delivered("dialer", m)
                          ELSE [Requeued(relay.dialer, 1) EXCEPT !.closed = @ \/ (plan.v2 /\ plan.server # "dialer")]]
  <2>1. NetInv'
    BY <1>0, <1>4, <1>8, Zenon DEF Sides
  <2>2. TableInv'
    <3>1. CASE m.type = "data"
      <4>1. relay' = [relay EXCEPT !["dialer"] = Delivered("dialer", m)]
        BY <1>8, <3>1, Zenon
      <4> QED BY <1>0, <1>1, <1>5, <4>1, DeliveredClean, Zenon DEF Sides
    <3>2. CASE m.type # "data"
      <4>1. DOMAIN relay' = Sides /\ DOMAIN relay'["dialer"] = DOMAIN r
        BY <1>0, <1>8, <3>2, Zenon DEF Requeued, Sides
      <4>2. relay'["dialer"].inbox = r.inbox /\ relay'["dialer"].orphans = r.orphans
        BY <1>0, <1>8, <3>2, Zenon DEF Requeued, Clean, Sides
      <4> QED BY <1>0, <1>5, <4>1, <4>2, Zenon DEF Clean
    <3> QED BY <3>1, <3>2, Zenon
  <2>3. CheckInv'
    BY <1>0, <1>2, <1>8, EntryChecks, Zenon
  <2> QED BY <1>3, <2>1, <2>2, <2>3, Zenon DEF AllowedInv
<1> QED BY <1>6, <1>7, <1>8, Zenon DEF DialerTakes

\* doCleanup leaves the messages of the tables alone.
LEMMA CleanedClean ==
  ASSUME NEW r, Clean(r)
  PROVE  Clean(Cleaned(r))
<1>1. DOMAIN Cleaned(r) = DOMAIN r
  BY Zenon DEF Cleaned
<1>2. Cleaned(r).inbox = r.inbox /\ Cleaned(r).orphans = r.orphans
  BY Zenon DEF Cleaned, Clean
<1> QED BY <1>1, <1>2, Zenon DEF Clean

\* Cleanups and timers drop tables and add nothing.
LEMMA HousekeepingKeeps ==
  ASSUME AllowedInv, Housekeeping
  PROVE  AllowedInv'
<1>0. /\ CheckInv /\ NetInv /\ TableInv /\ GotInv /\ CountInv
      /\ granted /\ DOMAIN relay = Sides /\ Clean(relay["dialer"])
  BY Zenon DEF AllowedInv, CheckInv, TableInv
<1>1. PICK s \in Sides : Cleanup(s) \/ CleanIdle(s) \/ ExpireOrphans(s)
  BY Zenon DEF Housekeeping
<1>2. UNCHANGED <<plan, serving, target, runtime, granted, count, net, got>>
  BY <1>1, Zenon DEF Cleanup, CleanIdle, ExpireOrphans, remote, history
<1>3. CheckInv'
  BY <1>0, <1>2, EntryChecks, Zenon
<1>4. DOMAIN relay' = Sides
  BY <1>0, <1>1, Zenon DEF Cleanup, CleanIdle, ExpireOrphans
<1>5. CASE s = "entry"
  <2>1. relay'["dialer"] = relay["dialer"]
    BY <1>0, <1>1, <1>5, Zenon DEF Cleanup, CleanIdle, ExpireOrphans, Sides
  <2> QED BY <1>0, <1>2, <1>3, <1>4, <2>1, SameDialer, Zenon DEF AllowedInv, NetInv, GotInv, CountInv
<1>6. CASE s = "dialer"
  <2>1. TableInv'
    <3>1. CASE Cleanup("dialer")
      <4>1. relay' = [relay EXCEPT !["dialer"] = Cleaned(relay["dialer"])]
        BY <3>1, Zenon DEF Cleanup
      <4> QED BY <1>0, <1>4, <4>1, CleanedClean, Zenon DEF TableInv, Sides
    <3>2. CASE CleanIdle("dialer")
      BY <1>0, <1>4, <3>2, Zenon DEF CleanIdle, TableInv, Clean, Sides
    <3>3. CASE ExpireOrphans("dialer")
      <4>1. <<>> \in Seq(Ok)
        OBVIOUS
      <4> QED BY <1>0, <1>4, <3>3, <4>1, Zenon DEF ExpireOrphans, TableInv, Clean, Sides
    <3> QED BY <1>1, <1>6, <3>1, <3>2, <3>3, Zenon
  <2> QED BY <1>0, <1>2, <1>3, <2>1, Zenon DEF AllowedInv, NetInv, GotInv, CountInv
<1> QED BY <1>5, <1>6, Zenon DEF Sides

\* A datagram is checked before it is sent.
LEMMA ReadLocalKeeps ==
  ASSUME AllowedInv, ReadLocal
  PROVE  AllowedInv'
<1>0. /\ CheckInv /\ NetInv /\ TableInv /\ GotInv /\ CountInv
      /\ granted /\ plan \in Plans /\ runtime \in {NoRules, plan.later} /\ DOMAIN relay = Sides /\ count["entry"] \in Nat
  BY Zenon DEF AllowedInv, CheckInv, TableInv, CountInv
<1>1. UNCHANGED <<plan, serving, target, runtime, granted, got>>
  BY Zenon DEF ReadLocal, remote, history
<1>2. CheckInv' /\ GotInv'
  BY <1>0, <1>1, EntryChecks, Zenon DEF GotInv
<1>3. CountInv'
  BY <1>0 DEF ReadLocal, CountInv, Sides
<1> DEFINE port == IF udp THEN request.port ELSE TargetPort(DefaultPort)
<1>4. PICK host \in (IF udp THEN Hosts ELSE {request.host}) :
        IF udp => checkEntryAccess(host, port)
          THEN /\ Send("entry", Data(count["entry"] + 1, udp => Permits("entry", host, port)))
               /\ relay' = [relay EXCEPT !.entry.active = TRUE, !.entry.client = udp]
          ELSE /\ relay' = [relay EXCEPT !.entry.client = TRUE]
               /\ UNCHANGED net
  BY Zenon DEF ReadLocal
<1>5. TableInv'
  <2>1. DOMAIN relay' = Sides /\ relay'["dialer"] = relay["dialer"]
    BY <1>0, <1>4, Zenon DEF Sides
  <2> QED BY <1>0, <2>1, SameDialer, Zenon
<1>6. NetInv'
  <2>1. host \in Hosts \cup {""} /\ port \in Int
    BY <1>0, <1>4, PlanFacts, Zenon
  <2> HIDE DEF port
  <2>2. CASE udp => checkEntryAccess(host, port)
    <3> DEFINE allowed == udp => Permits("entry", host, port)
    <3>1. allowed
      BY <1>0, <2>1, <2>2, EntryChecked, Zenon
    <3>2. allowed = TRUE
      BY <3>1, Zenon
    <3>3. Send("entry", Data(count["entry"] + 1, allowed))
      BY <1>4, <2>2, Zenon
    <3> HIDE DEF allowed
    <3>4. count["entry"] + 1 \in Nat
      BY <1>0
    <3>5. Data(count["entry"] + 1, allowed) \in Ok
      BY <3>2, <3>4, EntryMessages, Zenon
    <3> QED BY <1>0, <3>3, <3>5, SendKeeps, Zenon DEF Sides
  <2>3. CASE ~(udp => checkEntryAccess(host, port))
    BY <1>0, <1>4, <2>3, Zenon DEF NetInv
  <2> QED BY <2>2, <2>3, Zenon
<1> QED BY <1>2, <1>3, <1>5, <1>6, Zenon DEF AllowedInv

\* The client, the target, the API and the links.
LEMMA EnvironmentKeeps ==
  ASSUME AllowedInv, Environment
  PROVE  AllowedInv'
<1>0. /\ CheckInv /\ NetInv /\ TableInv /\ GotInv /\ CountInv
      /\ granted /\ DOMAIN relay = Sides /\ Clean(relay["dialer"])
  BY Zenon DEF AllowedInv, CheckInv, TableInv
<1>1. ASSUME UNCHANGED <<relay, got, count>> PROVE TableInv' /\ GotInv' /\ CountInv'
  BY <1>0, <1>1, Zenon DEF TableInv, GotInv, CountInv
<1>2. CASE ReadRemote
  <2>1. CheckInv' /\ GotInv'
    BY <1>0, <1>2, EntryChecks, Zenon DEF ReadRemote, remote, history, GotInv
  <2>2. CountInv'
    BY <1>0, <1>2, Zenon DEF ReadRemote, CountInv, Sides
  <2>3. TableInv'
    BY <1>0, <1>2, Zenon DEF ReadRemote, TableInv, Clean, Sides
  <2>4. NetInv'
    BY <1>0, <1>2, SendKeeps, Zenon DEF ReadRemote, Sides
  <2> QED BY <2>1, <2>2, <2>3, <2>4, Zenon DEF AllowedInv
<1>3. CASE ClientLeaves
  <2>1. CheckInv'
    BY <1>0, <1>3, EntryChecks, Zenon DEF ClientLeaves, remote, history
  <2> QED BY <1>0, <1>1, <1>3, <2>1, Zenon DEF ClientLeaves, history, NetInv, AllowedInv
<1>4. CASE TargetEnds
  <2>1. CheckInv'
    BY <1>0, <1>4, DialerChecks, Zenon DEF TargetEnds, history
  <2> QED BY <1>0, <1>1, <1>4, <2>1, Zenon DEF TargetEnds, history, NetInv, AllowedInv
<1>5. CASE SetAccessControl
  <2>1. CheckInv'
    BY <1>0, <1>5, Zenon DEF SetAccessControl, remote, history, CheckInv, ForwardAllows, udp, request, TargetPort, DefaultPort
  <2> QED BY <1>0, <1>1, <1>5, <2>1, Zenon DEF SetAccessControl, history, NetInv, AllowedInv
<1>6. ASSUME NEW l \in Links, LinkBreaks(l) PROVE AllowedInv'
  <2>1. CheckInv'
    BY <1>0, <1>6, EntryChecks, Zenon DEF LinkBreaks, remote, history
  <2>2. net' = [s \in Sides |-> [net[s] EXCEPT ![l] = <<>>]]
    BY <1>6, Zenon DEF LinkBreaks
  <2>3. <<>> \in Seq(Ok)
    OBVIOUS
  <2>4. [net["dialer"] EXCEPT ![l] = <<>>] \in [Links -> Seq(Ok)]
    BY <1>0, <2>3, Zenon DEF NetInv
  <2>5. NetInv'
    BY <2>2, <2>4, Zenon DEF NetInv, Sides
  <2> QED BY <1>1, <1>6, <2>1, <2>5, Zenon DEF LinkBreaks, history, AllowedInv
<1> QED BY <1>2, <1>3, <1>4, <1>5, <1>6, ReadLocalKeeps, Zenon DEF Environment

\* Every step keeps the invariant.
LEMMA AllowedStep == AllowedInv /\ [Next]_vars => AllowedInv'
<1> SUFFICES ASSUME AllowedInv, [Next]_vars PROVE AllowedInv'
  BY Zenon
<1>1. CASE UNCHANGED vars
  BY <1>1, Zenon DEF vars, remote, history, AllowedInv, CheckInv, ForwardAllows, udp, request, TargetPort, DefaultPort, NetInv, TableInv, GotInv, CountInv
<1>2. CASE Dispatch
  BY <1>2, EntryTakesKeeps, DialerTakesKeeps, Zenon DEF Dispatch
<1>3. CASE Entry
  BY <1>3, EntryKeeps, Zenon
<1>4. CASE Dialer \/ WriteRemote \/ EndRemote
  BY <1>4, DialerKeeps, Zenon
<1>5. CASE Housekeeping
  BY <1>5, HousekeepingKeeps, Zenon
<1>6. CASE Environment
  BY <1>6, EnvironmentKeeps, Zenon
<1> QED BY <1>1, <1>2, <1>3, <1>4, <1>5, <1>6, Zenon DEF Next

\* Whatever is dialled and every datagram that is sent out is allowed by the
\* rules in force at each check, for all rules, plans, links and queues
\* (relay.go, checkEntryAccess, checkDialAccess; server.go, the forward token).
THEOREM OnlyAllowedIsDialled == Spec => []DialsAllowed
<1>1. Init => AllowedInv
  BY AllowedInit, Zenon
<1>2. AllowedInv /\ [Next]_vars => AllowedInv'
  BY AllowedStep, Zenon
<1>3. AllowedInv => DialsAllowed
  <2> SUFFICES ASSUME AllowedInv PROVE DialsAllowed
    BY Zenon
  <2>1. \A i \in DOMAIN got.dialer : got.dialer[i].ok
    <3>1. got.dialer \in Seq(Ok)
      BY Zenon DEF AllowedInv, GotInv
    <3>2. \A i \in DOMAIN got.dialer : got.dialer[i] \in Ok
      BY <3>1
    <3>3. \A x \in Ok : x.ok
      BY Zenon DEF Ok
    <3> QED BY <3>2, <3>3, Zenon
  <2>2. target # "none" => granted /\ ForwardAllows
    BY Zenon DEF AllowedInv, CheckInv
  <2> QED BY <2>1, <2>2, Zenon DEF DialsAllowed, ForwardAllows
<1> QED BY <1>1, <1>2, <1>3, PTL DEF Spec

-----------------------------------------------------------------------------
(* The answer.  While nothing was dialled the dialer reports failures only,  *)
(* so that is all there is on the links, in the queue, in the orphan buffer  *)
(* and in the hands of the server's goroutines; a handler that waits for the *)
(* response cannot take any of them for a success.                           *)

Failed == {Response(FALSE)}
Fails(r) == {"inbox", "orphans"} \subseteq DOMAIN r /\ r.inbox \in Seq(Failed) /\ r.orphans \in Seq(Failed)

Undialled == serving \notin {"respond", "forward"}
Unheard == net.entry \in [Links -> Seq(Failed)] /\ Fails(relay.entry) /\ reply \in Seq(Failed)
Unsaid == ~plan.fastOpen => pc \notin {"reply", "forward"} /\ answer # "ok"
Truth == Undialled /\ Unheard /\ Unsaid
TruthInv == target = "none" => Truth

\* What is left of a sequence, and one more.
LEMMA OneLess ==
  ASSUME NEW S, NEW s \in Seq(S), s # <<>>
  PROVE  Head(s) \in S /\ Tail(s) \in Seq(S)
OBVIOUS

\* ... and one more.
LEMMA OneMore ==
  ASSUME NEW S, NEW s \in Seq(S), NEW m \in S
  PROVE  Append(s, m) \in Seq(S)
OBVIOUS

\* No message at all.
LEMMA NoneAtAll == \A S : <<>> \in Seq(S)
OBVIOUS

\* A failure is neither data nor a success.
LEMMA OnlyFailures == \A m \in Failed : m = Response(FALSE) /\ m.type = "response" /\ ~m.ok
BY DEF Failed, Response

\* A target that was dialled stays one.
LEMMA TargetStays ==
  ASSUME [Next]_vars, target' = "none" PROVE target = "none"
BY Zenon DEF Next, Entry, Dialer, Dispatch, Housekeeping, Environment, vars, remote, Refuse, OpenChannel, OpenTransportFails,
   WriteConnect, AwaitResponse, AwaitTimeout, Reply, WriteLocal, MonitorLocal, EndForward, FastOpenTimeout, StartDial, RefuseDial,
   DialFails, DialSucceeds, Respond, WriteRemote, EndRemote, HandleResponse, EntryTakes, DialerTakes, Cleanup, CleanIdle,
   ExpireOrphans, ReadLocal, ReadRemote, ClientLeaves, TargetEnds, SetAccessControl, LinkBreaks

\* Tables of the entry with the same messages.
LEMMA SameMessages ==
  ASSUME NEW r, NEW t, Fails(r), DOMAIN t = DOMAIN r, t.inbox = r.inbox, t.orphans = r.orphans
  PROVE  Fails(t)
BY Zenon DEF Fails

\* Messages to the dialer leave those to the entry alone.
LEMMA EntrySends ==
  ASSUME NetInv, NEW m, Send("entry", m)
  PROVE  net'.entry = net.entry
<1>1. PICK l \in Writable("entry") : net' = [net EXCEPT !["dialer"][l] = Append(@, m)]
  BY OtherSide, Zenon DEF Send
<1> QED BY <1>1, Zenon DEF NetInv, Sides

\* A failure on its way to the entry.
LEMMA DialerSends ==
  ASSUME NetInv, net.entry \in [Links -> Seq(Failed)], SendOrLose("dialer", Response(FALSE))
  PROVE  net'.entry \in [Links -> Seq(Failed)]
<1>1. CASE UNCHANGED net
  BY <1>1, Zenon
<1>2. CASE Send("dialer", Response(FALSE))
  <2>1. PICK l \in Writable("dialer") : net' = [net EXCEPT !["entry"][l] = Append(@, Response(FALSE))]
    BY <1>2, OtherSide, Zenon DEF Send
  <2>2. \A s \in Seq(Failed) : Append(s, Response(FALSE)) \in Seq(Failed)
    BY OneMore, Zenon DEF Failed
  <2>3. net'.entry = [net.entry EXCEPT ![l] = Append(net.entry[l], Response(FALSE))]
    BY <2>1, Zenon DEF NetInv, Sides
  <2> QED BY <2>2, <2>3, Zenon
<1> QED BY <1>1, <1>2, Zenon DEF SendOrLose

\* The entry's handler: it takes a failure for what it is.
LEMMA EntryTruth ==
  ASSUME AllowedInv, Truth, Entry
  PROVE  Truth'
<1> DEFINE r == relay["entry"]  t == relay'["entry"]
<1>0. /\ NetInv /\ DOMAIN relay = Sides /\ "entry" \in Sides /\ Undialled /\ Unsaid
      /\ net.entry \in [Links -> Seq(Failed)] /\ Fails(r) /\ reply \in Seq(Failed)
  BY Zenon DEF AllowedInv, TableInv, Truth, Unheard, Sides
<1>1. ASSUME UNCHANGED <<plan, serving, reply>>, net'.entry = net.entry, Fails(t), Unsaid' PROVE Truth'
  BY <1>0, <1>1, Zenon DEF Truth, Undialled, Unheard
<1>2. ASSUME UNCHANGED <<plan, pc, answer>> PROVE Unsaid'
  BY <1>0, <1>2, Zenon DEF Unsaid
<1>3. ASSUME UNCHANGED plan, pc' \notin {"reply", "forward"}, answer' # "ok" PROVE Unsaid'
  BY <1>3, Zenon DEF Unsaid
<1>4. ASSUME UNCHANGED plan, plan.fastOpen PROVE Unsaid'
  BY <1>4, Zenon DEF Unsaid
<1>5. ASSUME NEW x, Fails(x), relay' = [relay EXCEPT !.entry = Requeued(x, 1)] PROVE Fails(t)
  <2>1. t = Requeued(x, 1)
    BY <1>0, <1>5, Zenon
  <2> QED BY <1>5, <2>1, SameMessages, Zenon DEF Requeued, Fails
<1>6. Fails([r EXCEPT !.socket = FALSE]) /\ Fails([r EXCEPT !.logical = TRUE, !.socket = FALSE])
  BY <1>0, Zenon DEF Fails
<1>7. CASE Refuse
  <2>1. HandleLocalProxyRequest # "ok"
    BY Zenon DEF HandleLocalProxyRequest, HandleSocksHandshake, HandleHTTPProxyRequest
  <2> QED BY <1>0, <1>1, <1>3, <1>7, <2>1, Zenon DEF Refuse, remote
<1>8. ASSUME NEW l \in Links, OpenChannel(l) PROVE Truth'
  <2>1. <<>> \in Seq(Failed)
    BY NoneAtAll, Zenon
  <2>2. DOMAIN Reserve(l) = DOMAIN r /\ Reserve(l).inbox = r.orphans /\ Reserve(l).orphans = <<>>
    BY <1>0, Zenon DEF Reserve, Fails
  <2>3. Fails(Reserve(l))
    BY <1>0, <2>1, <2>2, Zenon DEF Fails
  <2>4. UNCHANGED <<plan, serving, reply, net>>
    BY <1>8, Zenon DEF OpenChannel, remote
  <2>5. CASE pc' = "opening" /\ answer' = answer /\ relay' = [relay EXCEPT !.entry = Reserve(l)]
    <3>1. Unsaid'
      BY <1>0, <2>4, <2>5, Zenon DEF Unsaid
    <3>2. t = Reserve(l)
      BY <1>0, <2>5, Zenon
    <3> QED BY <1>1, <2>3, <2>4, <3>1, <3>2, Zenon
  <2>6. CASE Leave("denied", Reserve(l))
    <3>1. Unsaid'
      BY <1>3, <2>4, <2>6, Zenon DEF Leave
    <3>2. Fails(t)
      BY <1>5, <2>3, <2>6, Zenon DEF Leave
    <3> QED BY <1>1, <2>4, <3>1, <3>2, Zenon
  <2>7. CASE answer' = "denied" /\ pc' = "done" /\ UNCHANGED relay
    BY <1>0, <1>1, <1>3, <2>4, <2>7, Zenon
  <2> QED BY <1>8, <2>5, <2>6, <2>7, Zenon DEF OpenChannel
<1>9. ASSUME NEW said, said # "ok", NEW x, Fails(x), Leave(said, x), UNCHANGED <<plan, serving, reply, net>> PROVE Truth'
  BY <1>1, <1>3, <1>5, <1>9, Zenon DEF Leave
<1>10. \A said : said # "ok" => Unanswered(said) # "ok"
  BY Zenon DEF Unanswered
<1>11. CASE OpenTransportFails
  BY <1>6, <1>9, <1>10, <1>11, Zenon DEF OpenTransportFails, remote
<1>12. CASE AwaitTimeout
  BY <1>6, <1>9, <1>10, <1>12, Zenon DEF AwaitTimeout, remote
<1>13. CASE WriteConnect
  <2>1. UNCHANGED <<plan, serving, reply>>
    BY <1>13, Zenon DEF WriteConnect, remote
  <2>2. CASE CanSend("entry")
    <3>1. net'.entry = net.entry
      BY <1>0, <1>13, <2>2, EntrySends, Zenon DEF WriteConnect
    <3>2. Fails(t)
      BY <1>0, <1>13, <2>2, Zenon DEF WriteConnect, Fails
    <3>3. Unsaid'
      BY <1>0, <1>13, <2>1, <2>2, Zenon DEF WriteConnect, Unsaid
    <3> QED BY <1>1, <2>1, <3>1, <3>2, <3>3, Zenon
  <2>3. CASE ~CanSend("entry")
    BY <1>6, <1>9, <1>10, <1>13, <2>1, <2>3, Zenon DEF WriteConnect
  <2> QED BY <2>2, <2>3, Zenon
<1>14. CASE AwaitResponse
  <2> DEFINE rest == [r EXCEPT !.inbox = Tail(@)]
  <2>1. UNCHANGED <<plan, serving, reply, net>> /\ r.inbox # <<>>
    BY <1>14, Zenon DEF AwaitResponse, remote
  <2>2. Head(r.inbox) \in Failed /\ Tail(r.inbox) \in Seq(Failed)
    BY <1>0, <2>1, OneLess, Zenon DEF Fails
  <2>3. Fails([rest EXCEPT !.socket = FALSE])
    BY <1>0, <2>2, Zenon DEF Fails
  <2>4. Leave(Unanswered("unreachable"), [rest EXCEPT !.socket = FALSE])
    BY <1>14, <2>2, OnlyFailures, Zenon DEF AwaitResponse
  <2> QED BY <1>9, <1>10, <2>1, <2>3, <2>4, Zenon
<1>15. CASE Reply
  <2>1. UNCHANGED <<plan, serving, reply, net>> /\ plan.fastOpen
    BY <1>0, <1>15, Zenon DEF Reply, remote, Unsaid
  <2>2. CASE Leave("none", [r EXCEPT !.socket = FALSE])
    BY <1>6, <1>9, <2>1, <2>2, Zenon
  <2>3. CASE relay' = [relay EXCEPT !.entry.logical = TRUE, !.entry.cancel = TRUE, !.entry.queue = TRUE,
                                    !.entry.inbox = IF relay.entry.queue THEN @ ELSE <<>>]
    <3> DEFINE kept == IF r.queue THEN r.inbox ELSE <<>>
    <3>1. kept \in Seq(Failed)
      BY <1>0, NoneAtAll, Zenon DEF Fails
    <3>2. relay' = [relay EXCEPT !.entry.logical = TRUE, !.entry.cancel = TRUE, !.entry.queue = TRUE, !.entry.inbox = kept]
      BY <2>3, Zenon
    <3> HIDE DEF kept
    <3>3. Fails(t)
      BY <1>0, <3>1, <3>2, Zenon DEF Fails
    <3> QED BY <1>1, <1>4, <2>1, <3>3, Zenon
  <2> QED BY <1>15, <2>2, <2>3, Zenon DEF Reply
<1>16. CASE WriteLocal
  <2>1. UNCHANGED <<plan, pc, answer, serving, reply, net>> /\ r.inbox # <<>>
    BY <1>16, Zenon DEF WriteLocal, local, remote
  <2>2. Tail(r.inbox) \in Seq(Failed)
    BY <1>0, <2>1, OneLess, Zenon DEF Fails
  <2>3. DOMAIN t = DOMAIN r /\ t.orphans = r.orphans /\ t.inbox = Tail(r.inbox)
    BY <1>0, <1>16, Zenon DEF WriteLocal, Fails, Sides
  <2>4. Fails(t)
    BY <1>0, <2>2, <2>3, Zenon DEF Fails
  <2> QED BY <1>1, <1>2, <2>1, <2>4, Zenon
<1>17. CASE MonitorLocal
  <2>1. Fails(t)
    BY <1>0, <1>17, Zenon DEF MonitorLocal, Fails
  <2> QED BY <1>1, <1>2, <1>17, <2>1, Zenon DEF MonitorLocal, local, remote
<1>18. CASE EndForward
  <2>1. net'.entry = net.entry
    BY <1>0, <1>18, EntrySends, Zenon DEF EndForward, SendOrLose
  <2>2. DOMAIN t = DOMAIN r /\ t.orphans = r.orphans /\ t.inbox = r.inbox
    BY <1>0, <1>18, Zenon DEF EndForward, Requeued, Fails, Sides
  <2>3. Fails(t)
    BY <1>0, <2>2, SameMessages, Zenon
  <2>4. UNCHANGED <<plan, serving, reply>>
    BY <1>18, Zenon DEF EndForward, remote
  <2>5. Unsaid'
    BY <1>0, <1>18, Zenon DEF EndForward, Unsaid
  <2> QED BY <1>1, <2>1, <2>3, <2>4, <2>5, Zenon
<1>19. CASE FastOpenTimeout
  <2>1. DOMAIN t = DOMAIN r /\ t.orphans = r.orphans /\ t.inbox = r.inbox
    BY <1>0, <1>19, Zenon DEF FastOpenTimeout, Requeued, Fails, Sides
  <2>2. Fails(t)
    BY <1>0, <2>1, SameMessages, Zenon
  <2> QED BY <1>1, <1>2, <1>19, <2>2, Zenon DEF FastOpenTimeout, remote
<1> QED BY <1>7, <1>8, <1>11, <1>12, <1>13, <1>14, <1>15, <1>16, <1>17, <1>18, <1>19, Zenon DEF Entry

\* The queue and the orphans of the entry take a failure as it is.
LEMMA DeliveredFails ==
  ASSUME Fails(relay["entry"]), NEW m \in Failed
  PROVE  Fails(Enqueued("entry", m)) /\ Fails(Delivered("entry", m)) /\ \A ok : Fails(Confirmed(ok))
<1> DEFINE r == relay["entry"]
<1>1. Append(r.inbox, m) \in Seq(Failed) /\ Append(r.orphans, m) \in Seq(Failed)
  BY OneMore, Zenon DEF Fails
<1>2. Fails(Enqueued("entry", m))
  BY <1>1, Zenon DEF Enqueued, Fails
<1>3. Fails(Buffered("entry", m))
  BY <1>1, Zenon DEF Buffered, Fails
<1>4. Delivered("entry", m) \in {r, Enqueued("entry", m), Buffered("entry", m)}
  BY Zenon DEF Delivered
<1>5. \A ok : Fails(Confirmed(ok))
  BY Zenon DEF Confirmed, Requeued, Fails
<1> QED BY <1>2, <1>3, <1>4, <1>5, Zenon

\* What arrives at the entry is a failure, and is kept as one.
LEMMA DispatchTruth ==
  ASSUME AllowedInv, Truth, HandleResponse \/ (\E l \in Links : EntryTakes(l))
  PROVE  Truth'
<1> DEFINE r == relay["entry"]  t == relay'["entry"]
<1>0. /\ NetInv /\ DOMAIN relay = Sides /\ "entry" \in Sides /\ Undialled /\ Unsaid
      /\ net.entry \in [Links -> Seq(Failed)] /\ Fails(r) /\ reply \in Seq(Failed)
  BY Zenon DEF AllowedInv, TableInv, Truth, Unheard, Sides
<1>1. UNCHANGED <<plan, serving, pc, answer>>
  BY Zenon DEF HandleResponse, EntryTakes, local, remote
<1>2. Undialled' /\ Unsaid'
  BY <1>0, <1>1, Zenon DEF Undialled, Unsaid
<1>3. ASSUME NEW x, Fails(x), relay' = [relay EXCEPT !.entry = x] PROVE Fails(t)
  BY <1>0, <1>3, Zenon
<1>4. CASE HandleResponse
  <2>1. reply # <<>> /\ reply' = Tail(reply) /\ UNCHANGED net
    BY <1>4, Zenon DEF HandleResponse
  <2>2. Head(reply) \in Failed /\ Tail(reply) \in Seq(Failed)
    BY <1>0, <2>1, OneLess, Zenon
  <2>3. Fails(t)
    BY <1>0, <1>3, <1>4, <2>2, DeliveredFails, Zenon DEF HandleResponse
  <2> QED BY <1>0, <1>2, <2>1, <2>2, <2>3, Zenon DEF Truth, Unheard
<1>5. ASSUME NEW l \in Links, EntryTakes(l) PROVE Truth'
  <2> DEFINE m == Head(net["entry"][l])
  <2>1. net["entry"][l] \in Seq(Failed) /\ net["entry"][l] # <<>>
    BY <1>0, <1>5, Zenon DEF EntryTakes
  <2>2. m \in Failed /\ Tail(net["entry"][l]) \in Seq(Failed)
    BY <2>1, OneLess, Zenon
  <2>3. net'.entry \in [Links -> Seq(Failed)]
    <3>1. net'.entry = [net["entry"] EXCEPT ![l] = Tail(net["entry"][l])]
      BY <1>0, <1>5, Zenon DEF EntryTakes, NetInv
    <3> QED BY <1>0, <2>2, <3>1, Zenon
  <2>4. m.type = "response"
    BY <2>2, OnlyFailures, Zenon
  <2>5. TakeResponse(m) \/ (DeliverToQueue(m) /\ UNCHANGED reply)
    BY <1>5, <2>4, Zenon DEF EntryTakes
  <2>6. Append(reply, m) \in Seq(Failed)
    BY <1>0, <2>2, OneMore, Zenon
  <2> HIDE DEF m
  <2>7. reply' \in Seq(Failed)
    BY <1>0, <2>5, <2>6, Zenon DEF TakeResponse
  <2>8. relay' = relay \/ (\E ok : relay' = [relay EXCEPT !.entry = Confirmed(ok)]) \/ relay' = [relay EXCEPT !.entry = Enqueued("entry", m)]
    BY <2>5, Zenon DEF TakeResponse, DeliverToQueue
  <2>9. Fails(t)
    BY <1>0, <1>3, <2>2, <2>8, DeliveredFails, Zenon
  <2> QED BY <1>2, <2>3, <2>7, <2>9, Zenon DEF Truth, Unheard
<1> QED BY <1>4, <1>5, Zenon

\* The dialer: as long as it has not reached the target it tells of failures.
LEMMA DialerTruth ==
  ASSUME AllowedInv, Truth, target' = "none",
         Dialer \/ WriteRemote \/ EndRemote \/ (\E l \in Links : DialerTakes(l))
  PROVE  Truth'
<1>0. /\ NetInv /\ DOMAIN relay = Sides /\ serving \notin {"respond", "forward"} /\ Unsaid
      /\ net.entry \in [Links -> Seq(Failed)] /\ Fails(relay["entry"]) /\ reply \in Seq(Failed)
  BY Zenon DEF AllowedInv, TableInv, Truth, Unheard, Undialled
<1>1. ASSUME UNCHANGED <<plan, reply, pc, answer>>, serving' \notin {"respond", "forward"},
             net'.entry \in [Links -> Seq(Failed)], relay'["entry"] = relay["entry"]
      PROVE  Truth'
  BY <1>0, <1>1, Zenon DEF Truth, Undialled, Unheard, Unsaid
<1>2. CASE StartDial
  <2>1. relay'["entry"] = relay["entry"]
    BY <1>0, <1>2, Zenon DEF StartDial, Sides
  <2>2. serving' \in {"done", "dialing", "refuse"}
    BY <1>2, Zenon DEF StartDial
  <2> QED BY <1>0, <1>1, <1>2, <2>1, <2>2, Zenon DEF StartDial, local
<1>3. CASE RefuseDial
  <2>1. net'.entry \in [Links -> Seq(Failed)]
    BY <1>0, <1>3, DialerSends, Zenon DEF RefuseDial
  <2> QED BY <1>1, <1>3, <2>1, Zenon DEF RefuseDial, local
<1>4. CASE DialFails
  BY <1>0, <1>1, <1>4, Zenon DEF DialFails, local
<1>5. ~DialSucceeds /\ ~Respond /\ ~WriteRemote /\ ~EndRemote
  BY <1>0, Zenon DEF DialSucceeds, Respond, WriteRemote, EndRemote
<1>6. ASSUME NEW l \in Links, DialerTakes(l) PROVE Truth'
  <2>1. UNCHANGED <<plan, reply, pc, answer>> /\ serving' \notin {"respond", "forward"}
    BY <1>0, <1>6, Zenon DEF DialerTakes, TakeConnect, local
  <2>2. relay'["entry"] = relay["entry"]
    BY <1>0, <1>6, Zenon DEF DialerTakes, TakeConnect, Sides
  <2>3. net' = [net EXCEPT !.dialer[l] = Tail(@)] \/ net' = [net EXCEPT !.dialer[l] = Tail(@), !.entry[l] = Append(@, Response(FALSE))]
    BY <1>6, Zenon DEF DialerTakes, TakeConnect
  <2>4. Append(net["entry"][l], Response(FALSE)) \in Seq(Failed)
    BY <1>0, OneMore, Zenon DEF Failed
  <2>5. net'.entry = net.entry \/ net'.entry = [net["entry"] EXCEPT ![l] = Append(net["entry"][l], Response(FALSE))]
    BY <1>0, <2>3, Zenon DEF NetInv, Sides
  <2>6. net'.entry \in [Links -> Seq(Failed)]
    BY <1>0, <2>4, <2>5, Zenon
  <2> QED BY <1>1, <2>1, <2>2, <2>6, Zenon
<1> QED BY <1>2, <1>3, <1>4, <1>5, <1>6, Zenon DEF Dialer

\* Cleanups, timers, the client, the API and the links.
LEMMA OthersTruth ==
  ASSUME AllowedInv, Truth, Housekeeping \/ Environment
  PROVE  Truth'
<1> DEFINE r == relay["entry"]  t == relay'["entry"]
<1>0. /\ NetInv /\ DOMAIN relay = Sides /\ serving \notin {"respond", "forward"} /\ Unsaid
      /\ net.entry \in [Links -> Seq(Failed)] /\ Fails(r) /\ reply \in Seq(Failed)
  BY Zenon DEF AllowedInv, TableInv, Truth, Unheard, Undialled
<1>1. ASSUME UNCHANGED <<plan, serving, reply, pc, answer>>, net'.entry \in [Links -> Seq(Failed)], Fails(t)
      PROVE  Truth'
  BY <1>0, <1>1, Zenon DEF Truth, Undialled, Unheard, Unsaid
<1>2. \A s \in Sides : s = "entry" \/ s = "dialer"
  BY Zenon DEF Sides
<1>3. ASSUME NEW s \in Sides, Cleanup(s) PROVE Truth'
  <2>1. DOMAIN t = DOMAIN r /\ t.inbox = r.inbox /\ t.orphans = r.orphans
    <3>1. DOMAIN Cleaned(r) = DOMAIN r /\ Cleaned(r).inbox = r.inbox /\ Cleaned(r).orphans = r.orphans
      BY <1>0, Zenon DEF Cleaned, Fails
    <3>2. t = r \/ t = Cleaned(r)
      BY <1>0, <1>2, <1>3, Zenon DEF Cleanup, Sides
    <3> QED BY <3>1, <3>2, Zenon
  <2> QED BY <1>0, <1>1, <1>3, <2>1, SameMessages, Zenon DEF Cleanup, local, remote
<1>4. ASSUME NEW s \in Sides, CleanIdle(s) PROVE Truth'
  <2>1. DOMAIN t = DOMAIN r /\ t.inbox = r.inbox /\ t.orphans = r.orphans
    BY <1>0, <1>2, <1>4, Zenon DEF CleanIdle, Fails, Sides
  <2> QED BY <1>0, <1>1, <1>4, <2>1, SameMessages, Zenon DEF CleanIdle, local, remote
<1>5. ASSUME NEW s \in Sides, ExpireOrphans(s) PROVE Truth'
  <2>1. DOMAIN t = DOMAIN r /\ t.inbox = r.inbox /\ t.orphans \in {r.orphans, <<>>}
    BY <1>0, <1>2, <1>5, Zenon DEF ExpireOrphans, Fails, Sides
  <2>2. Fails(t)
    BY <1>0, <2>1, NoneAtAll, Zenon DEF Fails
  <2> QED BY <1>0, <1>1, <1>5, <2>2, Zenon DEF ExpireOrphans, local, remote
<1>6. CASE ReadLocal
  <2>1. net'.entry = net.entry
    BY <1>0, <1>6, EntrySends, Zenon DEF ReadLocal
  <2>2. DOMAIN t = DOMAIN r /\ t.inbox = r.inbox /\ t.orphans = r.orphans
    <3>1. \/ relay' = [relay EXCEPT !.entry.active = TRUE, !.entry.client = udp]
          \/ relay' = [relay EXCEPT !.entry.client = TRUE]
      BY <1>6, Zenon DEF ReadLocal
    <3>2. CASE relay' = [relay EXCEPT !.entry.active = TRUE, !.entry.client = udp]
      <4>1. t = [r EXCEPT !.active = TRUE, !.client = udp]
        BY <1>0, <3>2, Zenon DEF Sides
      <4> QED BY <1>0, <4>1, Zenon DEF Fails
    <3>3. CASE relay' = [relay EXCEPT !.entry.client = TRUE]
      <4>1. t = [r EXCEPT !.client = TRUE]
        BY <1>0, <3>3, Zenon DEF Sides
      <4> QED BY <1>0, <4>1, Zenon DEF Fails
    <3> QED BY <3>1, <3>2, <3>3, Zenon
  <2> QED BY <1>0, <1>1, <1>6, <2>1, <2>2, SameMessages, Zenon DEF ReadLocal, local, remote
<1>7. ~ReadRemote /\ ~TargetEnds
  BY <1>0, Zenon DEF ReadRemote, TargetEnds
<1>8. CASE ClientLeaves \/ SetAccessControl
  BY <1>0, <1>1, <1>8, Zenon DEF ClientLeaves, SetAccessControl, local, remote
<1>9. ASSUME NEW l \in Links, LinkBreaks(l) PROVE Truth'
  <2>1. net' = [s \in Sides |-> [net[s] EXCEPT ![l] = <<>>]]
    BY <1>9, Zenon DEF LinkBreaks
  <2>2. [net["entry"] EXCEPT ![l] = <<>>] \in [Links -> Seq(Failed)]
    BY <1>0, NoneAtAll, Zenon
  <2>3. net'.entry \in [Links -> Seq(Failed)]
    BY <2>1, <2>2, Zenon DEF Sides
  <2> QED BY <1>0, <1>1, <1>9, <2>3, Zenon DEF LinkBreaks, local, remote
<1> QED BY <1>3, <1>4, <1>5, <1>6, <1>7, <1>8, <1>9, Zenon DEF Housekeeping, Environment

\* Every step keeps the invariant.
LEMMA TruthStep == AllowedInv /\ TruthInv /\ [Next]_vars => TruthInv'
<1> SUFFICES ASSUME AllowedInv, TruthInv, [Next]_vars, target' = "none" PROVE Truth'
  BY Zenon DEF TruthInv
<1>0. Truth
  BY TargetStays, Zenon DEF TruthInv
<1>1. CASE UNCHANGED vars
  BY <1>0, <1>1, Zenon DEF vars, local, remote, Truth, Undialled, Unheard, Unsaid, Fails
<1>2. CASE Entry
  BY <1>0, <1>2, EntryTruth, Zenon
<1>3. CASE Dispatch
  BY <1>0, <1>3, DispatchTruth, DialerTruth, Zenon DEF Dispatch
<1>4. CASE Dialer \/ WriteRemote \/ EndRemote
  BY <1>0, <1>4, DialerTruth, Zenon
<1>5. CASE Housekeeping \/ Environment
  BY <1>0, <1>5, OthersTruth, Zenon
<1> QED BY <1>1, <1>2, <1>3, <1>4, <1>5, Zenon DEF Next

\* A client without fast open that is told "ok" has a target that was dialled,
\* for all plans, links, rules and queues (relay.go, HandleSocksRequest;
\* local_proxy.go, waitForConnectSuccess).
THEOREM ReplyTruthfulHolds == Spec => []ReplyTruthful
<1>1. Init => AllowedInv
  BY AllowedInit, Zenon
<1>2. Init => TruthInv
  <2> SUFFICES ASSUME Init PROVE Truth
    BY Zenon DEF TruthInv
  <2>1. <<>> \in Seq(Failed)
    BY NoneAtAll, Zenon
  <2>2. Undialled /\ Unsaid
    BY Zenon DEF Init, Undialled, Unsaid
  <2>3. net.entry \in [Links -> Seq(Failed)] /\ reply \in Seq(Failed)
    BY <2>1, Zenon DEF Init, Sides
  <2>4. Fails(relay.entry)
    <3>1. relay.entry = NewTables
      BY Zenon DEF Init, Sides
    <3>2. {"inbox", "orphans"} \subseteq DOMAIN NewTables /\ NewTables.inbox = <<>> /\ NewTables.orphans = <<>>
      BY Zenon DEF NewTables
    <3> QED BY <2>1, <3>1, <3>2, Zenon DEF Fails
  <2> QED BY <2>2, <2>3, <2>4, Zenon DEF Truth, Unheard
<1>3. AllowedInv /\ TruthInv /\ [Next]_vars => AllowedInv' /\ TruthInv'
  BY AllowedStep, TruthStep, Zenon
<1>4. TruthInv => ReplyTruthful
  BY Zenon DEF TruthInv, Truth, Unsaid, ReplyTruthful
<1> QED BY <1>1, <1>2, <1>3, <1>4, PTL DEF Spec

-----------------------------------------------------------------------------
(* The fast-open timer.  Nothing comes back before the request is sent; then *)
(* a success is recorded in the step in which it reaches the entry, and the  *)
(* record goes only with the channel, which is closed by then.               *)

Fields == {"inbox", "logical", "closed", "success", "cleanups"} \subseteq DOMAIN relay.entry
Early == pc \in {"accepted", "opening"}
Quiet == /\ serving = "none" /\ ~confirmed /\ reply = <<>> /\ timer = "off"
         /\ net.entry = [l \in Links |-> <<>>] /\ net.dialer = [l \in Links |-> <<>>]
Recorded == /\ plan.fastOpen /\ (relay.entry.logical \/ relay.entry.closed)
            /\ confirmed /\ ~relay.entry.closed => relay.entry.success
RecordInv == Fields /\ (Early => Quiet) /\ (timer = "armed" => Recorded)

\* A request that was sent is not taken back.
LEMMA EarlyBefore ==
  ASSUME [Next]_vars, Early' PROVE Early
BY Zenon DEF Early, Next, Entry, Dialer, Dispatch, Housekeeping, Environment, vars, local, Refuse, OpenChannel, OpenTransportFails, Leave,
   WriteConnect, AwaitResponse, AwaitTimeout, Reply, WriteLocal, MonitorLocal, EndForward, FastOpenTimeout, StartDial, RefuseDial,
   DialFails, DialSucceeds, Respond, WriteRemote, EndRemote, HandleResponse, EntryTakes, DialerTakes, Cleanup, CleanIdle,
   ExpireOrphans, ReadLocal, ReadRemote, ClientLeaves, TargetEnds, SetAccessControl, LinkBreaks

\* Until the request is sent only the handler, the client and the links move.
LEMMA QuietStep ==
  ASSUME AllowedInv, Early => Quiet, [Next]_vars, Early'
  PROVE  Quiet'
<1>0. Early /\ Quiet /\ DOMAIN net = Sides
  BY EarlyBefore, Zenon DEF AllowedInv, NetInv
<1>1. ASSUME UNCHANGED <<serving, confirmed, reply, timer, net>> PROVE Quiet'
  BY <1>0, <1>1, Zenon DEF Quiet
<1>2. CASE UNCHANGED vars
  BY <1>1, <1>2, Zenon DEF vars, local, remote, history
<1>3. CASE Entry
  <2>1. ~Refuse /\ ~OpenTransportFails /\ ~WriteConnect /\ ~EndForward
    BY Zenon DEF Early, Refuse, OpenTransportFails, WriteConnect, EndForward, Leave
  <2>2. ~AwaitResponse /\ ~AwaitTimeout /\ ~Reply /\ ~WriteLocal /\ ~FastOpenTimeout
    BY <1>0, Zenon DEF Early, Quiet, AwaitResponse, AwaitTimeout, Reply, WriteLocal, FastOpenTimeout
  <2> QED BY <1>1, <1>3, <2>1, <2>2, Zenon DEF Entry, OpenChannel, MonitorLocal, local, remote, history
<1>4. ~Dialer /\ ~WriteRemote /\ ~EndRemote /\ ~Dispatch
  BY <1>0, Zenon DEF Quiet, Dialer, StartDial, RefuseDial, DialFails, DialSucceeds, Respond, WriteRemote, EndRemote,
     Dispatch, HandleResponse, EntryTakes, DialerTakes
<1>5. CASE Housekeeping
  BY <1>1, <1>5, Zenon DEF Housekeeping, Cleanup, CleanIdle, ExpireOrphans, local, remote, history
<1>6. ~ReadLocal /\ ~ReadRemote /\ ~TargetEnds
  BY <1>0, Zenon DEF Early, Quiet, ReadLocal, ReadRemote, TargetEnds
<1>7. CASE ClientLeaves \/ SetAccessControl
  BY <1>1, <1>7, Zenon DEF ClientLeaves, SetAccessControl, local, remote, history
<1>8. ASSUME NEW l \in Links, LinkBreaks(l) PROVE Quiet'
  <2>1. net' = [s \in Sides |-> [net[s] EXCEPT ![l] = <<>>]] /\ UNCHANGED <<serving, confirmed, reply, timer>>
    BY <1>8, Zenon DEF LinkBreaks, local, remote, history
  <2>2. net'["entry"] = [net["entry"] EXCEPT ![l] = <<>>] /\ net'["dialer"] = [net["dialer"] EXCEPT ![l] = <<>>]
    BY <2>1, Zenon DEF Sides
  <2>3. net'["entry"] = net["entry"] /\ net'["dialer"] = net["dialer"]
    BY <1>0, <2>2, Zenon DEF Quiet
  <2> QED BY <1>0, <2>1, <2>3, Zenon DEF Quiet
<1> QED BY <1>2, <1>3, <1>4, <1>5, <1>6, <1>7, <1>8, Zenon DEF Next, Environment

\* What a step of the entry may leave alone.
Marks(r, t) == /\ DOMAIN t = DOMAIN r /\ t.logical = r.logical /\ t.closed = r.closed /\ t.success = r.success

\* A step that leaves the record, the channel and the timer alone.
LEMMA SameRecord ==
  ASSUME Fields, timer = "armed" => Recorded, UNCHANGED <<plan, timer, confirmed>>, Marks(relay.entry, relay'.entry)
  PROVE  Fields' /\ (timer' = "armed" => Recorded')
BY Zenon DEF Fields, Recorded, Marks

\* The entry's handler.
LEMMA EntryRecords ==
  ASSUME AllowedInv, RecordInv, Entry
  PROVE  Fields' /\ (timer' = "armed" => Recorded')
<1> DEFINE r == relay["entry"]  t == relay'["entry"]
<1>0. /\ DOMAIN relay = Sides /\ "entry" \in Sides /\ Fields /\ (timer = "armed" => Recorded)
      /\ {"inbox", "logical", "closed", "success", "cleanups"} \subseteq DOMAIN r
  BY Zenon DEF AllowedInv, TableInv, RecordInv, Fields, Sides
<1>1. ASSUME NEW x, Marks(r, x), NEW said, Leave(said, x) PROVE Marks(r, t)
  <2>1. t = Requeued(x, 1)
    BY <1>0, <1>1, Zenon DEF Leave
  <2> QED BY <1>0, <1>1, <2>1, Zenon DEF Requeued, Marks
<1>2. CASE Refuse
  BY <1>0, <1>2, SameRecord, Zenon DEF Refuse, Marks, history
<1>3. ASSUME NEW l \in Links, OpenChannel(l) PROVE Marks(r, t) /\ UNCHANGED <<plan, timer, confirmed>>
  <2>1. Marks(r, Reserve(l))
    BY <1>0, Zenon DEF Reserve, Marks
  <2>2. CASE relay' = [relay EXCEPT !.entry = Reserve(l)]
    <3>1. t = Reserve(l)
      BY <1>0, <2>2, Zenon
    <3> QED BY <1>3, <2>1, <3>1, Zenon DEF OpenChannel
  <2>3. CASE Leave("denied", Reserve(l))
    BY <1>1, <1>3, <2>1, <2>3, Zenon DEF OpenChannel
  <2>4. CASE UNCHANGED relay
    BY <1>3, <2>4, Zenon DEF OpenChannel, Marks
  <2> QED BY <1>3, <2>2, <2>3, <2>4, Zenon DEF OpenChannel
<1>4. Marks(r, [r EXCEPT !.socket = FALSE])
  BY <1>0, Zenon DEF Marks
<1>5. CASE OpenTransportFails \/ AwaitTimeout
  <2>1. Marks(r, t)
    BY <1>1, <1>4, <1>5, Zenon DEF OpenTransportFails, AwaitTimeout
  <2> QED BY <1>0, <1>5, <2>1, SameRecord, Zenon DEF OpenTransportFails, AwaitTimeout, history
<1>6. CASE WriteConnect
  <2>1. Quiet /\ UNCHANGED <<plan, confirmed>>
    BY <1>6, Zenon DEF WriteConnect, RecordInv, Early, history
  <2>2. CASE CanSend("entry")
    <3>1. relay' = [relay EXCEPT !.entry.logical = TRUE]
      BY <1>6, <2>2, Zenon DEF WriteConnect
    <3>2. DOMAIN t = DOMAIN r /\ t.logical
      BY <1>0, <3>1, Zenon
    <3>3. timer' = "armed" => plan.fastOpen
      BY <1>6, <2>2, Zenon DEF WriteConnect
    <3> QED BY <1>0, <2>1, <3>2, <3>3, Zenon DEF Fields, Quiet, Recorded
  <2>3. CASE ~CanSend("entry")
    <3>1. Leave(Unanswered("unreachable"), [r EXCEPT !.logical = TRUE, !.socket = FALSE]) /\ timer' = timer
      BY <1>6, <2>3, Zenon DEF WriteConnect
    <3>2. t = Requeued([r EXCEPT !.logical = TRUE, !.socket = FALSE], 1)
      BY <1>0, <3>1, Zenon DEF Leave
    <3>3. DOMAIN t = DOMAIN r /\ timer' # "armed"
      BY <2>1, <3>1, <3>2, Zenon DEF Requeued, Quiet
    <3> QED BY <1>0, <3>3, Zenon DEF Fields
  <2> QED BY <2>2, <2>3, Zenon
<1>7. CASE AwaitResponse
  <2> DEFINE rest == [r EXCEPT !.inbox = Tail(@)]
  <2>1. Marks(r, rest) /\ Marks(r, [rest EXCEPT !.socket = FALSE])
    BY <1>0, Zenon DEF Marks
  <2>2. relay' = [relay EXCEPT !.entry = rest] \/ Leave("unexpected", rest)
        \/ Leave(Unanswered("unreachable"), [rest EXCEPT !.socket = FALSE])
    BY <1>7, Zenon DEF AwaitResponse
  <2> HIDE DEF rest
  <2>3. Marks(r, t)
    BY <1>0, <1>1, <2>1, <2>2, Zenon
  <2> QED BY <1>0, <1>7, <2>3, SameRecord, Zenon DEF AwaitResponse, history
<1>8. CASE Reply
  <2>1. UNCHANGED <<plan, timer, confirmed>>
    BY <1>8, Zenon DEF Reply, history
  <2>2. CASE Leave("none", [r EXCEPT !.socket = FALSE])
    BY <1>0, <1>1, <1>4, <2>1, <2>2, SameRecord, Zenon
  <2>3. CASE relay' = [relay EXCEPT !.entry.logical = TRUE, !.entry.cancel = TRUE, !.entry.queue = TRUE,
                                    !.entry.inbox = IF relay.entry.queue THEN @ ELSE <<>>]
    <3>1. DOMAIN t = DOMAIN r
      BY <1>0, <2>3, Zenon DEF Sides
    <3>2. t.logical /\ t.closed = r.closed /\ t.success = r.success
      BY <1>0, <2>3, Zenon DEF Sides
    <3> QED BY <1>0, <2>1, <3>1, <3>2, Zenon DEF Fields, Recorded
  <2> QED BY <1>8, <2>2, <2>3, Zenon DEF Reply
<1>9. CASE WriteLocal
  <2>1. DOMAIN t = DOMAIN r
    BY <1>0, <1>9, Zenon DEF WriteLocal, Sides
  <2>2. t.logical = r.logical /\ t.closed = r.closed /\ t.success = r.success
    BY <1>0, <1>9, Zenon DEF WriteLocal, Sides
  <2> QED BY <1>0, <1>9, <2>1, <2>2, SameRecord, Zenon DEF WriteLocal, Marks, local
<1>10. CASE MonitorLocal
  <2>1. Marks(r, t)
    BY <1>0, <1>10, Zenon DEF MonitorLocal, Marks, Sides
  <2> QED BY <1>0, <1>10, <2>1, SameRecord, Zenon DEF MonitorLocal, local, history
<1>11. CASE EndForward
  <2>1. DOMAIN t = DOMAIN r
    BY <1>0, <1>11, Zenon DEF EndForward, Requeued, Sides
  <2>2. t.logical = r.logical /\ t.closed = r.closed /\ t.success = r.success
    BY <1>0, <1>11, Zenon DEF EndForward, Requeued, Sides
  <2> QED BY <1>0, <1>11, <2>1, <2>2, SameRecord, Zenon DEF EndForward, Marks, history
<1>12. CASE FastOpenTimeout
  <2>1. DOMAIN t = DOMAIN r
    BY <1>0, <1>12, Zenon DEF FastOpenTimeout, Requeued, Sides
  <2> QED BY <1>0, <1>12, <2>1, Zenon DEF FastOpenTimeout, Fields
<1> QED BY <1>0, <1>2, <1>3, <1>5, <1>6, <1>7, <1>8, <1>9, <1>10, <1>11, <1>12, SameRecord, Zenon DEF Entry

\* A success that reaches the entry is recorded in the same step; only the
\* queue of an encrypted channel takes it without a record.
LEMMA DispatchRecords ==
  ASSUME AllowedInv, RecordInv, plan.v2 => ~plan.fastOpen, HandleResponse \/ (\E l \in Links : EntryTakes(l))
  PROVE  Fields' /\ (timer' = "armed" => Recorded')
<1> DEFINE r == relay["entry"]  t == relay'["entry"]
<1>0. /\ DOMAIN relay = Sides /\ "entry" \in Sides /\ Fields /\ (timer = "armed" => Recorded)
      /\ {"inbox", "logical", "closed", "success", "cleanups"} \subseteq DOMAIN r
  BY Zenon DEF AllowedInv, TableInv, RecordInv, Fields, Sides
<1>1. UNCHANGED <<plan, timer>>
  BY Zenon DEF HandleResponse, EntryTakes, local
<1>2. \A m : Marks(r, Enqueued("entry", m)) /\ Marks(r, Buffered("entry", m))
  BY <1>0, Zenon DEF Enqueued, Buffered, Marks
<1>3. \A m : Marks(r, Delivered("entry", m))
  <2>1. \A m : Delivered("entry", m) \in {r, Enqueued("entry", m), Buffered("entry", m)}
    BY Zenon DEF Delivered
  <2> QED BY <1>2, <2>1, Zenon DEF Marks
<1>4. ASSUME NEW ok, relay' = [relay EXCEPT !.entry = Confirmed(ok)], Confirm(ok) PROVE Fields' /\ (timer' = "armed" => Recorded')
  <2>1. t = Confirmed(ok) /\ (confirmed' <=> confirmed \/ ok)
    BY <1>0, <1>4, Zenon DEF Confirm
  <2>2. CASE ok
    <3>1. DOMAIN t = DOMAIN r /\ t.logical = r.logical /\ t.closed = r.closed /\ t.success
      BY <1>0, <2>1, <2>2, Zenon DEF Confirmed
    <3> QED BY <1>0, <1>1, <3>1, Zenon DEF Fields, Recorded
  <2>3. CASE ~ok
    <3>1. DOMAIN t = DOMAIN r /\ t.logical = r.logical /\ t.closed = r.closed /\ t.success = r.success
      BY <1>0, <2>1, <2>3, Zenon DEF Confirmed, Requeued
    <3> QED BY <1>0, <1>1, <2>1, <2>3, <3>1, Zenon DEF Fields, Recorded
  <2> QED BY <2>2, <2>3, Zenon
<1>5. ASSUME ~plan.fastOpen, Marks(r, t) PROVE Fields' /\ (timer' = "armed" => Recorded')
  BY <1>0, <1>1, <1>5, Zenon DEF Fields, Recorded, Marks
<1>6. ASSUME NEW x, Marks(r, x), relay' = [relay EXCEPT !.entry = x] PROVE Marks(r, t)
  BY <1>0, <1>6, Zenon
<1>7. relay' = relay => Marks(r, t)
  BY Zenon DEF Marks
<1>8. CASE HandleResponse
  <2>1. CASE ~r.queue
    BY <1>0, <1>1, <1>7, <1>8, <2>1, SameRecord, Zenon DEF HandleResponse
  <2>2. CASE r.queue /\ plan.fastOpen
    BY <1>4, <1>8, <2>2, Zenon DEF HandleResponse
  <2>3. CASE r.queue /\ ~plan.fastOpen
    BY <1>2, <1>5, <1>6, <1>8, <2>3, Zenon DEF HandleResponse
  <2> QED BY <2>1, <2>2, <2>3, Zenon
<1>9. ASSUME NEW l \in Links, EntryTakes(l) PROVE Fields' /\ (timer' = "armed" => Recorded')
  <2> DEFINE m == Head(net["entry"][l])
  <2>1. CASE TakeResponse(m)
    <3>1. CASE plan.server = "entry"
      BY <1>0, <1>1, <1>7, <2>1, <3>1, SameRecord, Zenon DEF TakeResponse
    <3>2. CASE plan.server # "entry" /\ plan.fastOpen
      BY <1>4, <2>1, <3>2, Zenon DEF TakeResponse
    <3>3. CASE plan.server # "entry" /\ ~plan.fastOpen
      BY <1>2, <1>5, <1>6, <1>7, <2>1, <3>3, Zenon DEF TakeResponse
    <3> QED BY <3>1, <3>2, <3>3, Zenon
  <2>2. CASE plan.v2 /\ DeliverToQueue(m)
    BY <1>2, <1>5, <1>6, <1>7, <2>2, Zenon DEF DeliverToQueue
  <2>3. CASE relay' = [relay EXCEPT !.entry = Delivered("entry", m)] /\ UNCHANGED confirmed
    BY <1>0, <1>1, <1>3, <1>6, <2>3, SameRecord, Zenon
  <2>4. CASE /\ relay' = [relay EXCEPT !.entry = [Requeued(relay.entry, 1) EXCEPT !.closed = @ \/ (plan.v2 /\ plan.server # "entry")]]
             /\ UNCHANGED confirmed
    <3>1. DOMAIN t = DOMAIN r
      BY <1>0, <2>4, Zenon DEF Requeued, Sides
    <3>2. t.logical = r.logical /\ t.success = r.success
      BY <1>0, <2>4, Zenon DEF Requeued, Sides
    <3>3. t.closed <=> r.closed \/ (plan.v2 /\ plan.server # "entry")
      <4> DEFINE u == Requeued(r, 1)
      <4>1. "closed" \in DOMAIN u /\ u.closed = r.closed
        BY <1>0, Zenon DEF Requeued
      <4>2. t = [u EXCEPT !.closed = u.closed \/ (plan.v2 /\ plan.server # "entry")]
        BY <1>0, <2>4, Zenon
      <4> HIDE DEF u
      <4> QED BY <4>1, <4>2, Zenon
    <3> QED BY <1>0, <1>1, <2>4, <3>1, <3>2, <3>3, Zenon DEF Fields, Recorded
  <2> QED BY <1>9, <2>1, <2>2, <2>3, <2>4, Zenon DEF EntryTakes
<1> QED BY <1>8, <1>9, Zenon

\* The dialer has tables of its own.
LEMMA DialerRecords ==
  ASSUME AllowedInv, RecordInv, Dialer \/ WriteRemote \/ EndRemote \/ (\E l \in Links : DialerTakes(l))
  PROVE  Fields' /\ (timer' = "armed" => Recorded')
<1>0. DOMAIN relay = Sides /\ Fields /\ (timer = "armed" => Recorded)
  BY Zenon DEF AllowedInv, TableInv, RecordInv
<1>1. UNCHANGED <<plan, timer, confirmed>>
  BY Zenon DEF Dialer, StartDial, RefuseDial, DialFails, DialSucceeds, Respond, WriteRemote, EndRemote, DialerTakes, local, history
<1>2. relay'["entry"] = relay["entry"]
  <2>1. CASE StartDial \/ RefuseDial \/ DialFails \/ DialSucceeds
    BY <1>0, <2>1, Zenon DEF StartDial, RefuseDial, DialFails, DialSucceeds, Sides
  <2>2. CASE Respond
    BY <1>0, <2>2, Zenon DEF Respond, Sides
  <2>3. CASE WriteRemote \/ EndRemote
    BY <1>0, <2>3, Zenon DEF WriteRemote, EndRemote, Sides
  <2>4. ASSUME NEW l \in Links, DialerTakes(l) PROVE relay'["entry"] = relay["entry"]
    BY <1>0, <2>4, Zenon DEF DialerTakes, TakeConnect, Sides
  <2> QED BY <2>1, <2>2, <2>3, <2>4, Zenon DEF Dialer
<1> QED BY <1>0, <1>1, <1>2, SameRecord, Zenon DEF Marks

\* doCleanup drops the record of a channel that it closes.
LEMMA OthersRecord ==
  ASSUME AllowedInv, RecordInv, Housekeeping \/ Environment
  PROVE  Fields' /\ (timer' = "armed" => Recorded')
<1> DEFINE r == relay["entry"]  t == relay'["entry"]
<1>0. /\ DOMAIN relay = Sides /\ Fields /\ (timer = "armed" => Recorded)
      /\ {"inbox", "logical", "closed", "success", "cleanups"} \subseteq DOMAIN r
  BY Zenon DEF AllowedInv, TableInv, RecordInv, Fields
<1>1. UNCHANGED <<plan, timer, confirmed>>
  BY Zenon DEF Housekeeping, Cleanup, CleanIdle, ExpireOrphans, Environment, ReadLocal, ReadRemote, ClientLeaves, TargetEnds,
     SetAccessControl, LinkBreaks, local, history
<1>2. \A s \in Sides : s = "entry" \/ s = "dialer"
  BY Zenon DEF Sides
<1>3. Marks(r, t) => Fields' /\ (timer' = "armed" => Recorded')
  BY <1>0, <1>1, SameRecord, Zenon
<1>4. relay' = relay => Marks(r, t)
  BY Zenon DEF Marks
<1>5. CASE Cleanup("entry")
  <2>1. t = Cleaned(r)
    BY <1>0, <1>5, Zenon DEF Cleanup, Sides
  <2>2. DOMAIN t = DOMAIN r /\ (t.closed <=> r.closed \/ r.logical \/ plan.v2)
    BY <1>0, <2>1, Zenon DEF Cleaned
  <2> QED BY <1>0, <1>1, <2>2, Zenon DEF Fields, Recorded
<1>6. ASSUME NEW s \in Sides, CleanIdle(s) \/ ExpireOrphans(s) \/ (s = "dialer" /\ Cleanup(s)) PROVE Marks(r, t)
  <2>1. CASE s = "dialer"
    <3>1. t = r
      BY <1>0, <1>6, <2>1, Zenon DEF CleanIdle, ExpireOrphans, Cleanup, Sides
    <3> QED BY <3>1, Zenon DEF Marks
  <2>2. CASE s = "entry" /\ CleanIdle("entry")
    BY <1>0, <2>2, Zenon DEF CleanIdle, Marks, Sides
  <2>3. CASE s = "entry" /\ ExpireOrphans("entry")
    BY <1>0, <2>3, Zenon DEF ExpireOrphans, Marks, Sides
  <2> QED BY <1>2, <1>6, <2>1, <2>2, <2>3, Zenon
<1>7. CASE ReadLocal
  <2>1. \/ relay' = [relay EXCEPT !.entry.active = TRUE, !.entry.client = udp]
        \/ relay' = [relay EXCEPT !.entry.client = TRUE]
    BY <1>7, Zenon DEF ReadLocal
  <2>2. t = [r EXCEPT !.active = TRUE, !.client = udp] \/ t = [r EXCEPT !.client = TRUE]
    BY <1>0, <2>1, Zenon DEF Sides
  <2>3. Marks(r, t)
    BY <1>0, <2>2, Zenon DEF Marks
  <2> QED BY <1>3, <2>3, Zenon
<1>8. CASE ReadRemote
  <2>1. t = r
    BY <1>0, <1>8, Zenon DEF ReadRemote, Sides
  <2> QED BY <1>3, <2>1, Zenon DEF Marks
<1>9. CASE ClientLeaves \/ TargetEnds \/ SetAccessControl \/ (\E l \in Links : LinkBreaks(l))
  BY <1>3, <1>4, <1>9, Zenon DEF ClientLeaves, TargetEnds, SetAccessControl, LinkBreaks
<1> QED BY <1>2, <1>3, <1>5, <1>6, <1>7, <1>8, <1>9, Zenon DEF Housekeeping, Environment

\* Every step keeps the invariant, unless an encrypted channel is opened fast.
LEMMA RecordStep ==
  ASSUME \A p \in Plans : p.v2 => ~p.fastOpen, AllowedInv, RecordInv, [Next]_vars
  PROVE  RecordInv'
<1>0. plan.v2 => ~plan.fastOpen
  BY Zenon DEF AllowedInv, CheckInv
<1>1. Early' => Quiet'
  BY QuietStep, Zenon DEF RecordInv
<1>2. Fields' /\ (timer' = "armed" => Recorded')
  <2>1. CASE UNCHANGED vars
    BY <2>1, SameRecord, Zenon DEF vars, local, history, RecordInv, Marks
  <2>2. CASE Entry
    BY <2>2, EntryRecords, Zenon
  <2>3. CASE Dispatch
    BY <1>0, <2>3, DispatchRecords, DialerRecords, Zenon DEF Dispatch
  <2>4. CASE Dialer \/ WriteRemote \/ EndRemote
    BY <2>4, DialerRecords, Zenon
  <2>5. CASE Housekeeping \/ Environment
    BY <2>5, OthersRecord, Zenon
  <2> QED BY <2>1, <2>2, <2>3, <2>4, <2>5, Zenon DEF Next
<1> QED BY <1>1, <1>2, Zenon DEF RecordInv

\* The fast-open timer does not tear down a channel in use whose success has
\* reached the entry, for all plans but those that open an encrypted channel
\* fast, whose success goes to the queue unrecorded (relay.go, the goroutine of
\* HandleSocksRequest; local_proxy.go, armFastOpenTimeout).
THEOREM ConfirmedStaysHolds ==
  ASSUME \A p \in Plans : p.v2 => ~p.fastOpen
  PROVE  Spec => ConfirmedStays
<1>1. Init => AllowedInv
  BY AllowedInit, Zenon
<1>2. Init => RecordInv
  <2> SUFFICES ASSUME Init PROVE RecordInv
    BY Zenon
  <2>1. relay.entry = NewTables
    BY Zenon DEF Init, Sides
  <2>2. Fields
    BY <2>1, Zenon DEF Fields, NewTables
  <2>3. Quiet /\ timer # "armed"
    BY Zenon DEF Init, Quiet, Sides
  <2> QED BY <2>2, <2>3, Zenon DEF RecordInv
<1>3. AllowedInv /\ RecordInv /\ [Next]_vars => AllowedInv' /\ RecordInv'
  BY AllowedStep, RecordStep, Zenon
<1>4. AllowedInv /\ RecordInv /\ [Next]_vars =>
        [timer = "armed" /\ timer' = "fired" /\ confirmed /\ pc = "forward" /\ ~relay.entry.closed /\ relay.entry.cleanups = 0
           => relay'.entry.cleanups = 0]_vars
  <2> SUFFICES ASSUME AllowedInv, RecordInv, [Next]_vars, timer = "armed", timer' = "fired",
                      confirmed, ~relay.entry.closed, relay.entry.cleanups = 0
               PROVE  relay'.entry.cleanups = 0
    BY Zenon
  <2>1. relay.entry.success /\ DOMAIN relay = Sides /\ "cleanups" \in DOMAIN relay.entry
    BY Zenon DEF RecordInv, Recorded, Fields, AllowedInv, TableInv
  <2>2. FastOpenTimeout
    <3>1. timer' # timer
      BY Zenon
    <3>2. ~Dialer /\ ~WriteRemote /\ ~EndRemote /\ ~Dispatch /\ ~Housekeeping /\ ~Environment /\ ~UNCHANGED vars
      BY <3>1, Zenon DEF Dialer, StartDial, RefuseDial, DialFails, DialSucceeds, Respond, WriteRemote, EndRemote, Dispatch,
         HandleResponse, EntryTakes, DialerTakes, Housekeeping, Cleanup, CleanIdle, ExpireOrphans, Environment, ReadLocal, ReadRemote,
         ClientLeaves, TargetEnds, SetAccessControl, LinkBreaks, vars, local
    <3> QED BY <3>1, <3>2, Zenon DEF Next, Entry, Refuse, OpenChannel, OpenTransportFails, WriteConnect, AwaitResponse, AwaitTimeout,
         Reply, WriteLocal, MonitorLocal, EndForward, local
  <2>3. relay' = [relay EXCEPT !.entry = [relay.entry EXCEPT !.success = FALSE]]
    BY <2>1, <2>2, Zenon DEF FastOpenTimeout
  <2> QED BY <2>1, <2>3, Zenon DEF Sides
<1> QED BY <1>1, <1>2, <1>3, <1>4, PTL DEF Spec, ConfirmedStays
=============================================================================
