------------------------- MODULE ConnectorRelayProofs -------------------------
(* A relayed channel keeps its payloads in order and its replies once:         *)
(* BoundThenInOrder and ReplyKeptOnce of ConnectorRelay, for any number of     *)
(* links, payloads, drops and any queue size.                                  *)
EXTENDS ConnectorRelay, TLAPS

(* Payloads of the connector.  A bound channel has its orphan queue, so that *)
(* all payloads pass through it; one pump at most drains it, over a link     *)
(* that has got a bind message.                                              *)

Drains(q) == q.pc \notin {"none", "starting", "cleanup", "done"}
PumpOwn(q, active, w) ==
    /\ Drains(q) => active
    /\ q.pc \in {"none", "starting"} => q.pending = <<>> /\ q.rest = <<>>
    /\ ~q.closed => q.rest = <<>>
    /\ q.pc \in {"publish", "bind", "take", "replay", "forward"} => q.to \in Providers
    /\ q.pc \in {"take", "replay", "forward"} => \E i \in DOMAIN w : w[i].to = q.to /\ w[i].kind # "data"

PumpInv == QueueWhileBound /\ \A l \in Connectors : PumpOwn(pump[l], pumpActive, fwd)

(* They are numbered in the order in which they came.  What was written to   *)
(* the providers, the message whose write failed, what is left of a queue    *)
(* that was closed and the queue itself go up in this order.                 *)

Ascending(s) == \A i, j \in DOMAIN s : i < j => s[i] < s[j]
Below(s, t) == \A i \in DOMAIN s, j \in DOMAIN t : s[i] < t[j]
UpTo(s, n) == \A i \in DOMAIN s : s[i] <= n
Past(w, s) == \A i \in DOMAIN w, j \in DOMAIN s : w[i].kind = "data" => w[i].n < s[j]
Forwarded(w, n) ==
    /\ \A i \in DOMAIN w : w[i].kind = "data" => w[i].n <= n
    /\ \A i, j \in DOMAIN w : i < j /\ w[i].kind = "data" /\ w[j].kind = "data" => w[i].n < w[j].n
    /\ \A j \in DOMAIN w : w[j].kind = "data" => \E i \in 1 .. j - 1 : w[i].to = w[j].to /\ w[i].kind # "data"
Queued(w, n, s) == Ascending(s) /\ UpTo(s, n) /\ Past(w, s)
Kept(w, n, s, q) ==
    /\ Queued(w, n, q.pending) /\ Queued(w, n, q.rest)
    /\ Below(q.pending, q.rest) /\ Below(q.pending, s) /\ Below(q.rest, s)

OrderInv ==
    /\ Forwarded(fwd, Len(sent))
    /\ Queued(fwd, Len(sent), orphan.items)
    /\ \A l \in Connectors : Drains(pump[l]) => Kept(fwd, Len(sent), orphan.items, pump[l])

(* Replies.  They are in one place each: written, in the return queue, or in *)
(* the hands of a pump, a rebind or a provider's dispatcher.                 *)

Bins == {<<"ret", NoLink>>, <<"back", NoLink>>} \cup ({"pump", "rebind"} \X Connectors) \cup ({"in"} \X Providers)
InBin(b, r, k, pu, re, inb) ==
    CASE b[1] = "ret" -> r
      [] b[1] = "back" -> k.items
      [] b[1] = "pump" -> pu[b[2]].held
      [] b[1] = "rebind" -> re[b[2]].held
      [] b[1] = "in" -> IF inb[b[2]] = Idle THEN <<>> ELSE <<inb[b[2]].n>>
BinsOf(r, k, pu, re, inb) == [b \in Bins |-> InBin(b, r, k, pu, re, inb)]
bins == BinsOf(ret, back, pump, rebind, inbound)

Injective(s) == \A i, j \in DOMAIN s : s[i] = s[j] => i = j
Apart(f) ==
    /\ \A b \in Bins : Injective(f[b])
    /\ \A a, b \in Bins : a # b => Elems(f[a]) \cap Elems(f[b]) = {}
All(f) == UNION {Elems(f[b]) : b \in Bins}

ReplyInv ==
    /\ Apart(bins)
    /\ All(bins) \subseteq 0 .. produced
    /\ response.pc # "done" => 0 \notin All(bins)
    /\ lossy \/ 1 .. produced \subseteq All(bins)
    /\ \A l \in Connectors :
         /\ pump[l].held # <<>> <=> pump[l].pc = "replay"
         /\ rebind[l].held # <<>> <=> rebind[l].pc = "replay"
         /\ pump[l].held # <<>> \/ rebind[l].held # <<>> => lossy \/ back.on
    /\ \A p \in Providers : inbound[p].n = -1 => inbound[p] = Idle

(* A link rebinds channels once it is registered.                          *)
LinkInv == \A l \in Connectors : link[l] = "new" => rebind[l].pc = "none"

IInv == TypeOK /\ PumpInv /\ OrderInv /\ ReplyInv /\ LinkInv

-----------------------------------------------------------------------------
(* Sequences of numbers and what they hold.                                *)

\* Taking the first element off.
LEMMA TailHolds ==
  ASSUME NEW s \in Seq(Nat), s # <<>>, Injective(s)
  PROVE  /\ Tail(s) \in Seq(Nat) /\ Head(s) \in Nat /\ Injective(Tail(s))
         /\ Head(s) \notin Elems(Tail(s)) /\ Elems(s) = Elems(Tail(s)) \cup {Head(s)}
<1>1. /\ Tail(s) \in Seq(Nat) /\ Head(s) \in Nat /\ Head(s) = s[1] /\ 1 \in DOMAIN s
      /\ \A i \in DOMAIN Tail(s) : i + 1 \in DOMAIN s /\ Tail(s)[i] = s[i + 1] /\ i + 1 # 1
  OBVIOUS
<1>2. \A i \in DOMAIN s : i = 1 \/ (i - 1 \in DOMAIN Tail(s) /\ Tail(s)[i - 1] = s[i])
  OBVIOUS
<1>3. Injective(Tail(s))
  <2> SUFFICES ASSUME NEW i \in DOMAIN Tail(s), NEW j \in DOMAIN Tail(s), Tail(s)[i] = Tail(s)[j] PROVE i = j
    BY Zenon DEF Injective
  <2>1. i + 1 = j + 1
    BY <1>1, Zenon DEF Injective
  <2>2. i \in Nat /\ j \in Nat
    BY <1>1
  <2> QED BY <2>1, <2>2
<1>4. Head(s) \notin Elems(Tail(s))
  <2> SUFFICES ASSUME NEW i \in DOMAIN Tail(s), Head(s) = Tail(s)[i] PROVE FALSE
    BY Zenon DEF Elems
  <2>1. i + 1 \in DOMAIN s /\ 1 \in DOMAIN s /\ s[i + 1] = s[1] /\ i + 1 # 1
    BY <1>1, Zenon
  <2> QED BY <2>1, Zenon DEF Injective
<1>5. Elems(s) = Elems(Tail(s)) \cup {Head(s)}
  <2>1. ASSUME NEW x \in Elems(s) PROVE x \in Elems(Tail(s)) \cup {Head(s)}
    <3>1. PICK i \in DOMAIN s : x = s[i]
      BY Zenon DEF Elems
    <3> QED BY <1>1, <1>2, <3>1, Zenon DEF Elems
  <2>2. ASSUME NEW x \in Elems(Tail(s)) PROVE x \in Elems(s)
    <3>1. PICK i \in DOMAIN Tail(s) : x = Tail(s)[i]
      BY Zenon DEF Elems
    <3>2. i + 1 \in DOMAIN s /\ x = s[i + 1]
      BY <1>1, <3>1, Zenon
    <3> QED BY <3>2, Zenon DEF Elems
  <2>3. Head(s) \in Elems(s)
    BY <1>1, Zenon DEF Elems
  <2> QED BY <2>1, <2>2, <2>3, Zenon
<1> QED BY <1>1, <1>3, <1>4, <1>5, Zenon

\* One more element.
LEMMA AppendHolds ==
  ASSUME NEW s \in Seq(Nat), NEW x \in Nat
  PROVE  /\ Append(s, x) \in Seq(Nat) /\ Elems(Append(s, x)) = Elems(s) \cup {x}
         /\ Injective(s) /\ x \notin Elems(s) => Injective(Append(s, x))
<1> DEFINE t == Append(s, x)
<1>1. /\ t \in Seq(Nat) /\ Len(s) + 1 \in DOMAIN t /\ t[Len(s) + 1] = x
      /\ \A i \in DOMAIN t : i = Len(s) + 1 \/ (i \in DOMAIN s /\ t[i] = s[i])
      /\ \A i \in DOMAIN s : i \in DOMAIN t /\ t[i] = s[i]
  OBVIOUS
<1> HIDE DEF t
<1>2. Elems(t) = Elems(s) \cup {x}
  <2>1. ASSUME NEW y \in Elems(t) PROVE y \in Elems(s) \cup {x}
    BY <1>1, Zenon DEF Elems
  <2>2. ASSUME NEW y \in Elems(s) \cup {x} PROVE y \in Elems(t)
    BY <1>1, Zenon DEF Elems
  <2> QED BY <2>1, <2>2, Zenon
<1>3. Injective(s) /\ x \notin Elems(s) => Injective(t)
  BY <1>1, Zenon DEF Injective, Elems
<1> QED BY <1>1, <1>2, <1>3, Zenon DEF t

\* A sequence and one behind it.
LEMMA Joined ==
  ASSUME NEW S, NEW s \in Seq(S), NEW t \in Seq(S)
  PROVE  /\ s \o t \in Seq(S) /\ Len(s \o t) = Len(s) + Len(t)
         /\ \A i \in 1 .. Len(s) + Len(t) : (s \o t)[i] = IF i <= Len(s) THEN s[i] ELSE t[i - Len(s)]
OBVIOUS

\* One sequence after another, and the beginning of one.
LEMMA ConcatHolds ==
  ASSUME NEW s \in Seq(Nat), NEW t \in Seq(Nat)
  PROVE  /\ s \o t \in Seq(Nat) /\ Len(s \o t) = Len(s) + Len(t) /\ Elems(s \o t) = Elems(s) \cup Elems(t)
         /\ Injective(s) /\ Injective(t) /\ Elems(s) \cap Elems(t) = {} => Injective(s \o t)
<1> DEFINE u == s \o t
<1>1. /\ u \in Seq(Nat) /\ Len(u) = Len(s) + Len(t)
      /\ \A i \in 1 .. Len(s) + Len(t) : u[i] = IF i <= Len(s) THEN s[i] ELSE t[i - Len(s)]
  BY Joined
<1> HIDE DEF u
<1>2. /\ \A i \in DOMAIN u : (i \in DOMAIN s /\ u[i] = s[i]) \/ (i - Len(s) \in DOMAIN t /\ u[i] = t[i - Len(s)])
      /\ \A i \in DOMAIN s : i \in DOMAIN u /\ u[i] = s[i]
      /\ \A i \in DOMAIN t : i + Len(s) \in DOMAIN u /\ u[i + Len(s)] = t[i]
      /\ \A i, j \in DOMAIN u : i - Len(s) = j - Len(s) => i = j
  BY <1>1
<1>3. Elems(u) = Elems(s) \cup Elems(t)
  <2>1. ASSUME NEW y \in Elems(u) PROVE y \in Elems(s) \cup Elems(t)
    <3>1. PICK i \in DOMAIN u : y = u[i]
      BY Zenon DEF Elems
    <3> QED BY <1>2, <3>1 DEF Elems
  <2>2. ASSUME NEW y \in Elems(s) PROVE y \in Elems(u)
    BY <1>2, Zenon DEF Elems
  <2>3. ASSUME NEW y \in Elems(t) PROVE y \in Elems(u)
    <3>1. PICK i \in DOMAIN t : y = t[i]
      BY Zenon DEF Elems
    <3> QED BY <1>2, <3>1 DEF Elems
  <2> QED BY <2>1, <2>2, <2>3, Zenon
<1>4. ASSUME Injective(s), Injective(t), Elems(s) \cap Elems(t) = {} PROVE Injective(u)
  <2>1. \A i \in DOMAIN s, j \in DOMAIN t : s[i] # t[j]
    BY <1>4, Zenon DEF Elems
  <2> SUFFICES ASSUME NEW i \in DOMAIN u, NEW j \in DOMAIN u, u[i] = u[j] PROVE i = j
    BY Zenon DEF Injective
  <2>2. CASE i \in DOMAIN s /\ u[i] = s[i]
    <3>1. j \in DOMAIN s /\ u[j] = s[j]
      <4>1. ASSUME j - Len(s) \in DOMAIN t, u[j] = t[j - Len(s)] PROVE FALSE
        BY <2>1, <2>2, <4>1, Zenon
      <4> QED BY <1>2, <4>1, Zenon
    <3> QED BY <1>4, <2>2, <3>1, Zenon DEF Injective
  <2>3. CASE i - Len(s) \in DOMAIN t /\ u[i] = t[i - Len(s)]
    BY <1>2, <1>4, <2>1, <2>3, Zenon DEF Injective
  <2> QED BY <1>2, <2>2, <2>3, Zenon
<1> QED BY <1>1, <1>3, <1>4, Zenon DEF u

\* What is cut off at the size of the queue leaves the front of it as it was.
LEMMA PrefixHolds ==
  ASSUME NEW s \in Seq(Nat), NEW n \in Nat, n <= Len(s)
  PROVE  /\ SubSeq(s, 1, n) \in Seq(Nat) /\ Len(SubSeq(s, 1, n)) = n /\ Elems(SubSeq(s, 1, n)) \subseteq Elems(s)
         /\ Injective(s) => Injective(SubSeq(s, 1, n))
<1> DEFINE t == SubSeq(s, 1, n)
<1>1. t \in Seq(Nat) /\ Len(t) = n /\ \A i \in DOMAIN t : i \in DOMAIN s /\ t[i] = s[i]
  OBVIOUS
<1> HIDE DEF t
<1> QED BY <1>1, Zenon DEF Elems, Injective, t

\* Nothing, and one element.
LEMMA FewHold ==
  /\ Elems(<<>>) = {} /\ Injective(<<>>) /\ <<>> \in Seq(Nat)
  /\ \A x \in Nat : <<x>> \in Seq(Nat) /\ Elems(<<x>>) = {x} /\ Injective(<<x>>) /\ <<x>> # <<>> /\ Head(<<x>>) = x /\ Tail(<<x>>) = <<>>
<1>1. DOMAIN <<>> = {} /\ <<>> \in Seq(Nat)
  OBVIOUS
<1>2. ASSUME NEW x \in Nat
      PROVE  <<x>> \in Seq(Nat) /\ DOMAIN <<x>> = {1} /\ <<x>>[1] = x /\ <<x>> # <<>> /\ Head(<<x>>) = x /\ Tail(<<x>>) = <<>>
  OBVIOUS
<1>3. ASSUME NEW x \in Nat PROVE Elems(<<x>>) = {x} /\ Injective(<<x>>)
  BY <1>2 DEF Elems, Injective
<1>4. Elems(<<>>) = {} /\ Injective(<<>>)
  BY <1>1, Zenon DEF Elems, Injective
<1> QED BY <1>1, <1>2, <1>3, <1>4, Zenon

-----------------------------------------------------------------------------
(* What a step may do to the bins.                                         *)

\* Bins are emptied.
LEMMA Empties ==
  ASSUME NEW f, NEW g, Apart(f), \A b \in Bins : g[b] = f[b] \/ g[b] = <<>>
  PROVE  Apart(g) /\ All(g) \subseteq All(f)
<1>1. \A b \in Bins : Injective(g[b]) /\ Elems(g[b]) \subseteq Elems(f[b])
  BY FewHold, Zenon DEF Apart
<1>2. All(g) \subseteq All(f)
  BY <1>1, Zenon DEF All
<1> QED BY <1>1, <1>2, Zenon DEF Apart

\* All of y goes to x, which was empty.
LEMMA Takes ==
  ASSUME NEW f, NEW g, Apart(f), NEW x \in Bins, NEW y \in Bins, x # y, f[x] = <<>>, g[x] = f[y], g[y] = <<>>,
         \A b \in Bins : b # x /\ b # y => g[b] = f[b]
  PROVE  Apart(g) /\ All(g) = All(f)
<1>1. Elems(f[x]) = {} /\ Elems(g[y]) = {} /\ Injective(g[y])
  BY FewHold, Zenon
<1>2. \A b \in Bins : Injective(g[b])
  BY <1>1, Zenon DEF Apart
<1>3. ASSUME NEW a \in Bins, NEW b \in Bins, a # b PROVE Elems(g[a]) \cap Elems(g[b]) = {}
  BY <1>1, <1>3, Zenon DEF Apart
<1>4. All(g) = All(f)
  <2>1. ASSUME NEW v \in All(g) PROVE v \in All(f)
    BY <1>1, Zenon DEF All
  <2>2. ASSUME NEW v \in All(f) PROVE v \in All(g)
    BY <1>1, Zenon DEF All
  <2> QED BY <2>1, <2>2, Zenon
<1> QED BY <1>2, <1>3, <1>4, Zenon DEF Apart

RetBin == <<"ret", NoLink>>
BackBin == <<"back", NoLink>>
PumpBin(l) == <<"pump", l>>
RebindBin(l) == <<"rebind", l>>
DataBin(p) == <<"in", p>>

Filled(f, r, k, pu, re, inb) ==
  /\ f \in [Bins -> Seq(Nat)] /\ f[RetBin] = r /\ f[BackBin] = k.items
  /\ \A l \in Connectors : f[PumpBin(l)] = pu[l].held /\ f[RebindBin(l)] = re[l].held
  /\ \A p \in Providers : f[DataBin(p)] = IF inb[p] = Idle THEN <<>> ELSE <<inb[p].n>>

\* The bins of a state.
LEMMA BinsAre ==
  ASSUME NEW r \in Seq(Nat), NEW k, k.items \in Seq(Nat), NEW pu, NEW re, NEW inb,
         \A l \in Connectors : pu[l].held \in Seq(Nat) /\ re[l].held \in Seq(Nat),
         \A p \in Providers : inb[p] = Idle \/ inb[p].n \in Nat
  PROVE  Filled(BinsOf(r, k, pu, re, inb), r, k, pu, re, inb)
<1> DEFINE f == BinsOf(r, k, pu, re, inb)
<1>1. \A b \in Bins : \/ b = <<"ret", NoLink>> \/ b = <<"back", NoLink>>
                      \/ \E l \in Connectors : b = <<"pump", l>> \/ b = <<"rebind", l>>
                      \/ \E p \in Providers : b = <<"in", p>>
  BY DEF Bins
<1>2. /\ <<"ret", NoLink>> \in Bins /\ <<"back", NoLink>> \in Bins
      /\ \A l \in Connectors : <<"pump", l>> \in Bins /\ <<"rebind", l>> \in Bins
      /\ \A p \in Providers : <<"in", p>> \in Bins
  BY DEF Bins
<1>3. f[<<"ret", NoLink>>] = r
  BY <1>2 DEF BinsOf, InBin
<1>4. f[<<"back", NoLink>>] = k.items
  BY <1>2 DEF BinsOf, InBin
<1>5. ASSUME NEW l \in Connectors PROVE f[<<"pump", l>>] = pu[l].held
  BY <1>2 DEF BinsOf, InBin
<1>6. ASSUME NEW l \in Connectors PROVE f[<<"rebind", l>>] = re[l].held
  BY <1>2 DEF BinsOf, InBin
<1>7. ASSUME NEW p \in Providers PROVE f[<<"in", p>>] = IF inb[p] = Idle THEN <<>> ELSE <<inb[p].n>>
  BY <1>2 DEF BinsOf, InBin
<1>8. \A p \in Providers : f[<<"in", p>>] \in Seq(Nat)
  BY <1>7, FewHold, Zenon
<1>9. f = [b \in Bins |-> f[b]]
  BY DEF BinsOf
<1> HIDE DEF f
<1>10. \A b \in Bins : f[b] \in Seq(Nat)
  BY <1>1, <1>3, <1>4, <1>5, <1>6, <1>8, Zenon
<1>11. f \in [Bins -> Seq(Nat)]
  BY <1>9, <1>10, Zenon
<1> QED BY <1>3, <1>4, <1>5, <1>6, <1>7, <1>11, Zenon DEF f, Filled, RetBin, BackBin, PumpBin, RebindBin, DataBin

-----------------------------------------------------------------------------
(* Types.                                                                  *)

\* The parts of the type invariant that most steps leave alone.
LinkTypes == link \in [Links -> {"new", "up", "broken", "gone"}] /\ ponged \subseteq Connectors
             /\ grace \in [Links -> [pc : {"off", "armed", "expiring"}, peer : Links \cup {NoLink}]]
MapTypes == /\ toConnector \in Connector /\ toClient \in Provider /\ cached \in BOOLEAN /\ pumpActive \in BOOLEAN
            /\ closing \in {"no", "connector", "provider", "done"} /\ told \subseteq Links
QueueTypes == /\ orphan \in Queue /\ Len(orphan.items) <= QueueSize /\ (~orphan.on => orphan = NoQueue)
              /\ back \in Queue /\ Len(back.items) <= QueueSize /\ (~back.on => back = NoQueue)
HandTypes == /\ pump \in [Connectors -> Pump] /\ rebind \in [Connectors -> Rebind]
             /\ inbound \in [Providers -> [n : Nat \cup {-1}, target : Connector]]
             /\ response \in [pc : {"none", "lookup", "write", "done"}, target : Connector]
TraceTypes == /\ sent \in Seq(Connectors) /\ produced \in Nat /\ ret \in Seq(Nat) /\ lossy \in BOOLEAN
              /\ fwd \in Seq([to : Providers, kind : {"connect", "resume", "data"}, n : Nat])

\* They make up the type invariant.
LEMMA TypeParts == TypeOK <=> LinkTypes /\ MapTypes /\ QueueTypes /\ HandTypes /\ TraceTypes
BY Zenon DEF TypeOK, LinkTypes, MapTypes, QueueTypes, HandTypes, TraceTypes

\* The queues are filled up to their size and no further.
LEMMA QueueOps ==
  ASSUME NEW q \in Queue, Len(q.items) <= QueueSize, NEW n \in Nat
  PROVE  /\ Reserved(q) \in Queue /\ Reserved(q).on /\ Len(Reserved(q).items) <= QueueSize
         /\ Put(q, n) \in Queue /\ Put(q, n).on = q.on /\ Len(Put(q, n).items) <= QueueSize
<1>1. QueueSize \in Nat /\ q.items \in Seq(Nat) /\ Append(q.items, n) \in Seq(Nat) /\ <<>> \in Seq(Nat)
  BY RelayAssumption DEF Queue
<1>2. Reserved(q) \in Queue /\ Reserved(q).on /\ Len(Reserved(q).items) <= QueueSize
  BY <1>1 DEF Reserved, Queue
<1>3. CASE Len(q.items) < QueueSize
  <2>1. Put(q, n) = [q EXCEPT !.items = Append(q.items, n)]
    BY <1>3, Zenon DEF Put
  <2>2. Len(Append(q.items, n)) = Len(q.items) + 1
    BY <1>1
  <2> DEFINE a == Append(q.items, n)
  <2> HIDE DEF a
  <2>3. Len(a) <= QueueSize
    BY <1>1, <1>3, <2>2 DEF a
  <2>4. [q EXCEPT !.items = a] \in Queue /\ [q EXCEPT !.items = a].on = q.on /\ [q EXCEPT !.items = a].items = a
    BY <1>1 DEF Queue, a
  <2> QED BY <1>2, <2>1, <2>3, <2>4 DEF a
<1>4. CASE ~(Len(q.items) < QueueSize)
  BY <1>2, <1>4, Zenon DEF Put
<1> QED BY <1>3, <1>4, Zenon

\* A pump that does what it does to its queue when the queue is closed.
LEMMA ClosedPumps ==
  ASSUME TypeOK, NEW pumps \in [Connectors -> Pump]
  PROVE  /\ Closed(pumps) \in [Connectors -> Pump]
         /\ \A l \in Connectors :
              \/ Closed(pumps)[l] = pumps[l]
              \/ /\ Closed(pumps)[l] = [pumps[l] EXCEPT !.closed = TRUE, !.rest = orphan.items]
                 /\ HoldsQueue(l) /\ ~pumps[l].closed /\ orphan.on
<1>1. orphan.items \in Seq(Nat)
  BY DEF TypeOK, Queue
<1>2. \A l \in Connectors : pumps[l] \in Pump
  OBVIOUS
<1>3. \A q \in Pump : [q EXCEPT !.closed = TRUE, !.rest = orphan.items] \in Pump
  BY <1>1 DEF Pump
<1>4. \A l \in Connectors :
        \/ Closed(pumps)[l] = pumps[l]
        \/ /\ Closed(pumps)[l] = [pumps[l] EXCEPT !.closed = TRUE, !.rest = orphan.items]
           /\ HoldsQueue(l) /\ ~pumps[l].closed /\ orphan.on
  BY Zenon DEF Closed
<1>5. \A l \in Connectors : Closed(pumps)[l] \in Pump
  BY <1>2, <1>3, <1>4, Zenon
<1>6. Closed(pumps) = [l \in Connectors |-> Closed(pumps)[l]]
  BY DEF Closed
<1> QED BY <1>4, <1>5, <1>6, Zenon

\* The links' types.
LEMMA LinkTypesKept == TypeOK /\ Next => LinkTypes'
<1> SUFFICES ASSUME LinkTypes, MapTypes, Next PROVE LinkTypes'
  BY TypeParts, Zenon
<1>1. UNCHANGED <<link, ponged, grace>> => LinkTypes'
  BY Zenon DEF LinkTypes
<1>2. ASSUME NEW l \in Connectors, RegisterConnector(l) \/ PongArrives(l) PROVE LinkTypes'
  BY <1>2 DEF LinkTypes, RegisterConnector, PongArrives, Links
<1>3. ASSUME NEW p \in Providers, RegisterProvider(p) PROVE LinkTypes'
  BY <1>3 DEF LinkTypes, RegisterProvider, Links
<1>4. ASSUME NEW w \in Links, LinkBreaks(w) PROVE LinkTypes'
  BY <1>4 DEF LinkTypes, LinkBreaks
<1>5. ASSUME NEW w \in Links, LinkDeparts(w) PROVE LinkTypes'
  BY <1>5 DEF LinkTypes, LinkDeparts
<1>6. ASSUME NEW w \in Links, GraceFires(w) PROVE LinkTypes'
  BY <1>6 DEF LinkTypes, MapTypes, GraceFires, Connector, Provider, Links
<1>7. ASSUME NEW w \in Links, GraceExpires(w) PROVE LinkTypes'
  BY <1>7 DEF LinkTypes, GraceExpires
<1> QED BY <1>1, <1>2, <1>3, <1>4, <1>5, <1>6, <1>7, ZenonT(40)
        DEF Next, LinkStep, PumpStep, RebindStep, ResponseStep, linkVars, pumpFrame, ConnectArrives,
            RouteConnectorPayload, DisconnectArrives, PumpStarts, PumpDenied, PumpLoops, PumpPicks, PumpTimesOut,
            PumpPublishes, PumpBinds, PumpTakes, PumpReplays, PumpForwards, PumpSeesClose, PumpRetires, PumpCleansUp,
            RebindScans, RebindChecks, RebindTakes, RebindReplays, ResponseArrives, DataArrives, DataWrites,
            ProviderDisconnectArrives, ResponseLooksUp, ResponseWrites, DisconnectRuns, ExpireOrphanData,
            ExpireConnectorReturn

\* The types of the cache's maps.
LEMMA MapTypesKept == IInv /\ Next => MapTypes'
<1> SUFFICES ASSUME IInv, LinkTypes, MapTypes, HandTypes, Next PROVE MapTypes'
  BY TypeParts, Zenon DEF IInv
<1>1. UNCHANGED <<toConnector, toClient, cached, pumpActive, closing, told>> => MapTypes'
  BY Zenon DEF MapTypes
<1>2. ASSUME NEW l \in Connectors, RebindChecks(l) PROVE MapTypes'
  BY <1>2, Zenon DEF MapTypes, RebindChecks, Connector
<1>3. ASSUME NEW l \in Connectors, DisconnectArrives(l) PROVE MapTypes'
  BY <1>3 DEF MapTypes, DisconnectArrives, cacheVars
<1>4. ASSUME NEW l \in Connectors, PumpStarts(l) \/ PumpDenied(l) \/ PumpRetires(l) PROVE MapTypes'
  BY <1>4, Zenon DEF MapTypes, PumpStarts, PumpDenied, PumpRetires, pumpFrame, Connector
<1>5. ASSUME NEW l \in Connectors, PumpPublishes(l) PROVE MapTypes'
  <2>1. pump[l].to \in Provider
    BY DEF HandTypes, Pump
  <2> QED BY <1>5, <2>1 DEF MapTypes, PumpPublishes, pumpFrame, Connector
<1>6. ASSUME NEW l \in Connectors, PumpCleansUp(l) PROVE MapTypes'
  BY <1>6, Zenon DEF MapTypes, PumpCleansUp, CleanupConnectorChannel, pumpFrame, Connector, Provider
<1>7. ASSUME NEW w \in Links, GraceExpires(w) PROVE MapTypes'
  BY <1>7, Zenon DEF MapTypes, GraceExpires, CleanupConnectorChannel, Connector, Provider, Writes
<1>8. ASSUME DisconnectRuns PROVE MapTypes'
  <2>1. closing' \in {"no", "connector", "provider", "done"}
    BY <1>8 DEF DisconnectRuns
  <2> QED BY <1>8, <2>1, Zenon DEF MapTypes, DisconnectRuns, CleanupConnectorChannel, Connector, Provider, Writes
<1>9. ASSUME NEW p \in Providers, ProviderDisconnectArrives(p) PROVE MapTypes'
  BY <1>9 DEF MapTypes, ProviderDisconnectArrives, cacheVars
<1> QED BY <1>1, <1>2, <1>3, <1>4, <1>5, <1>6, <1>7, <1>8, <1>9, Zenon
        DEF Next, LinkStep, PumpStep, RebindStep, ResponseStep, cacheVars, pumpFrame, RegisterConnector,
            RegisterProvider, PongArrives, LinkBreaks, LinkDeparts, GraceFires, ConnectArrives, RouteConnectorPayload,
            PumpLoops, PumpPicks, PumpTimesOut, PumpBinds, PumpTakes, PumpReplays, PumpForwards, PumpSeesClose,
            RebindScans, RebindTakes, RebindReplays, ResponseArrives, DataArrives, DataWrites, ResponseLooksUp,
            ResponseWrites, ExpireOrphanData, ExpireConnectorReturn

\* A queue that is not there.
LEMMA NoQueueIs == NoQueue \in Queue /\ Len(NoQueue.items) <= QueueSize /\ NoQueue.items = <<>> /\ ~NoQueue.on
<1>1. <<>> \in Seq(Nat) /\ Len(<<>>) = 0 /\ 0 <= QueueSize
  BY RelayAssumption
<1> DEFINE e == <<>>
<1> HIDE DEF e
<1>2. [on |-> FALSE, items |-> e, timer |-> FALSE] \in Queue /\ [on |-> FALSE, items |-> e, timer |-> FALSE].items = e
      /\ ~[on |-> FALSE, items |-> e, timer |-> FALSE].on
  BY <1>1 DEF Queue, e
<1> QED BY <1>1, <1>2 DEF NoQueue, e

\* A queue's fields.
LEMMA QueueFields == \A q \in Queue : q.items \in Seq(Nat) /\ q.on \in BOOLEAN
BY DEF Queue

\* A queue with other items,
LEMMA QueueItems ==
  \A q \in Queue, s \in Seq(Nat) :
    [q EXCEPT !.items = s] \in Queue /\ [q EXCEPT !.items = s].items = s /\ [q EXCEPT !.items = s].on = q.on
BY DEF Queue

\* ... without its timer,
LEMMA QueueTimer ==
  \A q \in Queue :
    /\ [q EXCEPT !.timer = FALSE] \in Queue /\ [q EXCEPT !.timer = FALSE].items = q.items
    /\ [q EXCEPT !.timer = FALSE].on = q.on
BY DEF Queue

\* ... or made anew by the pump that takes it.
LEMMA QueueTaken ==
  \A s \in Seq(Nat) :
    LET q == [on |-> TRUE, items |-> s, timer |-> FALSE] IN q \in Queue /\ q.items = s /\ q.on
BY DEF Queue

\* The requeued replies.
LEMMA RequeueType ==
  ASSUME QueueTypes, NEW held \in Seq(Nat), Requeue(held)
  PROVE  /\ back' \in Queue /\ Len(back'.items) <= QueueSize /\ back'.on = back.on /\ (~back.on => back' = back)
         /\ back.on => LET m == held \o back.items IN
                       back'.items = IF Len(m) <= QueueSize THEN m ELSE SubSeq(m, 1, QueueSize)
<1> DEFINE m == held \o back.items
           c == IF Len(m) <= QueueSize THEN m ELSE SubSeq(m, 1, QueueSize)
<1>0. back \in Queue /\ back.items \in Seq(Nat) /\ QueueSize \in Nat /\ Len(back.items) <= QueueSize
  BY RelayAssumption DEF QueueTypes, Queue
<1>1. m \in Seq(Nat)
  BY <1>0, ConcatHolds, Zenon
<1>2. back' = IF back.on THEN [back EXCEPT !.items = c] ELSE back
  BY Zenon DEF Requeue
<1>3. c \in Seq(Nat) /\ Len(c) <= QueueSize
  <2> HIDE DEF m
  <2>1. Len(m) \in Nat
    BY <1>1
  <2>2. CASE Len(m) <= QueueSize
    BY <1>1, <2>2, Zenon
  <2>3. CASE ~(Len(m) <= QueueSize)
    <3>1. QueueSize <= Len(m)
      BY <1>0, <2>1, <2>3
    <3>2. SubSeq(m, 1, QueueSize) \in Seq(Nat) /\ Len(SubSeq(m, 1, QueueSize)) = QueueSize
      BY <1>0, <1>1, <3>1, PrefixHolds, Zenon
    <3>3. Len(SubSeq(m, 1, QueueSize)) <= QueueSize
      BY <1>0, <3>2
    <3> QED BY <2>3, <3>2, <3>3, Zenon
  <2> QED BY <2>2, <2>3, Zenon
<1>5. back.on => back'.items = c
  <2> HIDE DEF c
  <2> QED BY <1>0, <1>2, <1>3, QueueItems, Zenon
<1>4. back' \in Queue /\ Len(back'.items) <= QueueSize /\ back'.on = back.on /\ (~back.on => back' = back)
  <2> HIDE DEF c
  <2>1. CASE back.on
    <3>1. back' = [back EXCEPT !.items = c]
      BY <1>2, <2>1, Zenon
    <3> QED BY <1>0, <1>3, <2>1, <3>1, QueueItems, Zenon
  <2>2. CASE ~back.on
    BY <1>0, <1>2, <2>2, Zenon
  <2> QED BY <2>1, <2>2, Zenon
<1> QED BY <1>4, <1>5, Zenon

\* The types of the two queues.
LEMMA QueueTypesKept == IInv /\ Next => QueueTypes'
<1> SUFFICES ASSUME IInv, MapTypes, QueueTypes, HandTypes, TraceTypes, Next PROVE QueueTypes'
  BY TypeParts, Zenon DEF IInv
<1> DEFINE Good(q) == q \in Queue /\ Len(q.items) <= QueueSize /\ (~q.on => q = NoQueue)
<1>0. Good(orphan) /\ Good(back) /\ (Good(orphan') /\ Good(back') => QueueTypes')
  BY Zenon DEF QueueTypes
<1>a. Good(NoQueue)
  BY NoQueueIs, Zenon
<1>b. ASSUME NEW q, Good(q), NEW n \in Nat PROVE Good(Reserved(q)) /\ Good(Put(Reserved(q), n))
  <2>1. Reserved(q) \in Queue /\ Reserved(q).on /\ Len(Reserved(q).items) <= QueueSize
    BY <1>b, QueueOps, Zenon
  <2> QED BY <1>b, <2>1, QueueOps, Zenon
<1>c. ASSUME NEW q, Good(q) PROVE Good([q EXCEPT !.items = <<>>])
  <2>1. <<>> \in Seq(Nat) /\ Len(<<>>) = 0 /\ 0 <= QueueSize
    BY RelayAssumption
  <2> DEFINE e == <<>>
  <2> HIDE DEF e
  <2>2. [q EXCEPT !.items = e] \in Queue /\ [q EXCEPT !.items = e].items = e /\ [q EXCEPT !.items = e].on = q.on
    BY <1>c, <2>1, QueueItems, Zenon DEF e
  <2>3. Len([q EXCEPT !.items = e].items) <= QueueSize
    BY <2>1, <2>2 DEF e
  <2>4. ~q.on => [q EXCEPT !.items = <<>>] = q
    BY <1>c DEF NoQueue
  <2> QED BY <1>c, <2>2, <2>3, <2>4, Zenon DEF e
<1>1. UNCHANGED <<orphan, back>> => QueueTypes'
  BY <1>0, Zenon
<1>2. CleanupConnectorChannel(pump) \/ (\E l \in Connectors : PumpCleansUp(l)) => QueueTypes'
  BY <1>0, <1>a, Zenon DEF CleanupConnectorChannel, PumpCleansUp
<1>3. ASSUME NEW l \in Connectors, ConnectArrives(l) PROVE QueueTypes'
  <2>1. Good(Reserved(orphan))
    BY <1>0, <1>b
  <2> QED BY <1>0, <1>3, <2>1, Zenon DEF ConnectArrives
<1>4. ASSUME NEW l \in Connectors, RouteConnectorPayload(l) PROVE QueueTypes'
  <2>1. Len(sent) + 1 \in Nat
    BY DEF TraceTypes
  <2>2. Good(Put(Reserved(orphan), Len(sent) + 1))
    BY <1>0, <1>b, <2>1, Zenon
  <2> HIDE DEF Good
  <2> QED BY <1>0, <1>4, <2>2, Zenon DEF RouteConnectorPayload
<1>5. ASSUME ExpireOrphanData PROVE QueueTypes'
  <2>1. toClient # NoLink => orphan.on
    BY Zenon DEF IInv, PumpInv, QueueWhileBound
  <2>2. toClient # NoLink => Good([orphan EXCEPT !.timer = FALSE])
    BY <1>0, <2>1, QueueTimer, Zenon
  <2> HIDE DEF Good
  <2> QED BY <1>0, <1>5, <1>a, <2>2, Zenon DEF ExpireOrphanData
<1>6. ASSUME NEW l \in Connectors, PumpPublishes(l) PROVE QueueTypes'
  <2>1. Good([on |-> TRUE, items |-> orphan.items, timer |-> FALSE])
    BY <1>0, QueueFields, QueueTaken, Zenon
  <2> HIDE DEF Good
  <2> QED BY <1>0, <1>6, <2>1, Zenon DEF PumpPublishes
<1>7. ASSUME NEW l \in Connectors, PumpTakes(l) \/ RebindTakes(l) PROVE QueueTypes'
  <2>1. Good([back EXCEPT !.items = <<>>])
    BY <1>0, <1>c
  <2> HIDE DEF Good
  <2> QED BY <1>0, <1>7, <2>1, Zenon DEF PumpTakes, RebindTakes
<1>8. ASSUME NEW held \in Seq(Nat), NEW target, Replay(held, target), orphan' = orphan PROVE QueueTypes'
  <2>1. CASE UNCHANGED back
    BY <1>1, <1>8, <2>1, Zenon
  <2>2. CASE Requeue(held)
    BY <1>0, <1>8, <2>2, RequeueType, Zenon
  <2> QED BY <1>8, <2>1, <2>2, Zenon DEF Replay
<1>9. ASSUME NEW l \in Connectors, PumpReplays(l) \/ RebindReplays(l) PROVE QueueTypes'
  <2>1. pump[l].held \in Seq(Nat) /\ rebind[l].held \in Seq(Nat)
    BY DEF HandTypes, Pump, Rebind
  <2> QED BY <1>8, <1>9, <2>1, Zenon DEF PumpReplays, RebindReplays
<1>10. ASSUME NEW l \in Connectors, PumpForwards(l) PROVE QueueTypes'
  <2>1. (orphan' = orphan \/ (orphan.items # <<>> /\ orphan' = [orphan EXCEPT !.items = Tail(orphan.items)])) /\ back' = back
    BY <1>10 DEF PumpForwards, NextMessage
  <2>2. CASE orphan' = orphan
    BY <1>1, <1>10, <2>2, Zenon DEF PumpForwards
  <2>3. CASE orphan.items # <<>> /\ orphan' = [orphan EXCEPT !.items = Tail(orphan.items)]
    <3>1. orphan.items \in Seq(Nat) /\ Len(orphan.items) <= QueueSize
      BY <1>0, QueueFields, Zenon
    <3>2. Tail(orphan.items) \in Seq(Nat) /\ Len(Tail(orphan.items)) <= QueueSize
      BY <2>3, <3>1, RelayAssumption
    <3>3. orphan.on
      BY <1>0, <2>3, NoQueueIs, Zenon
    <3> DEFINE t == Tail(orphan.items)
    <3> HIDE DEF t
    <3>4. Good([orphan EXCEPT !.items = t])
      BY <1>0, <3>2, <3>3, QueueItems, Zenon DEF t
    <3> HIDE DEF Good
    <3> QED BY <1>0, <1>10, <2>3, <3>4, Zenon DEF PumpForwards, t
  <2> QED BY <2>1, <2>2, <2>3, Zenon
<1>11. ASSUME NEW n \in Nat, back' = back \/ BufferConnectorReturn(n), orphan' = orphan PROVE QueueTypes'
  <2>1. Good(Put(Reserved(back), n))
    BY <1>0, <1>b, Zenon
  <2> HIDE DEF Good
  <2> QED BY <1>0, <1>11, <2>1, Zenon DEF BufferConnectorReturn
<1>12. ResponseWrites => QueueTypes'
  BY <1>11, Zenon DEF ResponseWrites
<1>13. ASSUME NEW p \in Providers, DataWrites(p) PROVE QueueTypes'
  <2>1. inbound[p].n \in Nat
    BY <1>13 DEF IInv, ReplyInv, DataWrites, HandTypes
  <2> QED BY <1>11, <1>13, <2>1, Zenon DEF DataWrites
<1>14. ExpireConnectorReturn => QueueTypes'
  <2>1. back.timer => back.on
    BY <1>0 DEF NoQueue
  <2>2. back.on => Good([back EXCEPT !.timer = FALSE])
    BY <1>0, QueueTimer, Zenon
  <2> HIDE DEF Good
  <2> QED BY <1>0, <1>a, <2>1, <2>2, Zenon DEF ExpireConnectorReturn
<1> HIDE DEF Good
<1> QED BY <1>1, <1>2, <1>3, <1>4, <1>5, <1>6, <1>7, <1>9, <1>10, <1>12, <1>13, <1>14, Zenon
        DEF Next, LinkStep, PumpStep, RebindStep, ResponseStep, cacheVars, pumpFrame, RegisterConnector,
            RegisterProvider, PongArrives, LinkBreaks, LinkDeparts, GraceFires, GraceExpires, DisconnectArrives, PumpStarts,
            PumpDenied, PumpLoops, PumpPicks, PumpTimesOut, PumpBinds, PumpSeesClose, PumpRetires,
            RebindScans, RebindChecks, ResponseArrives, DataArrives, ResponseLooksUp, DisconnectRuns,
            ProviderDisconnectArrives

\* A pump changes.
LEMMA PumpSet ==
  ASSUME pump \in [Connectors -> Pump], NEW l \in Connectors, NEW q \in Pump, pump' = [pump EXCEPT ![l] = q]
  PROVE  pump' \in [Connectors -> Pump] /\ pump'[l] = q /\ \A k \in Connectors : k # l => pump'[k] = pump[k]
OBVIOUS

\* The fields of a pump.
LEMMA PumpFields ==
  \A q \in Pump : /\ q.to \in Provider /\ q.target \in Connector /\ q.bound \in BOOLEAN /\ q.closed \in BOOLEAN
                  /\ q.pending \in Seq(Nat) /\ q.held \in Seq(Nat) /\ q.rest \in Seq(Nat)
BY DEF Pump

\* What a pump becomes when only some of its fields change.
At(q, pc) == [q EXCEPT !.pc = pc]
\* Only its place in the loop changes.
LEMMA PumpAt ==
  ASSUME NEW q \in Pump, NEW pc \in {"starting", "loop", "waiting", "publish", "bind", "take", "replay", "forward", "retire",
                                     "cleanup", "done"}
  PROVE  /\ At(q, pc) \in Pump /\ At(q, pc).pc = pc /\ At(q, pc).pending = q.pending /\ At(q, pc).held = q.held
         /\ At(q, pc).rest = q.rest /\ At(q, pc).closed = q.closed /\ At(q, pc).to = q.to /\ At(q, pc).target = q.target
         /\ At(q, pc).bound = q.bound
BY DEF Pump, At

\* A pump that starts afresh or ends.
LEMMA NewPumps ==
  /\ Ended \in Pump /\ Ended.pc = "done" /\ Ended.pending = <<>> /\ Ended.held = <<>> /\ Ended.rest = <<>>
  /\ \A q \in Pump, s \in Seq(Nat) :
       LET r == Rebinding(q, s) IN
       /\ r \in Pump /\ r.pc = "loop" /\ r.pending = s /\ r.held = <<>> /\ r.rest = <<>>
<1>1. NoLink \in Connector /\ NoLink \in Provider
  BY DEF Connector, Provider
<1> DEFINE e == <<>>
           nop == [pc |-> "none", resume |-> FALSE, bound |-> FALSE, to |-> NoLink, target |-> NoLink,
                   pending |-> e, held |-> e, closed |-> FALSE, rest |-> e]
<1>2. e \in Seq(Nat) /\ nop = NoPump
  BY DEF NoPump
<1> HIDE DEF e
<1>3. nop \in Pump /\ nop.pending = e /\ nop.held = e /\ nop.rest = e
  BY <1>1, <1>2 DEF Pump
<1> HIDE DEF nop
<1>4. LET d == [nop EXCEPT !.pc = "done"] IN d \in Pump /\ d.pc = "done" /\ d.pending = nop.pending /\ d.held = nop.held /\ d.rest = nop.rest
  BY <1>3 DEF Pump
<1>5. ASSUME NEW q \in Pump, NEW s \in Seq(Nat)
      PROVE  LET r == [nop EXCEPT !.pc = "loop", !.resume = q.resume, !.bound = TRUE, !.pending = s] IN
             r \in Pump /\ r.pc = "loop" /\ r.pending = s /\ r.held = nop.held /\ r.rest = nop.rest
  BY <1>3 DEF Pump
<1>6. Ended = [nop EXCEPT !.pc = "done"]
  BY <1>2, Zenon DEF Ended
<1>7. Ended \in Pump /\ Ended.pc = "done" /\ Ended.pending = <<>> /\ Ended.held = <<>> /\ Ended.rest = <<>>
  BY <1>3, <1>4, <1>6, Zenon DEF e
<1>8. ASSUME NEW q \in Pump, NEW s \in Seq(Nat)
      PROVE  LET r == Rebinding(q, s) IN
             /\ r \in Pump /\ r.pc = "loop" /\ r.pending = s /\ r.held = <<>> /\ r.rest = <<>>
  <2> DEFINE x == [nop EXCEPT !.pc = "loop", !.resume = q.resume, !.bound = TRUE, !.pending = s]
  <2>1. Rebinding(q, s) = x
    BY <1>2, Zenon DEF Rebinding
  <2>2. nop.held = <<>> /\ nop.rest = <<>>
    BY <1>3, Zenon DEF e
  <2>3. x \in Pump /\ x.pc = "loop" /\ x.pending = s /\ x.held = nop.held /\ x.rest = nop.rest
    BY <1>5, Zenon
  <2> HIDE DEF x
  <2> QED BY <2>1, <2>2, <2>3
<1> QED BY <1>7, <1>8, Zenon

-----------------------------------------------------------------------------
(* What most steps leave alone.                                            *)

\* Nothing happens to the payloads on their way to the providers.
LEMMA ForwardSame ==
  ASSUME IInv, pump' = pump, orphan'.items = orphan.items, orphan.on => orphan'.on,
         UNCHANGED <<toClient, pumpActive, fwd, sent>>
  PROVE  PumpInv' /\ OrderInv'
<1>1. PumpInv /\ OrderInv
  BY Zenon DEF IInv
<1>2. toClient' = toClient /\ pumpActive' = pumpActive /\ fwd' = fwd /\ sent' = sent
  BY Zenon
<1>3. PumpInv'
  BY <1>1, <1>2, Zenon DEF PumpInv, QueueWhileBound, Draining
<1>4. OrderInv'
  BY <1>1, <1>2, Zenon DEF OrderInv
<1> QED BY <1>3, <1>4, Zenon

\* What is known of one pump.
LEMMA OnePump ==
  ASSUME IInv, NEW l \in Connectors
  PROVE  /\ pump[l] \in Pump /\ PumpOwn(pump[l], pumpActive, fwd) /\ pump \in [Connectors -> Pump]
         /\ Drains(pump[l]) => Kept(fwd, Len(sent), orphan.items, pump[l])
         /\ \A k \in Connectors : Drains(pump[l]) /\ Drains(pump[k]) => k = l
         /\ Forwarded(fwd, Len(sent)) /\ Queued(fwd, Len(sent), orphan.items)
         /\ (toClient # NoLink => orphan.on)
         /\ \A k \in Connectors : Drains(pump[k]) => pumpActive
<1>1. pump \in [Connectors -> Pump] /\ PumpInv /\ OrderInv
  BY Zenon DEF IInv, TypeOK
<1>2. pump[l] \in Pump
  BY <1>1
<1> QED BY <1>1, <1>2, Zenon DEF PumpInv, OrderInv, QueueWhileBound, Draining, Drains, PumpOwn

\* One pump goes on.
LEMMA PumpGoesOn ==
  ASSUME IInv, NEW l \in Connectors, NEW q \in Pump, pump' = [pump EXCEPT ![l] = q], sent' = sent,
         toClient' # NoLink => orphan'.on, PumpOwn(q, pumpActive', fwd'),
         Drains(q) => Drains(pump[l]) \/ ~pumpActive,
         pumpActive => pumpActive' \/ Drains(pump[l]),
         fwd' = fwd \/ \E x : fwd' = Append(fwd, x),
         Forwarded(fwd', Len(sent)), Queued(fwd', Len(sent), orphan'.items),
         Drains(q) => Kept(fwd', Len(sent), orphan'.items, q),
         Drains(pump[l]) \/ ~pumpActive \/ (orphan'.items = orphan.items /\ fwd' = fwd)
  PROVE  PumpInv' /\ OrderInv'
<1>1. /\ pump'[l] = q /\ \A k \in Connectors : k # l => pump'[k] = pump[k]
  BY OnePump, PumpSet, Zenon
<1>2. \A k \in Connectors : Drains(pump[k]) => pumpActive
  BY OnePump, Zenon
<1>3. \A k \in Connectors : k # l /\ Drains(pump[k]) => ~Drains(pump[l]) /\ pumpActive' /\ ~Drains(q) /\ pumpActive
  BY <1>2, OnePump, Zenon
<1>4. \A j, k \in Connectors : Drains(pump'[j]) /\ Drains(pump'[k]) => j = k
  BY <1>1, <1>3, OnePump, Zenon
<1>5. \A i \in DOMAIN fwd : i \in DOMAIN fwd' /\ fwd'[i] = fwd[i]
  <2>1. fwd \in Seq([to : Providers, kind : {"connect", "resume", "data"}, n : Nat])
    BY Zenon DEF IInv, TypeOK
  <2>2. CASE fwd' = fwd
    BY <2>2, Zenon
  <2>3. ASSUME NEW x, fwd' = Append(fwd, x) PROVE \A i \in DOMAIN fwd : i \in DOMAIN fwd' /\ fwd'[i] = fwd[i]
    BY <2>1, <2>3
  <2> QED BY <2>2, <2>3, Zenon
<1>6. ASSUME NEW k \in Connectors PROVE PumpOwn(pump'[k], pumpActive', fwd')
  <2>1. CASE k = l
    BY <1>1, <2>1, Zenon
  <2>2. CASE k # l
    <3>1. PumpOwn(pump[k], pumpActive, fwd) /\ pump'[k] = pump[k]
      BY <1>1, <2>2, OnePump, Zenon
    <3> QED BY <1>3, <1>5, <2>2, <3>1, Zenon DEF PumpOwn
  <2> QED BY <2>1, <2>2, Zenon
<1>7. PumpInv'
  BY <1>4, <1>6, Zenon DEF PumpInv, QueueWhileBound, Draining, Drains
<1>8. ASSUME NEW k \in Connectors, Drains(pump'[k]) PROVE Kept(fwd', Len(sent'), orphan'.items, pump'[k])
  <2>1. CASE k = l
    BY <1>1, <1>8, <2>1, Zenon
  <2>2. CASE k # l
    <3>1. Drains(pump[k]) /\ pump'[k] = pump[k]
      BY <1>1, <1>8, <2>2, Zenon
    <3>2. orphan'.items = orphan.items /\ fwd' = fwd
      BY <1>3, <2>2, <3>1, Zenon
    <3> QED BY <3>1, <3>2, OnePump, Zenon
  <2> QED BY <2>1, <2>2, Zenon
<1>9. OrderInv'
  BY <1>8, Zenon DEF OrderInv
<1> QED BY <1>7, <1>9, Zenon

\* It goes on with the same messages and nothing is written.
LEMMA PumpCarriesOn ==
  ASSUME IInv, NEW l \in Connectors, NEW q \in Pump, pump' = [pump EXCEPT ![l] = q], UNCHANGED <<sent, fwd>>,
         toClient' # NoLink => orphan'.on, orphan'.items = orphan.items, PumpOwn(q, pumpActive', fwd),
         Drains(q) => Drains(pump[l]) \/ (~pumpActive /\ pump[l].pc \in {"none", "starting"}),
         pumpActive => pumpActive' \/ Drains(pump[l]), Drains(q) => q.pending = pump[l].pending /\ q.rest \in {pump[l].rest, <<>>}
  PROVE  PumpInv' /\ OrderInv'
<1>1. sent' = sent /\ fwd' = fwd
  BY Zenon
<1>2. Drains(q) => Kept(fwd', Len(sent), orphan'.items, q)
  <2>0. \A s : /\ Queued(fwd, Len(sent), <<>>) /\ Below(<<>>, s) /\ Below(s, <<>>)
    <3>1. DOMAIN <<>> = {}
      OBVIOUS
    <3> QED BY <3>1, Zenon DEF Queued, Below, Ascending, UpTo, Past
  <2>1. CASE Drains(pump[l])
    BY <1>1, <2>0, <2>1, OnePump, Zenon DEF Kept
  <2>2. CASE pump[l].pc \in {"none", "starting"}
    <3>1. pump[l].pending = <<>> /\ pump[l].rest = <<>>
      BY <2>2, OnePump, Zenon DEF PumpOwn
    <3> QED BY <1>1, <2>0, <3>1, OnePump, Zenon DEF Kept
  <2> QED BY <2>1, <2>2, Zenon
<1>3. Forwarded(fwd', Len(sent)) /\ Queued(fwd', Len(sent), orphan'.items)
  BY <1>1, OnePump, Zenon
<1>4. PumpOwn(q, pumpActive', fwd')
  BY <1>1, Zenon
<1> QED BY <1>1, <1>2, <1>3, <1>4, OnePump, PumpGoesOn, Zenon

\* The queue is closed, and the channel is not bound.
LEMMA QueueCloses ==
  ASSUME IInv, NEW pumps \in [Connectors -> Pump], orphan' = NoQueue, toClient' = NoLink, pump' = Closed(pumps),
         UNCHANGED <<pumpActive, fwd, sent>>,
         \A l \in Connectors : pumps[l] = pump[l] \/ (pumps[l] = Ended /\ pump[l].pc = "cleanup")
  PROVE  PumpInv' /\ OrderInv' /\ pump' \in [Connectors -> Pump]
         /\ \A l \in Connectors : pump'[l].held = pumps[l].held /\ pump'[l].pc = pumps[l].pc
<1>0. TypeOK /\ orphan.items \in Seq(Nat) /\ pumpActive' = pumpActive /\ fwd' = fwd /\ sent' = sent
  BY QueueFields, Zenon DEF IInv, TypeOK
<1>1. pump' \in [Connectors -> Pump]
  BY <1>0, ClosedPumps, Zenon
<1>e. \A s : /\ Queued(fwd, Len(sent), <<>>) /\ Below(<<>>, s) /\ Below(s, <<>>)
  <2>1. DOMAIN <<>> = {}
    OBVIOUS
  <2> QED BY <2>1, Zenon DEF Queued, Below, Ascending, UpTo, Past
<1>o. orphan'.items = <<>>
  BY NoQueueIs, Zenon
<1>2. ASSUME NEW l \in Connectors
      PROVE  /\ pump'[l].held = pumps[l].held /\ pump'[l].pc = pumps[l].pc /\ (Drains(pump'[l]) => Drains(pump[l]))
             /\ PumpOwn(pump'[l], pumpActive, fwd)
             /\ Drains(pump'[l]) => Kept(fwd, Len(sent), <<>>, pump'[l])
  <2> DEFINE g == pump'[l]
             p == pump[l]
  <2>0. PumpOwn(p, pumpActive, fwd) /\ p \in Pump /\ pumps[l] \in Pump /\ (Drains(p) => Kept(fwd, Len(sent), orphan.items, p))
    BY OnePump
  <2>1. CASE pumps[l] = Ended /\ p.pc = "cleanup"
    <3>1. ~HoldsQueue(l)
      BY <2>1 DEF HoldsQueue
    <3>2. g = Ended
      BY <1>0, <2>1, <3>1, ClosedPumps, Zenon
    <3>3. ~Drains(Ended) /\ PumpOwn(Ended, pumpActive, fwd)
      BY NewPumps DEF Drains, PumpOwn
    <3> QED BY <2>1, <3>2, <3>3, Zenon
  <2>2. CASE pumps[l] = p /\ g = p
    BY <1>e, <2>0, <2>2, Zenon DEF Kept
  <2>3. CASE pumps[l] = p /\ g = [p EXCEPT !.closed = TRUE, !.rest = orphan.items] /\ HoldsQueue(l)
    <3>1. /\ g.pc = p.pc /\ g.held = p.held /\ g.pending = p.pending /\ g.to = p.to /\ g.closed /\ g.rest = orphan.items
      BY <2>0, <2>3 DEF Pump
    <3>2. Drains(p) /\ p.pc \notin {"none", "starting"}
      BY <2>3 DEF HoldsQueue, Drains
    <3>3. Kept(fwd, Len(sent), orphan.items, p) /\ Queued(fwd, Len(sent), orphan.items)
      BY <2>0, <3>2, OnePump, Zenon
    <3> HIDE DEF g, p
    <3>4. Kept(fwd, Len(sent), <<>>, g)
      BY <1>e, <3>1, <3>3, Zenon DEF Kept
    <3>5. PumpOwn(g, pumpActive, fwd)
      BY <2>0, <3>1, <3>2, Zenon DEF PumpOwn, Drains
    <3> QED BY <2>3, <3>1, <3>2, <3>4, <3>5, Zenon DEF g, p
  <2>4. pumps[l] = p => g = p \/ (g = [p EXCEPT !.closed = TRUE, !.rest = orphan.items] /\ HoldsQueue(l))
    <3>1. \/ Closed(pumps)[l] = pumps[l]
          \/ Closed(pumps)[l] = [pumps[l] EXCEPT !.closed = TRUE, !.rest = orphan.items] /\ HoldsQueue(l)
      BY <1>0, ClosedPumps, Zenon
    <3>2. g = Closed(pumps)[l]
      BY Zenon
    <3> HIDE DEF g, p
    <3> QED BY <3>1, <3>2
  <2> HIDE DEF g, p
  <2> QED BY <2>1, <2>2, <2>3, <2>4, Zenon DEF g, p
<1>3. \A k, l \in Connectors : Drains(pump'[k]) /\ Drains(pump'[l]) => k = l
  BY <1>2, OnePump, Zenon
<1>4. PumpInv'
  BY <1>0, <1>2, <1>3, Zenon DEF PumpInv, QueueWhileBound, Draining, Drains
<1>5. OrderInv'
  <2>1. Forwarded(fwd, Len(sent))
    BY Zenon DEF IInv, OrderInv
  <2> QED BY <1>0, <1>2, <1>e, <1>o, <2>1, Zenon DEF OrderInv
<1> QED BY <1>1, <1>2, <1>4, <1>5, Zenon

\* Nothing happens to the replies.
LEMMA ReplySame ==
  ASSUME IInv, ret' = ret, back'.items = back.items, back.on => back'.on, inbound' = inbound,
         UNCHANGED <<produced, lossy>>, response'.pc # "done" => response.pc # "done",
         \A l \in Connectors : /\ pump'[l].held = pump[l].held
                               /\ pump'[l].pc = "replay" <=> pump[l].pc = "replay"
                               /\ rebind'[l].held = rebind[l].held
                               /\ rebind'[l].pc = "replay" <=> rebind[l].pc = "replay"
  PROVE  ReplyInv'
<1>1. produced' = produced /\ lossy' = lossy /\ ReplyInv
  BY Zenon DEF IInv
<1>2. ASSUME NEW b \in Bins PROVE InBin(b, ret', back', pump', rebind', inbound') = InBin(b, ret, back, pump, rebind, inbound)
  <2>1. CASE b = <<"ret", NoLink>>
    BY <2>1 DEF InBin
  <2>2. CASE b = <<"back", NoLink>>
    BY <2>2 DEF InBin
  <2>3. ASSUME NEW l \in Connectors, b = <<"pump", l>> \/ b = <<"rebind", l>>
        PROVE  InBin(b, ret', back', pump', rebind', inbound') = InBin(b, ret, back, pump, rebind, inbound)
    BY <2>3 DEF InBin
  <2>4. ASSUME NEW p \in Providers, b = <<"in", p>>
        PROVE  InBin(b, ret', back', pump', rebind', inbound') = InBin(b, ret, back, pump, rebind, inbound)
    BY <2>4 DEF InBin
  <2> QED BY <2>1, <2>2, <2>3, <2>4 DEF Bins
<1>3. bins' = bins
  <2>1. BinsOf(ret', back', pump', rebind', inbound') = BinsOf(ret, back, pump, rebind, inbound)
    BY <1>2, Zenon DEF BinsOf
  <2> QED BY <2>1, Zenon DEF bins
<1>4. Apart(bins') /\ All(bins') \subseteq 0 .. produced' /\ (response'.pc # "done" => 0 \notin All(bins'))
      /\ (lossy' \/ 1 .. produced' \subseteq All(bins'))
  BY <1>1, <1>3 DEF ReplyInv
<1>5. \A l \in Connectors :
        /\ pump'[l].held # <<>> <=> pump'[l].pc = "replay"
        /\ rebind'[l].held # <<>> <=> rebind'[l].pc = "replay"
        /\ pump'[l].held # <<>> \/ rebind'[l].held # <<>> => lossy' \/ back'.on
  BY <1>1 DEF ReplyInv
<1>6. \A p \in Providers : inbound'[p].n = -1 => inbound'[p] = Idle
  BY <1>1, Zenon DEF ReplyInv
<1> QED BY <1>4, <1>5, <1>6, Zenon DEF ReplyInv

\* The steps that touch neither.
LEMMA LinksMove ==
  ASSUME IInv,
         \/ \E l \in Connectors : PongArrives(l) \/ DisconnectArrives(l)
         \/ \E p \in Providers : RegisterProvider(p) \/ ResponseArrives(p) \/ ProviderDisconnectArrives(p)
         \/ \E w \in Links : LinkBreaks(w) \/ LinkDeparts(w) \/ GraceFires(w)
         \/ ResponseLooksUp
         \/ UNCHANGED vars
  PROVE  PumpInv' /\ OrderInv' /\ ReplyInv'
<1>1. /\ UNCHANGED <<cacheVars, pump, rebind, inbound, produced, ret, lossy, sent, fwd>>
      /\ response' = response \/ response.pc # "done"
  BY Zenon
     DEF PongArrives, DisconnectArrives, RegisterProvider, ResponseArrives, ProviderDisconnectArrives, LinkBreaks,
         LinkDeparts, GraceFires, ResponseLooksUp, vars, linkVars, returnVars, cacheVars
<1>2. /\ orphan' = orphan /\ back' = back /\ toClient' = toClient /\ pumpActive' = pumpActive
  BY <1>1, Zenon DEF cacheVars
<1>3. /\ pump' = pump /\ rebind' = rebind /\ inbound' = inbound /\ produced' = produced /\ ret' = ret /\ lossy' = lossy
      /\ sent' = sent /\ fwd' = fwd
  BY <1>1, Zenon
<1>4. PumpInv' /\ OrderInv'
  BY <1>2, <1>3, ForwardSame, Zenon
<1>5. ReplyInv'
  BY <1>1, <1>2, <1>3, ReplySame, Zenon
<1> QED BY <1>4, <1>5, Zenon

\* The rebind of one link goes on.
LEMMA RebindSet ==
  ASSUME rebind \in [Connectors -> Rebind], NEW l \in Connectors, NEW r \in Rebind, rebind' = [rebind EXCEPT ![l] = r]
  PROVE  rebind' \in [Connectors -> Rebind] /\ rebind'[l] = r /\ \A k \in Connectors : k # l => rebind'[k] = rebind[k]
OBVIOUS

\* A rebind that goes on without replies in hand.
LEMMA RebindMoves ==
  ASSUME IInv, NEW l \in Connectors, RegisterConnector(l) \/ RebindScans(l) \/ RebindChecks(l)
  PROVE  PumpInv' /\ OrderInv' /\ ReplyInv' /\ rebind' \in [Connectors -> Rebind]
<1>0. rebind \in [Connectors -> Rebind] /\ rebind[l] \in Rebind /\ ReplyInv /\ LinkInv
  BY DEF IInv, TypeOK
<1>1. UNCHANGED <<orphan, back, toClient, pumpActive, pump, inbound, produced, ret, lossy, sent, fwd, response>>
  BY Zenon DEF RegisterConnector, RebindScans, RebindChecks, cacheVars, returnVars
<1>2. /\ orphan' = orphan /\ back' = back /\ toClient' = toClient /\ pumpActive' = pumpActive
      /\ pump' = pump /\ inbound' = inbound /\ produced' = produced /\ ret' = ret /\ lossy' = lossy
      /\ sent' = sent /\ fwd' = fwd /\ response' = response
  BY <1>1, Zenon
<1>3. rebind[l].pc # "replay" /\ rebind[l].held = <<>>
  BY <1>0, Zenon DEF ReplyInv, LinkInv, RegisterConnector, RebindScans, RebindChecks
<1>4. \E r \in Rebind : rebind' = [rebind EXCEPT ![l] = r] /\ r.pc # "replay" /\ r.held = <<>>
  <2>1. ASSUME NEW r \in Rebind, NEW c \in {"scan", "check", "take", "done"}
        PROVE  [r EXCEPT !.pc = c] \in Rebind /\ [r EXCEPT !.pc = c].pc = c /\ [r EXCEPT !.pc = c].held = r.held
    BY DEF Rebind
  <2>2. ASSUME NEW S \in SUBSET Connectors
        PROVE  /\ [rebind[l] EXCEPT !.pc = "check", !.online = S] \in Rebind
               /\ [rebind[l] EXCEPT !.pc = "check", !.online = S].pc = "check"
               /\ [rebind[l] EXCEPT !.pc = "check", !.online = S].held = rebind[l].held
    BY <1>0 DEF Rebind
  <2>n. NoRebind \in Rebind /\ NoRebind.held = <<>>
    BY DEF Rebind, NoRebind
  <2>3. CASE RegisterConnector(l)
    <3> DEFINE r == [rebind[l] EXCEPT !.pc = "scan"]
    <3>1. r \in Rebind /\ r.pc = "scan" /\ r.held = rebind[l].held
      BY <1>0, <2>1
    <3>2. rebind' = [rebind EXCEPT ![l] = r]
      BY <2>3, Zenon DEF RegisterConnector
    <3> HIDE DEF r
    <3> QED BY <1>3, <3>1, <3>2
  <2>4. CASE RebindScans(l)
    <3> DEFINE S == {w \in Connectors : Online(w)}
    <3>1. S \in SUBSET Connectors
      OBVIOUS
    <3>2. \/ rebind' = [rebind EXCEPT ![l] = [rebind[l] EXCEPT !.pc = "check", !.online = S]]
          \/ rebind' = [rebind EXCEPT ![l] = [rebind[l] EXCEPT !.pc = "done"]]
      BY <2>4, Zenon DEF RebindScans
    <3> DEFINE c == [rebind[l] EXCEPT !.pc = "check", !.online = S]
               d == [rebind[l] EXCEPT !.pc = "done"]
    <3> HIDE DEF S
    <3>3. c \in Rebind /\ c.pc = "check" /\ c.held = rebind[l].held
      BY <2>2, <3>1
    <3>4. d \in Rebind /\ d.pc = "done" /\ d.held = rebind[l].held
      BY <1>0, <2>1
    <3>5. rebind' = [rebind EXCEPT ![l] = c] \/ rebind' = [rebind EXCEPT ![l] = d]
      BY <3>2, Zenon
    <3> HIDE DEF c, d
    <3> QED BY <1>3, <3>3, <3>4, <3>5
  <2>5. CASE RebindChecks(l)
    <3> DEFINE c == [NoRebind EXCEPT !.pc = "take"]
               d == [NoRebind EXCEPT !.pc = "done"]
    <3>1. rebind' = [rebind EXCEPT ![l] = c] \/ rebind' = [rebind EXCEPT ![l] = d]
      BY <2>5, Zenon DEF RebindChecks
    <3>2. c \in Rebind /\ c.pc = "take" /\ c.held = <<>>
      BY <2>n, <2>1
    <3>3. d \in Rebind /\ d.pc = "done" /\ d.held = <<>>
      BY <2>n, <2>1
    <3> HIDE DEF c, d
    <3> QED BY <3>1, <3>2, <3>3
  <2> QED BY <2>3, <2>4, <2>5, Zenon
<1>5. PumpInv' /\ OrderInv'
  BY <1>2, ForwardSame, Zenon
<1>6. /\ rebind' \in [Connectors -> Rebind]
      /\ \A k \in Connectors : /\ rebind'[k].held = rebind[k].held
                               /\ rebind'[k].pc = "replay" <=> rebind[k].pc = "replay"
  BY <1>0, <1>3, <1>4, RebindSet, Zenon
<1>7. ReplyInv'
  <2>1. \A k \in Connectors : /\ pump'[k].held = pump[k].held
                              /\ pump'[k].pc = "replay" <=> pump[k].pc = "replay"
                              /\ rebind'[k].held = rebind[k].held
                              /\ rebind'[k].pc = "replay" <=> rebind[k].pc = "replay"
    BY <1>2, <1>6, Zenon
  <2>2. /\ ret' = ret /\ back'.items = back.items /\ (back.on => back'.on) /\ inbound' = inbound
        /\ UNCHANGED <<produced, lossy>> /\ (response'.pc # "done" => response.pc # "done")
    BY <1>2, Zenon
  <2> QED BY <2>1, <2>2, ReplySame, Zenon
<1> QED BY <1>5, <1>6, <1>7, Zenon

\* A link is registered once.
LEMMA LinksRegister == IInv /\ Next => LinkInv'
<1> SUFFICES ASSUME TypeOK, LinkInv, Next PROVE LinkInv'
  BY Zenon DEF IInv
<1>0. link \in [Links -> {"new", "up", "broken", "gone"}] /\ rebind \in [Connectors -> Rebind] /\ Connectors \subseteq Links
  BY DEF TypeOK, Links
<1>1. link' = link /\ rebind' = rebind => LinkInv'
  BY Zenon DEF LinkInv
<1>2. ASSUME NEW w \in Links, \E s \in {"up", "broken", "gone"} : link' = [link EXCEPT ![w] = s],
             rebind' = rebind \/ (w \in Connectors /\ \E r : rebind' = [rebind EXCEPT ![w] = r])
      PROVE  LinkInv'
  BY <1>0, <1>2 DEF LinkInv
<1>3. ASSUME NEW l \in Connectors, link' = link, rebind[l].pc # "none", \E r : rebind' = [rebind EXCEPT ![l] = r]
      PROVE  LinkInv'
  BY <1>0, <1>3 DEF LinkInv
<1>4. ASSUME NEW l \in Connectors, RegisterConnector(l) PROVE LinkInv'
  BY <1>0, <1>2, <1>4, Zenon DEF RegisterConnector
<1>5. ASSUME NEW p \in Providers, RegisterProvider(p) PROVE LinkInv'
  <2>1. p \in Links
    BY DEF Links
  <2> QED BY <1>2, <1>5, <2>1, Zenon DEF RegisterProvider
<1>6. ASSUME NEW w \in Links, LinkBreaks(w) \/ LinkDeparts(w) PROVE LinkInv'
  BY <1>2, <1>6, Zenon DEF LinkBreaks, LinkDeparts
<1>7. ASSUME NEW l \in Connectors, RebindStep(l) PROVE LinkInv'
  <2>1. link' = link /\ rebind[l].pc # "none"
    BY <1>7, Zenon DEF RebindStep, RebindScans, RebindChecks, RebindTakes, RebindReplays
  <2>2. \E r : rebind' = [rebind EXCEPT ![l] = r]
    BY <1>7, Zenon DEF RebindStep, RebindScans, RebindChecks, RebindTakes, RebindReplays
  <2> QED BY <1>3, <2>1, <2>2, Zenon
<1> QED BY <1>1, <1>4, <1>5, <1>6, <1>7, ZenonT(40)
        DEF Next, LinkStep, PumpStep, ResponseStep, linkVars, pumpFrame, ConnectArrives, PongArrives, GraceFires, GraceExpires,
            RouteConnectorPayload, DisconnectArrives, PumpStarts, PumpDenied, PumpLoops, PumpPicks, PumpTimesOut,
            PumpPublishes, PumpBinds, PumpTakes, PumpReplays, PumpForwards, PumpSeesClose, PumpRetires, PumpCleansUp,
            ResponseArrives, DataArrives, DataWrites,
            ProviderDisconnectArrives, ResponseLooksUp, ResponseWrites, DisconnectRuns, ExpireOrphanData,
            ExpireConnectorReturn

-----------------------------------------------------------------------------
(* The steps of a pump that leave the replies alone.                       *)

\* A pump without replies in hand goes on.
LEMMA PumpWithoutReplies ==
  ASSUME IInv, NEW l \in Connectors, NEW q \in Pump, pump' = [pump EXCEPT ![l] = q],
         pump[l].pc # "replay", q.pc # "replay", q.held \in {pump[l].held, <<>>},
         UNCHANGED <<back, rebind, returnVars>>
  PROVE  ReplyInv' /\ pump' \in [Connectors -> Pump]
<1>1. /\ back' = back /\ rebind' = rebind /\ ret' = ret /\ inbound' = inbound /\ produced' = produced /\ lossy' = lossy
      /\ response' = response
  BY Zenon DEF returnVars
<1>2. pump[l].held = <<>> /\ q.held = <<>>
  BY Zenon DEF IInv, ReplyInv
<1>3. pump' \in [Connectors -> Pump] /\ pump'[l] = q /\ \A k \in Connectors : k # l => pump'[k] = pump[k]
  BY OnePump, PumpSet, Zenon
<1>4. \A k \in Connectors : /\ pump'[k].held = pump[k].held
                            /\ pump'[k].pc = "replay" <=> pump[k].pc = "replay"
                            /\ rebind'[k].held = rebind[k].held
                            /\ rebind'[k].pc = "replay" <=> rebind[k].pc = "replay"
  BY <1>1, <1>2, <1>3, Zenon
<1>5. /\ back'.items = back.items /\ (back.on => back'.on)
      /\ UNCHANGED <<produced, lossy>> /\ (response'.pc # "done" => response.pc # "done")
  BY <1>1, Zenon
<1>6. ReplyInv'
  BY <1>1, <1>4, <1>5, ReplySame, Zenon
<1> QED BY <1>3, <1>6, Zenon

\* Such a pump, when its step writes nothing and moves no message.
LEMMA PumpIdles ==
  ASSUME IInv, NEW l \in Connectors, NEW q \in Pump, pump' = [pump EXCEPT ![l] = q],
         pump[l].pc # "replay", q.pc \notin {"none", "replay"}, q.held \in {pump[l].held, <<>>},
         UNCHANGED <<back, rebind, returnVars, sent, fwd>>,
         toClient' # NoLink => orphan'.on, orphan'.items = orphan.items,
         Drains(q) => pumpActive' /\ (Drains(pump[l]) \/ (~pumpActive /\ pump[l].pc \in {"none", "starting"})),
         pumpActive => pumpActive' \/ Drains(pump[l]),
         q.pending = pump[l].pending \/ (~Drains(q) /\ q.pending = <<>>),
         ~q.closed => q.rest = <<>>, q.rest \in {pump[l].rest, <<>>},
         q.pc = "starting" => pump[l].pc = "none",
         q.pc \in {"publish", "bind"} => q.to \in Providers, q.pc \notin {"take", "forward"}
  PROVE  PumpInv' /\ OrderInv' /\ ReplyInv' /\ pump' \in [Connectors -> Pump]
<1>1. sent' = sent /\ fwd' = fwd /\ UNCHANGED <<sent, fwd>> /\ UNCHANGED <<back, rebind, returnVars>>
  BY Zenon
<1>2. PumpOwn(pump[l], pumpActive, fwd)
  BY OnePump, Zenon
<1>3. q.pc \in {"none", "starting"} => q.pending = <<>> /\ q.rest = <<>>
  BY <1>2, Zenon DEF PumpOwn
<1>4. PumpOwn(q, pumpActive', fwd)
  BY <1>3, Zenon DEF PumpOwn
<1>5. PumpInv' /\ OrderInv'
  BY <1>1, <1>4, PumpCarriesOn, Zenon
<1>6. ReplyInv' /\ pump' \in [Connectors -> Pump]
  BY <1>1, PumpWithoutReplies, Zenon
<1> QED BY <1>5, <1>6, Zenon

\* Steps that only move the pump on.
LEMMA PumpTurns ==
  ASSUME IInv, NEW l \in Connectors, PumpLoops(l) \/ PumpTimesOut(l) \/ PumpSeesClose(l) \/ PumpRetires(l) \/ PumpDenied(l)
  PROVE  PumpInv' /\ OrderInv' /\ ReplyInv' /\ pump' \in [Connectors -> Pump]
<1>0. pump[l] \in Pump /\ PumpOwn(pump[l], pumpActive, fwd) /\ (toClient # NoLink => orphan.on)
  BY OnePump, Zenon
<1>1. PICK c \in {"loop", "waiting", "retire", "cleanup"} : pump' = [pump EXCEPT ![l] = At(pump[l], c)] /\ (c = "cleanup" <=> PumpRetires(l))
  BY Zenon DEF PumpLoops, PumpTimesOut, PumpSeesClose, PumpRetires, PumpDenied, At
<1> DEFINE q == At(pump[l], c)
<1>2. /\ q \in Pump /\ q.pc = c /\ q.pending = pump[l].pending /\ q.held = pump[l].held /\ q.rest = pump[l].rest
      /\ q.closed = pump[l].closed
  BY <1>0, PumpAt
<1>3. UNCHANGED <<back, rebind, returnVars, sent, fwd, toClient, orphan>>
  BY Zenon DEF PumpLoops, PumpTimesOut, PumpSeesClose, PumpRetires, PumpDenied, pumpFrame, cacheVars, linkVars
<1>4. /\ toClient' = toClient /\ orphan' = orphan
      /\ UNCHANGED <<back, rebind, returnVars, sent, fwd>>
  BY <1>3, Zenon
<1>5. \/ Drains(pump[l]) /\ (pumpActive' = pumpActive \/ c = "cleanup")
      \/ pump[l].pc = "starting" /\ ~pumpActive /\ pumpActive'
  BY <1>1 DEF PumpLoops, PumpTimesOut, PumpSeesClose, PumpRetires, PumpDenied, cacheVars, Drains
<1> HIDE DEF q
<1>6. pump[l].pc # "replay" /\ (Drains(q) <=> c # "cleanup")
  BY <1>2 DEF Drains, PumpLoops, PumpTimesOut, PumpSeesClose, PumpRetires, PumpDenied
<1>7. /\ q.pc \notin {"none", "replay", "starting", "publish", "bind", "take", "forward"}
      /\ ~q.closed => q.rest = <<>>
  BY <1>0, <1>2 DEF PumpOwn
<1>8. /\ Drains(q) => pumpActive' /\ (Drains(pump[l]) \/ (~pumpActive /\ pump[l].pc \in {"none", "starting"}))
      /\ pumpActive => pumpActive' \/ Drains(pump[l])
  BY <1>0, <1>5, <1>6, Zenon DEF PumpOwn
<1> QED BY <1>0, <1>1, <1>2, <1>4, <1>6, <1>7, <1>8, PumpIdles, Zenon DEF q

\* A pump starts, or finds that the channel has one.
LEMMA PumpBegins ==
  ASSUME IInv, NEW l \in Connectors, PumpStarts(l)
  PROVE  PumpInv' /\ OrderInv' /\ ReplyInv' /\ pump' \in [Connectors -> Pump]
<1>0. pump[l] \in Pump /\ PumpOwn(pump[l], pumpActive, fwd) /\ (toClient # NoLink => orphan.on)
  BY OnePump, Zenon
<1>1. /\ toClient' = toClient /\ orphan' = orphan /\ pump[l].pc = "starting"
      /\ UNCHANGED <<back, rebind, returnVars, sent, fwd>>
  BY Zenon DEF PumpStarts, pumpFrame, linkVars
<1>2. CASE pumpActive
  <2>1. pump' = [pump EXCEPT ![l] = Ended] /\ pumpActive' = pumpActive
    BY <1>2, Zenon DEF PumpStarts
  <2>2. ~Drains(Ended) /\ Ended \in Pump /\ Ended.held = <<>> /\ Ended.pending = <<>> /\ Ended.rest = <<>> /\ Ended.pc = "done"
    BY NewPumps DEF Drains
  <2> QED BY <1>0, <1>1, <1>2, <2>1, <2>2, PumpIdles, Zenon
<1>3. CASE ~pumpActive
  <2> DEFINE q == [pump[l] EXCEPT !.pc = "loop", !.bound = pump[l].resume]
  <2>1. pump' = [pump EXCEPT ![l] = q] /\ pumpActive'
    BY <1>3, Zenon DEF PumpStarts
  <2>2. /\ q \in Pump /\ q.pc = "loop" /\ q.pending = pump[l].pending /\ q.held = pump[l].held /\ q.rest = pump[l].rest
        /\ q.closed = pump[l].closed
    BY <1>0 DEF Pump
  <2> HIDE DEF q
  <2>3. ~q.closed => q.rest = <<>>
    BY <1>0, <2>2, Zenon DEF PumpOwn
  <2> QED BY <1>0, <1>1, <1>3, <2>1, <2>2, <2>3, PumpIdles, Zenon
<1> QED BY <1>2, <1>3, Zenon

\* A pump picks a provider.
LEMMA PumpChooses ==
  ASSUME IInv, NEW l \in Connectors, PumpPicks(l)
  PROVE  PumpInv' /\ OrderInv' /\ ReplyInv' /\ pump' \in [Connectors -> Pump]
<1>0. pump[l] \in Pump /\ PumpOwn(pump[l], pumpActive, fwd) /\ (toClient # NoLink => orphan.on)
  BY OnePump, Zenon
<1>1. /\ toClient' = toClient /\ orphan' = orphan /\ pump[l].pc = "waiting" /\ pumpActive' = pumpActive
      /\ UNCHANGED <<back, rebind, returnVars, sent, fwd>>
  BY Zenon DEF PumpPicks, pumpFrame, linkVars, cacheVars
<1>2. PICK p \in Providers : pump' = [pump EXCEPT ![l] = [pump[l] EXCEPT !.to = p, !.pc = "publish"]]
  BY Zenon DEF PumpPicks
<1> DEFINE q == [pump[l] EXCEPT !.to = p, !.pc = "publish"]
<1>3. /\ q \in Pump /\ q.pc = "publish" /\ q.pending = pump[l].pending /\ q.held = pump[l].held /\ q.rest = pump[l].rest
      /\ q.closed = pump[l].closed /\ q.to = p
  BY <1>0 DEF Pump, Provider
<1>4. pump' = [pump EXCEPT ![l] = q]
  BY <1>2, Zenon
<1> HIDE DEF q
<1>5. (~q.closed => q.rest = <<>>) /\ Drains(pump[l]) /\ pumpActive
  BY <1>0, <1>1, <1>3 DEF PumpOwn, Drains
<1> QED BY <1>0, <1>1, <1>3, <1>4, <1>5, PumpIdles, Zenon

\* A pump publishes the mapping and takes the queue.
LEMMA PumpBindsQueue ==
  ASSUME IInv, NEW l \in Connectors, PumpPublishes(l)
  PROVE  PumpInv' /\ OrderInv' /\ ReplyInv' /\ pump' \in [Connectors -> Pump]
<1>0. pump[l] \in Pump /\ PumpOwn(pump[l], pumpActive, fwd) /\ toConnector \in Connector
  BY OnePump, Zenon DEF IInv, TypeOK
<1>1. /\ pump[l].pc = "publish" /\ pumpActive' = pumpActive
      /\ UNCHANGED <<back, rebind, returnVars, sent, fwd>>
  BY Zenon DEF PumpPublishes, pumpFrame, linkVars
<1>2. orphan'.on /\ orphan'.items = orphan.items
  BY DEF PumpPublishes
<1> DEFINE q == [pump[l] EXCEPT !.pc = "bind", !.target = toConnector', !.closed = FALSE, !.rest = <<>>]
<1>3. pump' = [pump EXCEPT ![l] = q]
  BY Zenon DEF PumpPublishes
<1>4. toConnector' \in Connector
  BY <1>0 DEF PumpPublishes, Connector
<1> DEFINE e == <<>>
<1>5. e \in Seq(Nat)
  OBVIOUS
<1> HIDE DEF e
<1>6. LET r == [pump[l] EXCEPT !.pc = "bind", !.target = toConnector', !.closed = FALSE, !.rest = e] IN
      /\ r \in Pump /\ r.pc = "bind" /\ r.pending = pump[l].pending /\ r.held = pump[l].held /\ r.rest = e
      /\ r.to = pump[l].to
  BY <1>0, <1>4, <1>5 DEF Pump
<1>7. /\ q \in Pump /\ q.pc = "bind" /\ q.pending = pump[l].pending /\ q.held = pump[l].held /\ q.rest = <<>>
      /\ q.to = pump[l].to
  BY <1>6, Zenon DEF e
<1> HIDE DEF q
<1>8. q.to \in Providers /\ Drains(pump[l]) /\ pumpActive
  BY <1>0, <1>1, <1>7 DEF PumpOwn, Drains
<1> QED BY <1>1, <1>2, <1>3, <1>7, <1>8, PumpIdles, Zenon

\* Connect arrives: a pump is started.
LEMMA PumpRequested ==
  ASSUME IInv, NEW l \in Connectors, ConnectArrives(l)
  PROVE  PumpInv' /\ OrderInv' /\ ReplyInv' /\ pump' \in [Connectors -> Pump]
<1>0. pump[l] \in Pump /\ PumpOwn(pump[l], pumpActive, fwd) /\ orphan \in Queue /\ (~orphan.on => orphan = NoQueue)
  BY OnePump, Zenon DEF IInv, TypeOK
<1>1. /\ pump[l].pc = "none" /\ pumpActive' = pumpActive /\ orphan' = Reserved(orphan)
      /\ UNCHANGED <<back, rebind, returnVars, sent, fwd>>
  BY Zenon DEF ConnectArrives, linkVars
<1>2. orphan'.on /\ orphan'.items = orphan.items
  BY <1>0, <1>1 DEF Reserved, NoQueue, Queue
<1> DEFINE R == \E k \in Mine : pump[k].pc # "none"
           q == [pump[l] EXCEPT !.pc = "starting", !.resume = R]
<1>3. pump' = [pump EXCEPT ![l] = q]
  BY Zenon DEF ConnectArrives
<1>4. R \in BOOLEAN
  BY Zenon
<1> HIDE DEF R
<1>5. /\ q \in Pump /\ q.pc = "starting" /\ q.pending = pump[l].pending /\ q.held = pump[l].held /\ q.rest = pump[l].rest
      /\ q.closed = pump[l].closed
  BY <1>0, <1>4 DEF Pump
<1> HIDE DEF q
<1>6. ~Drains(q) /\ (~q.closed => q.rest = <<>>)
  BY <1>0, <1>5 DEF PumpOwn, Drains
<1> QED BY <1>1, <1>2, <1>3, <1>5, <1>6, PumpIdles, Zenon

-----------------------------------------------------------------------------
(* What is written to the providers.                                       *)

Message == [to : Providers, kind : {"connect", "resume", "data"}, n : Nat]

\* The first message of a queue that is in order.
LEMMA HeadOf ==
  ASSUME NEW s \in Seq(Nat), s # <<>>, NEW w, NEW n \in Nat, Queued(w, n, s)
  PROVE  /\ Head(s) \in Nat /\ Head(s) <= n /\ Tail(s) \in Seq(Nat) /\ <<Head(s)>> \in Seq(Nat)
         /\ \A i \in DOMAIN w : w[i].kind = "data" => w[i].n < Head(s)
         /\ Queued(w, n, <<Head(s)>>) /\ Queued(w, n, Tail(s)) /\ Below(<<Head(s)>>, Tail(s))
<1> DEFINE h == Head(s)
           t == Tail(s)
           o == <<h>>
<1>1. /\ h \in Nat /\ h = s[1] /\ 1 \in DOMAIN s /\ t \in Seq(Nat) /\ o \in Seq(Nat) /\ DOMAIN o = {1} /\ o[1] = h
      /\ \A i \in DOMAIN t : i \in Nat /\ i + 1 \in DOMAIN s /\ t[i] = s[i + 1] /\ i + 1 > 1
      /\ \A i, j \in DOMAIN t : i < j => i + 1 < j + 1
  OBVIOUS
<1> HIDE DEF h, t, o
<1>2. \A i \in DOMAIN o : i = 1 /\ o[i] = h
  BY <1>1, Zenon
<1>3. /\ h <= n /\ \A i \in DOMAIN w : w[i].kind = "data" => w[i].n < h
  BY <1>1, Zenon DEF Queued, UpTo, Past
<1>4. Queued(w, n, o)
  <2>1. Ascending(o)
    BY <1>1, <1>2 DEF Ascending
  <2> QED BY <1>2, <1>3, <2>1, Zenon DEF Queued, UpTo, Past
<1>5. Queued(w, n, t)
  <2>1. Ascending(t)
    BY <1>1, Zenon DEF Ascending, Queued
  <2> QED BY <1>1, <2>1, Zenon DEF Queued, UpTo, Past
<1>6. Below(o, t)
  <2>1. ASSUME NEW j \in DOMAIN t PROVE h < t[j]
    <3>1. j + 1 \in DOMAIN s /\ 1 < j + 1 /\ t[j] = s[j + 1]
      BY <1>1
    <3> QED BY <1>1, <3>1, Zenon DEF Queued, Ascending
  <2> QED BY <1>2, <2>1, Zenon DEF Below
<1> QED BY <1>1, <1>3, <1>4, <1>5, <1>6, Zenon DEF h, t, o

\* What it is below.
LEMMA HeadBelow ==
  ASSUME NEW s \in Seq(Nat), s # <<>>
  PROVE  \A t : /\ Below(s, t) => Below(<<Head(s)>>, t) /\ Below(Tail(s), t)
                /\ Below(t, s) => Below(t, Tail(s))
<1> DEFINE u == Tail(s)
           o == <<Head(s)>>
<1>1. /\ 1 \in DOMAIN s /\ DOMAIN o = {1} /\ o[1] = s[1]
      /\ \A i \in DOMAIN u : i + 1 \in DOMAIN s /\ u[i] = s[i + 1]
  OBVIOUS
<1> HIDE DEF u, o
<1>2. \A i \in DOMAIN o : o[i] = s[1]
  BY <1>1, Zenon
<1>3. \A t : /\ Below(s, t) => Below(o, t) /\ Below(u, t)
             /\ Below(t, s) => Below(t, u)
  BY <1>1, <1>2, Zenon DEF Below
<1> QED BY <1>3, Zenon DEF u, o

\* Nothing is in order with anything.
LEMMA NoneQueued == \A w, n, s : Queued(w, n, <<>>) /\ Below(<<>>, s) /\ Below(s, <<>>)
<1>1. DOMAIN <<>> = {}
  OBVIOUS
<1> QED BY <1>1, Zenon DEF Queued, Below, Ascending, UpTo, Past

\* A trace with one more message.
LEMMA Longer ==
  ASSUME NEW w \in Seq(Message), NEW m \in Message
  PROVE  /\ Append(w, m) \in Seq(Message)
         /\ Len(w) + 1 \in DOMAIN Append(w, m) /\ Append(w, m)[Len(w) + 1] = m
         /\ \A i \in DOMAIN w : i \in DOMAIN Append(w, m) /\ Append(w, m)[i] = w[i] /\ i \in 1 .. (Len(w) + 1) - 1
         /\ \A i \in DOMAIN Append(w, m) : i = Len(w) + 1 \/ (i \in DOMAIN w /\ Append(w, m)[i] = w[i])
         /\ \A i, j \in DOMAIN Append(w, m) : i < j => i # Len(w) + 1
         /\ \A j \in DOMAIN w : \A i \in 1 .. j - 1 : i \in DOMAIN w
<1> HIDE DEF Message
<1> QED OBVIOUS

\* A bind message.
LEMMA BindAppends ==
  ASSUME NEW w \in Seq(Message), NEW m \in Message, m.kind # "data", NEW n, Forwarded(w, n)
  PROVE  /\ Forwarded(Append(w, m), n) /\ \A s : Queued(w, n, s) => Queued(Append(w, m), n, s)
<1> DEFINE v == Append(w, m)
           k == Len(w) + 1
<1>1. /\ k \in DOMAIN v /\ v[k] = m
      /\ \A i \in DOMAIN w : i \in DOMAIN v /\ v[i] = w[i]
      /\ \A i \in DOMAIN v : i = k \/ (i \in DOMAIN w /\ v[i] = w[i])
      /\ \A j \in DOMAIN w : \A i \in 1 .. j - 1 : i \in DOMAIN w
  BY Longer, Zenon
<1> HIDE DEF v, k
<1>2. \A i \in DOMAIN v : v[i].kind = "data" => i \in DOMAIN w /\ v[i] = w[i]
  BY <1>1, Zenon
<1>3. \A i \in DOMAIN v : v[i].kind = "data" => v[i].n <= n
  BY <1>2, Zenon DEF Forwarded
<1>4. \A i, j \in DOMAIN v : i < j /\ v[i].kind = "data" /\ v[j].kind = "data" => v[i].n < v[j].n
  BY <1>2, Zenon DEF Forwarded
<1>5. ASSUME NEW j \in DOMAIN v, v[j].kind = "data" PROVE \E i \in 1 .. j - 1 : v[i].to = v[j].to /\ v[i].kind # "data"
  <2>1. j \in DOMAIN w /\ v[j] = w[j]
    BY <1>2, <1>5, Zenon
  <2>2. PICK i \in 1 .. j - 1 : w[i].to = w[j].to /\ w[i].kind # "data"
    BY <1>5, <2>1, Zenon DEF Forwarded
  <2>3. v[i] = w[i]
    BY <1>1, <2>1, Zenon
  <2> QED BY <2>1, <2>2, <2>3, Zenon
<1>6. \A s : Queued(w, n, s) => Queued(v, n, s)
  BY <1>2, Zenon DEF Queued, Past
<1> QED BY <1>3, <1>4, <1>5, <1>6, Zenon DEF Forwarded, v

\* A payload.
LEMMA DataAppends ==
  ASSUME NEW w \in Seq(Message), NEW m \in Message, m.kind = "data", NEW n, Forwarded(w, n), m.n <= n,
         \A i \in DOMAIN w : w[i].kind = "data" => w[i].n < m.n,
         \E i \in DOMAIN w : w[i].to = m.to /\ w[i].kind # "data"
  PROVE  /\ Forwarded(Append(w, m), n)
         /\ \A s : Queued(w, n, s) /\ Below(<<m.n>>, s) => Queued(Append(w, m), n, s)
<1> DEFINE v == Append(w, m)
           k == Len(w) + 1
<1>1. /\ k \in DOMAIN v /\ v[k] = m
      /\ \A i \in DOMAIN w : i \in DOMAIN v /\ v[i] = w[i] /\ i \in 1 .. k - 1
      /\ \A i \in DOMAIN v : i = k \/ (i \in DOMAIN w /\ v[i] = w[i])
      /\ \A i, j \in DOMAIN v : i < j => i # k
      /\ \A j \in DOMAIN w : \A i \in 1 .. j - 1 : i \in DOMAIN w
  BY Longer, Zenon
<1> HIDE DEF v, k
<1>3. \A i \in DOMAIN v : v[i].kind = "data" => v[i].n <= n
  BY <1>1, Zenon DEF Forwarded
<1>4. ASSUME NEW i \in DOMAIN v, NEW j \in DOMAIN v, i < j, v[i].kind = "data", v[j].kind = "data" PROVE v[i].n < v[j].n
  <2>1. i \in DOMAIN w /\ v[i] = w[i]
    BY <1>1, <1>4, Zenon
  <2> QED BY <1>1, <1>4, <2>1, Zenon DEF Forwarded
<1>5. ASSUME NEW j \in DOMAIN v, v[j].kind = "data" PROVE \E i \in 1 .. j - 1 : v[i].to = v[j].to /\ v[i].kind # "data"
  <2>1. CASE j \in DOMAIN w /\ v[j] = w[j]
    <3>2. PICK i \in 1 .. j - 1 : w[i].to = w[j].to /\ w[i].kind # "data"
      BY <1>5, <2>1, Zenon DEF Forwarded
    <3>3. v[i] = w[i]
      BY <1>1, <2>1, Zenon
    <3> QED BY <2>1, <3>2, <3>3, Zenon
  <2>2. CASE j = k
    BY <1>1, <2>2, Zenon
  <2> QED BY <1>1, <2>1, <2>2, Zenon
<1>6. ASSUME NEW s, Queued(w, n, s), Below(<<m.n>>, s) PROVE Queued(v, n, s)
  <2>1. \A j \in DOMAIN s : m.n < s[j]
    <3>1. 1 \in DOMAIN <<m.n>> /\ <<m.n>>[1] = m.n
      OBVIOUS
    <3> QED BY <1>6, <3>1, Zenon DEF Below
  <2> QED BY <1>1, <1>6, <2>1, Zenon DEF Queued, Past
<1> QED BY <1>3, <1>4, <1>5, <1>6, Zenon DEF Forwarded, v

\* The bind message is written, or the provider is given up.
LEMMA PumpBindsProvider ==
  ASSUME IInv, NEW l \in Connectors, PumpBinds(l)
  PROVE  PumpInv' /\ OrderInv' /\ ReplyInv' /\ pump' \in [Connectors -> Pump] /\ fwd' \in Seq(Message)
<1>0. /\ pump[l] \in Pump /\ PumpOwn(pump[l], pumpActive, fwd) /\ pump[l].pc = "bind"
      /\ fwd \in Seq(Message) /\ Forwarded(fwd, Len(sent)) /\ Queued(fwd, Len(sent), orphan.items)
  BY OnePump, Zenon DEF IInv, TypeOK, PumpBinds, Message
<1>1. /\ toClient' = toClient /\ orphan' = orphan /\ pumpActive' = pumpActive /\ sent' = sent
      /\ UNCHANGED <<back, rebind, returnVars>>
  BY Zenon DEF PumpBinds, pumpFrame, linkVars, cacheVars
<1>2. Drains(pump[l]) /\ pumpActive /\ pump[l].to \in Providers
  BY <1>0 DEF Drains, PumpOwn
<1>3. Kept(fwd, Len(sent), orphan.items, pump[l]) /\ (toClient # NoLink => orphan.on)
  BY <1>2, OnePump, Zenon
<1>4. CASE Writes(pump[l].to)
  <2> DEFINE m == [to |-> pump[l].to, n |-> 0, kind |-> IF pump[l].bound THEN "resume" ELSE "connect"]
             q == [pump[l] EXCEPT !.bound = TRUE, !.pc = "take"]
  <2>1. m \in Message /\ m.kind # "data" /\ m.to = pump[l].to
    BY <1>2 DEF Message
  <2>2. fwd' = Append(fwd, m) /\ pump' = [pump EXCEPT ![l] = q]
    BY <1>4, Zenon DEF PumpBinds
  <2>3. /\ q \in Pump /\ q.pc = "take" /\ q.pending = pump[l].pending /\ q.held = pump[l].held /\ q.rest = pump[l].rest
        /\ q.closed = pump[l].closed /\ q.to = pump[l].to
    BY <1>0 DEF Pump
  <2> HIDE DEF m, q
  <2>4. /\ Forwarded(fwd', Len(sent)) /\ \A s : Queued(fwd, Len(sent), s) => Queued(fwd', Len(sent), s)
    BY <1>0, <2>1, <2>2, BindAppends, Zenon
  <2>5. fwd' \in Seq(Message) /\ \E i \in DOMAIN fwd' : fwd'[i] = m
    <3>1. fwd \in Seq(Message) /\ m \in Message
      BY <1>0, <2>1, Zenon
    <3>2. /\ fwd' \in Seq(Message) /\ \E i \in DOMAIN fwd' : fwd'[i] = m
          /\ \A i \in DOMAIN fwd : i \in DOMAIN fwd' /\ fwd'[i] = fwd[i]
      <4> DEFINE a == Append(fwd, m)
      <4>1. /\ a \in Seq(Message) /\ Len(fwd) + 1 \in DOMAIN a /\ a[Len(fwd) + 1] = m
            /\ \A i \in DOMAIN fwd : i \in DOMAIN a /\ a[i] = fwd[i]
        BY <3>1, Longer, Zenon
      <4>2. fwd' = a
        BY <2>2, Zenon
      <4> HIDE DEF a
      <4> QED BY <4>1, <4>2, Zenon
    <3> QED BY <3>2, Zenon
  <2>6. PumpOwn(q, pumpActive', fwd')
    BY <1>0, <1>1, <1>2, <2>1, <2>3, <2>5 DEF PumpOwn, Drains
  <2>7. Kept(fwd', Len(sent), orphan'.items, q)
    BY <1>1, <1>3, <2>3, <2>4, Zenon DEF Kept
  <2>8. toClient' # NoLink => orphan'.on
    BY <1>1, <1>3, Zenon
  <2>9. Queued(fwd', Len(sent), orphan'.items)
    BY <1>0, <1>1, <2>4, Zenon
  <2>10. \E x : fwd' = Append(fwd, x)
    BY <2>2, Zenon
  <2>11. PumpInv' /\ OrderInv'
    BY <1>1, <1>2, <2>2, <2>3, <2>4, <2>6, <2>7, <2>8, <2>9, <2>10, PumpGoesOn, Zenon
  <2>12. ReplyInv' /\ pump' \in [Connectors -> Pump]
    BY <1>0, <1>1, <2>2, <2>3, PumpWithoutReplies, Zenon
  <2> QED BY <2>5, <2>11, <2>12, Zenon
<1>5. CASE ~Writes(pump[l].to)
  <2> DEFINE q == Rebinding(pump[l], pump[l].pending)
  <2>1. fwd' = fwd /\ pump' = [pump EXCEPT ![l] = q]
    BY <1>5, Zenon DEF PumpBinds
  <2>2. /\ q \in Pump /\ q.pc = "loop" /\ q.pending = pump[l].pending /\ q.held = <<>> /\ q.rest = <<>>
    BY <1>0, NewPumps, PumpFields, Zenon
  <2> HIDE DEF q
  <2>3. PumpInv' /\ OrderInv' /\ ReplyInv' /\ pump' \in [Connectors -> Pump]
    <3>1. UNCHANGED <<back, rebind, returnVars, sent, fwd>>
      BY <1>1, <2>1, Zenon
    <3> QED BY <1>0, <1>1, <1>2, <1>3, <2>1, <2>2, <3>1, PumpIdles, Zenon
  <2> QED BY <1>0, <2>1, <2>3, Zenon
<1> QED BY <1>4, <1>5, Zenon

\* The next message is written, or kept for the next provider.
LEMMA PumpWrites ==
  ASSUME IInv, NEW l \in Connectors, PumpForwards(l)
  PROVE  PumpInv' /\ OrderInv' /\ ReplyInv' /\ pump' \in [Connectors -> Pump] /\ fwd' \in Seq(Message)
<1> DEFINE p == pump[l]
           s == NextMessage(l)
           h == Head(s)
           again == p.pending # <<>>
           n == Len(sent)
<1>0. /\ p \in Pump /\ PumpOwn(p, pumpActive, fwd) /\ p.pc = "forward"
      /\ fwd \in Seq(Message) /\ Forwarded(fwd, n) /\ Queued(fwd, n, orphan.items)
      /\ orphan \in Queue /\ orphan.items \in Seq(Nat) /\ sent \in Seq(Connectors) /\ s # <<>>
  BY OnePump, QueueFields, Zenon DEF IInv, TypeOK, PumpForwards, Message
<1>1. /\ toClient' = toClient /\ pumpActive' = pumpActive /\ sent' = sent
      /\ UNCHANGED <<back, rebind, returnVars>>
  BY Zenon DEF PumpForwards, pumpFrame, linkVars, cacheVars
<1>2. /\ Drains(p) /\ pumpActive /\ p.to \in Providers /\ n \in Nat
      /\ \E i \in DOMAIN fwd : fwd[i].to = p.to /\ fwd[i].kind # "data"
  BY <1>0 DEF Drains, PumpOwn
<1>3. /\ Kept(fwd, n, orphan.items, p) /\ (toClient # NoLink => orphan.on)
      /\ p.pending \in Seq(Nat) /\ p.rest \in Seq(Nat)
  BY <1>0, <1>2, OnePump, PumpFields, Zenon
<1>4. /\ s \in Seq(Nat) /\ Queued(fwd, n, s)
      /\ again => s = p.pending
      /\ ~again /\ p.closed => s = p.rest
      /\ ~again /\ ~p.closed => s = orphan.items
  BY <1>0, <1>3, Zenon DEF NextMessage, Kept
<1>5. orphan' = IF again \/ p.closed THEN orphan ELSE [orphan EXCEPT !.items = Tail(orphan.items)]
  BY Zenon DEF PumpForwards
<1>6. IF Writes(p.to)
        THEN /\ fwd' = Append(fwd, [to |-> p.to, kind |-> "data", n |-> h])
             /\ pump' = [pump EXCEPT ![l] = [p EXCEPT !.pending = <<>>, !.rest = IF again \/ ~p.closed THEN p.rest ELSE Tail(p.rest)]]
        ELSE fwd' = fwd /\ pump' = [pump EXCEPT ![l] = Rebinding(p, <<h>>)]
  <2>1. CASE Writes(p.to)
    BY <2>1, Zenon DEF PumpForwards
  <2>2. CASE ~Writes(p.to)
    BY <2>2, Zenon DEF PumpForwards
  <2> QED BY <2>1, <2>2, Zenon
<1> HIDE DEF s
<1>7. /\ h \in Nat /\ h <= n /\ <<h>> \in Seq(Nat) /\ Queued(fwd, n, <<h>>)
      /\ \A i \in DOMAIN fwd : fwd[i].kind = "data" => fwd[i].n < h
      /\ Tail(s) \in Seq(Nat) /\ Queued(fwd, n, Tail(s)) /\ Below(<<h>>, Tail(s))
  BY <1>0, <1>2, <1>4, HeadOf
<1>8. \A t : /\ Below(s, t) => Below(<<h>>, t) /\ Below(Tail(s), t)
             /\ Below(t, s) => Below(t, Tail(s))
  BY <1>0, <1>4, HeadBelow
<1> DEFINE rest == IF again \/ ~p.closed THEN p.rest ELSE Tail(p.rest)
           items == IF again \/ p.closed THEN orphan.items ELSE Tail(orphan.items)
<1>9. /\ orphan'.items = items /\ orphan'.on = orphan.on /\ items \in Seq(Nat) /\ rest \in Seq(Nat)
  <2>1. ~(again \/ p.closed) => Tail(orphan.items) \in Seq(Nat)
    BY <1>4, <1>7, Zenon
  <2>2. ~(again \/ ~p.closed) => Tail(p.rest) \in Seq(Nat)
    BY <1>4, <1>7, Zenon
  <2> QED BY <1>0, <1>3, <1>5, <2>1, <2>2, QueueItems, Zenon
<1> HIDE DEF h
<1>10. /\ Queued(fwd, n, rest) /\ Queued(fwd, n, items) /\ Below(<<h>>, rest) /\ Below(<<h>>, items) /\ Below(rest, items)
       /\ ~p.closed => rest = <<>>
  <2>1. CASE again
    BY <1>0, <1>3, <1>4, <1>8, <2>1, Zenon DEF Kept, PumpOwn
  <2>2. CASE ~again /\ p.closed
    BY <1>0, <1>3, <1>4, <1>7, <1>8, <2>2, Zenon DEF Kept
  <2>3. CASE ~again /\ ~p.closed
    BY <1>0, <1>3, <1>4, <1>7, <1>8, <2>3, NoneQueued, Zenon DEF Kept, PumpOwn
  <2> QED BY <2>1, <2>2, <2>3, Zenon
<1>11. toClient' # NoLink => orphan'.on
  BY <1>1, <1>3, <1>9, Zenon
<1>12. CASE Writes(p.to)
  <2> DEFINE m == [to |-> p.to, kind |-> "data", n |-> h]
             q == [p EXCEPT !.pending = <<>>, !.rest = rest]
  <2>1. m \in Message /\ m.kind = "data" /\ m.to = p.to /\ m.n = h
    BY <1>2, <1>7 DEF Message
  <2>2. fwd' = Append(fwd, m) /\ pump' = [pump EXCEPT ![l] = q]
    BY <1>6, <1>12, Zenon
  <2>3. /\ q \in Pump /\ q.pc = "forward" /\ q.pending = <<>> /\ q.held = p.held /\ q.rest = rest
        /\ q.closed = p.closed /\ q.to = p.to
    <3> DEFINE e == <<>>
    <3>1. e \in Seq(Nat)
      OBVIOUS
    <3> HIDE DEF e
    <3> HIDE DEF rest
    <3>2. LET r == [p EXCEPT !.pending = e, !.rest = rest] IN
          /\ r \in Pump /\ r.pc = p.pc /\ r.pending = e /\ r.held = p.held /\ r.rest = rest
          /\ r.closed = p.closed /\ r.to = p.to
      BY <1>0, <1>9, <3>1 DEF Pump
    <3> QED BY <1>0, <3>2, Zenon DEF e
  <2> HIDE DEF m, q
  <2>4. /\ Forwarded(fwd', n) /\ \A t : Queued(fwd, n, t) /\ Below(<<h>>, t) => Queued(fwd', n, t)
    BY <1>0, <1>2, <1>7, <2>1, <2>2, DataAppends, Zenon
  <2>5. fwd' \in Seq(Message) /\ \A i \in DOMAIN fwd : i \in DOMAIN fwd' /\ fwd'[i] = fwd[i]
    <3>1. fwd \in Seq(Message) /\ m \in Message
      BY <1>0, <2>1, Zenon
    <3>2. /\ fwd' \in Seq(Message) /\ \E i \in DOMAIN fwd' : fwd'[i] = m
          /\ \A i \in DOMAIN fwd : i \in DOMAIN fwd' /\ fwd'[i] = fwd[i]
      <4> DEFINE a == Append(fwd, m)
      <4>1. /\ a \in Seq(Message) /\ Len(fwd) + 1 \in DOMAIN a /\ a[Len(fwd) + 1] = m
            /\ \A i \in DOMAIN fwd : i \in DOMAIN a /\ a[i] = fwd[i]
        BY <3>1, Longer, Zenon
      <4>2. fwd' = a
        BY <2>2, Zenon
      <4> HIDE DEF a
      <4> QED BY <4>1, <4>2, Zenon
    <3> QED BY <3>2, Zenon
  <2> HIDE DEF rest, items
  <2>6. PumpOwn(q, pumpActive', fwd')
    BY <1>0, <1>1, <1>2, <1>10, <2>3, <2>5 DEF PumpOwn, Drains
  <2>7. Kept(fwd', n, orphan'.items, q) /\ Queued(fwd', n, orphan'.items)
    BY <1>9, <1>10, <2>3, <2>4, NoneQueued, Zenon DEF Kept
  <2>8. \E x : fwd' = Append(fwd, x)
    BY <2>2, Zenon
  <2>9. PumpInv' /\ OrderInv'
    BY <1>1, <1>2, <1>11, <2>2, <2>3, <2>4, <2>6, <2>7, <2>8, PumpGoesOn, Zenon
  <2>10. ReplyInv' /\ pump' \in [Connectors -> Pump]
    BY <1>0, <1>1, <2>2, <2>3, PumpWithoutReplies, Zenon
  <2> QED BY <2>5, <2>9, <2>10, Zenon
<1>13. CASE ~Writes(p.to)
  <2> DEFINE q == Rebinding(p, <<h>>)
  <2>1. fwd' = fwd /\ pump' = [pump EXCEPT ![l] = q]
    BY <1>6, <1>13, Zenon
  <2>2. q \in Pump /\ q.pc = "loop" /\ q.pending = <<h>> /\ q.held = <<>> /\ q.rest = <<>>
    BY <1>0, <1>7, NewPumps, Zenon
  <2> HIDE DEF q, rest, items
  <2>3. PumpOwn(q, pumpActive', fwd')
    BY <1>1, <1>2, <2>2 DEF PumpOwn, Drains
  <2>4. Kept(fwd', n, orphan'.items, q) /\ Queued(fwd', n, orphan'.items)
    BY <1>7, <1>9, <1>10, <2>1, <2>2, NoneQueued, Zenon DEF Kept
  <2>5. Forwarded(fwd', n)
    BY <1>0, <2>1, Zenon
  <2>6. PumpInv' /\ OrderInv'
    BY <1>1, <1>2, <1>11, <2>1, <2>2, <2>3, <2>4, <2>5, PumpGoesOn, Zenon
  <2>7. ReplyInv' /\ pump' \in [Connectors -> Pump]
    BY <1>0, <1>1, <2>1, <2>2, PumpWithoutReplies, Zenon
  <2> QED BY <1>0, <2>1, <2>6, <2>7, Zenon
<1> QED BY <1>12, <1>13, Zenon

\* A payload is numbered after all before it.
LEMMA NextNumber ==
  ASSUME NEW w \in Seq(Message), NEW n \in Nat, Forwarded(w, n)
  PROVE  /\ Forwarded(w, n + 1)
         /\ \A t \in Seq(Nat) : Queued(w, n, t) => Queued(w, n + 1, t)
<1>1. \A i \in DOMAIN w : w[i].n \in Nat
  <2>1. \A i \in DOMAIN w : w[i] \in Message
    <3> HIDE DEF Message
    <3> QED OBVIOUS
  <2>2. \A m \in Message : m.n \in Nat
    BY DEF Message
  <2> QED BY <2>1, <2>2, Zenon
<1>2. Forwarded(w, n + 1)
  <2>1. \A i \in DOMAIN w : w[i].kind = "data" => w[i].n <= n + 1
    BY <1>1 DEF Forwarded
  <2> QED BY <2>1, Zenon DEF Forwarded
<1>3. ASSUME NEW t \in Seq(Nat), Queued(w, n, t) PROVE Queued(w, n + 1, t)
  <2>1. UpTo(t, n + 1)
    BY <1>3 DEF UpTo, Queued
  <2> QED BY <1>3, <2>1, Zenon DEF Queued
<1> QED BY <1>2, <1>3, Zenon

\* It goes to the end of the queue.
LEMMA Enqueues ==
  ASSUME NEW w \in Seq(Message), NEW n \in Nat, Forwarded(w, n), NEW s \in Seq(Nat), Queued(w, n, s)
  PROVE  /\ Queued(w, n + 1, Append(s, n + 1))
         /\ \A t \in Seq(Nat) : Queued(w, n, t) /\ Below(t, s) => Below(t, Append(s, n + 1))
<1> DEFINE u == Append(s, n + 1)
           k == Len(s) + 1
<1>1. /\ u \in Seq(Nat) /\ u[k] = n + 1 /\ \A i, j \in DOMAIN u : i < j => i # k
      /\ \A i \in DOMAIN u : i = k \/ (i \in DOMAIN s /\ u[i] = s[i])
      /\ \A i \in DOMAIN s : s[i] \in Nat
  OBVIOUS
<1>2. \A x \in Nat : x <= n => x < n + 1
  OBVIOUS
<1>3. \A i \in DOMAIN w : w[i].n \in Nat
  <2>1. \A i \in DOMAIN w : w[i] \in Message
    <3> HIDE DEF Message
    <3> QED OBVIOUS
  <2>2. \A m \in Message : m.n \in Nat
    BY DEF Message
  <2> QED BY <2>1, <2>2, Zenon
<1> HIDE DEF u, k
<1>4. Queued(w, n + 1, s)
  BY NextNumber, Zenon
<1>5. Ascending(u)
  BY <1>1, <1>2, Zenon DEF Ascending, Queued, UpTo
<1>6. UpTo(u, n + 1)
  <2>1. n + 1 <= n + 1
    OBVIOUS
  <2> QED BY <1>1, <1>4, <2>1, Zenon DEF Queued, UpTo
<1>7. Past(w, u)
  BY <1>1, <1>2, <1>3, Zenon DEF Past, Queued, Forwarded
<1>8. ASSUME NEW t \in Seq(Nat), Queued(w, n, t), Below(t, s) PROVE Below(t, u)
  <2>1. \A i \in DOMAIN t : t[i] < n + 1
    BY <1>2, <1>8 DEF Queued, UpTo
  <2> QED BY <1>1, <1>8, <2>1, Zenon DEF Below
<1> QED BY <1>5, <1>6, <1>7, <1>8, Zenon DEF Queued, u

\* A payload of the connector arrives.
LEMMA PayloadArrives ==
  ASSUME IInv, NEW l \in Connectors, RouteConnectorPayload(l)
  PROVE  PumpInv' /\ OrderInv' /\ ReplyInv' /\ fwd' = fwd /\ sent' \in Seq(Connectors) /\ pump' = pump
<1> DEFINE n == Len(sent)
<1>0. /\ orphan \in Queue /\ orphan.items \in Seq(Nat) /\ (~orphan.on => orphan = NoQueue) /\ Len(orphan.items) <= QueueSize
      /\ fwd \in Seq(Message) /\ sent \in Seq(Connectors) /\ PumpInv /\ OrderInv
  BY QueueFields, Zenon DEF IInv, TypeOK, Message
<1>1. /\ sent' = Append(sent, l) /\ toClient' = toClient /\ pumpActive' = pumpActive /\ pump' = pump
      /\ rebind' = rebind /\ back' = back /\ ret' = ret /\ inbound' = inbound /\ produced' = produced /\ lossy' = lossy
      /\ response' = response
  BY Zenon DEF RouteConnectorPayload, linkVars, returnVars
<1>2. sent' \in Seq(Connectors) /\ Len(sent') = n + 1 /\ n \in Nat
  BY <1>0, <1>1
<1>3. fwd' = fwd /\ orphan' = Put(Reserved(orphan), n + 1)
  <2>1. toClient # NoLink => orphan.on
    BY <1>0, Zenon DEF PumpInv, QueueWhileBound
  <2> QED BY <2>1, Zenon DEF RouteConnectorPayload
<1>4. Reserved(orphan) \in Queue /\ Reserved(orphan).on /\ Reserved(orphan).items = orphan.items
  BY <1>0 DEF Reserved, NoQueue, Queue
<1>5. orphan'.on /\ (orphan'.items = orphan.items \/ orphan'.items = Append(orphan.items, n + 1))
  <2>1. Append(orphan.items, n + 1) \in Seq(Nat)
    BY <1>0, <1>2
  <2>2. \/ orphan' = Reserved(orphan)
        \/ orphan' = [Reserved(orphan) EXCEPT !.items = Append(Reserved(orphan).items, n + 1)]
    BY <1>3, Zenon DEF Put
  <2>3. CASE orphan' = Reserved(orphan)
    BY <1>4, <2>3, Zenon
  <2>4. CASE orphan' = [Reserved(orphan) EXCEPT !.items = Append(Reserved(orphan).items, n + 1)]
    <3> DEFINE u == Append(orphan.items, n + 1)
               r == [Reserved(orphan) EXCEPT !.items = u]
    <3>1. orphan' = r
      BY <1>4, <2>4
    <3>2. r.on /\ r.items = u
      BY <1>4, <2>1, QueueItems, Zenon
    <3> HIDE DEF r
    <3> QED BY <3>1, <3>2, Zenon
  <2> QED BY <2>2, <2>3, <2>4, Zenon
<1>6. Forwarded(fwd, n) /\ Queued(fwd, n, orphan.items) /\ Forwarded(fwd, n + 1)
      /\ \A t \in Seq(Nat) : Queued(fwd, n, t) => Queued(fwd, n + 1, t)
  BY <1>0, <1>2, NextNumber, Zenon DEF OrderInv
<1>7. /\ Queued(fwd, n + 1, orphan'.items)
      /\ \A t \in Seq(Nat) : Queued(fwd, n, t) /\ Below(t, orphan.items) => Below(t, orphan'.items)
  <2>1. CASE orphan'.items = orphan.items
    BY <1>0, <1>6, <2>1, Zenon
  <2>2. CASE orphan'.items = Append(orphan.items, n + 1)
    <3> DEFINE u == Append(orphan.items, n + 1)
    <3>1. /\ Queued(fwd, n + 1, u)
          /\ \A t \in Seq(Nat) : Queued(fwd, n, t) /\ Below(t, orphan.items) => Below(t, u)
      BY <1>0, <1>2, <1>6, Enqueues, Zenon
    <3>2. orphan'.items = u
      BY <2>2, Zenon
    <3> HIDE DEF u
    <3> QED BY <3>1, <3>2, Zenon
  <2> QED BY <1>5, <2>1, <2>2, Zenon
<1> HIDE DEF n
<1>8. ASSUME NEW k \in Connectors, Drains(pump[k]) PROVE Kept(fwd, n + 1, orphan'.items, pump[k])
  <2>1. Kept(fwd, n, orphan.items, pump[k])
    BY <1>0, <1>8, Zenon DEF OrderInv, n
  <2>2. pump[k].pending \in Seq(Nat) /\ pump[k].rest \in Seq(Nat)
    BY OnePump, PumpFields, Zenon
  <2> QED BY <1>6, <1>7, <2>1, <2>2, Zenon DEF Kept
<1>9. PumpInv'
  BY <1>0, <1>1, <1>3, <1>5, Zenon DEF PumpInv, QueueWhileBound, Draining
<1>10. OrderInv'
  BY <1>1, <1>2, <1>3, <1>6, <1>7, <1>8, Zenon DEF OrderInv, n
<1>11. ReplyInv'
  <2>1. \A k \in Connectors : /\ pump'[k].held = pump[k].held
                              /\ pump'[k].pc = "replay" <=> pump[k].pc = "replay"
                              /\ rebind'[k].held = rebind[k].held
                              /\ rebind'[k].pc = "replay" <=> rebind[k].pc = "replay"
    BY <1>1, Zenon
  <2>2. /\ back'.items = back.items /\ (back.on => back'.on)
        /\ UNCHANGED <<produced, lossy>> /\ (response'.pc # "done" => response.pc # "done")
    BY <1>1, Zenon
  <2> QED BY <1>1, <2>1, <2>2, ReplySame, Zenon
<1> QED BY <1>1, <1>2, <1>3, <1>9, <1>10, <1>11, Zenon

-----------------------------------------------------------------------------
(* The steps of the replies.                                               *)

\* The bins, and that they are different.
LEMMA BinNames ==
  /\ RetBin \in Bins /\ BackBin \in Bins /\ RetBin # BackBin
  /\ \A l \in Connectors : PumpBin(l) \in Bins \ {RetBin, BackBin} /\ RebindBin(l) \in Bins \ {RetBin, BackBin}
  /\ \A p \in Providers : DataBin(p) \in Bins \ {RetBin, BackBin}
  /\ \A k, l \in Connectors : PumpBin(k) # RebindBin(l) /\ (PumpBin(k) = PumpBin(l) => k = l) /\ (RebindBin(k) = RebindBin(l) => k = l)
  /\ \A p \in Providers, l \in Connectors : DataBin(p) # PumpBin(l) /\ DataBin(p) # RebindBin(l)
  /\ \A p, o \in Providers : DataBin(p) = DataBin(o) => p = o
  /\ \A b \in Bins : \/ b = RetBin \/ b = BackBin
                     \/ \E l \in Connectors : b = PumpBin(l) \/ b = RebindBin(l)
                     \/ \E p \in Providers : b = DataBin(p)
<1>1. /\ RetBin \in Bins /\ BackBin \in Bins /\ RetBin # BackBin
      /\ \A l \in Connectors : PumpBin(l) \in Bins \ {RetBin, BackBin} /\ RebindBin(l) \in Bins \ {RetBin, BackBin}
      /\ \A p \in Providers : DataBin(p) \in Bins \ {RetBin, BackBin}
  BY DEF Bins, RetBin, BackBin, PumpBin, RebindBin, DataBin
<1>2. /\ \A k, l \in Connectors : PumpBin(k) # RebindBin(l) /\ (PumpBin(k) = PumpBin(l) => k = l) /\ (RebindBin(k) = RebindBin(l) => k = l)
      /\ \A p \in Providers, l \in Connectors : DataBin(p) # PumpBin(l) /\ DataBin(p) # RebindBin(l)
      /\ \A p, o \in Providers : DataBin(p) = DataBin(o) => p = o
  BY DEF PumpBin, RebindBin, DataBin
<1>3. \A b \in Bins : \/ b = RetBin \/ b = BackBin
                      \/ \E l \in Connectors : b = PumpBin(l) \/ b = RebindBin(l)
                      \/ \E p \in Providers : b = DataBin(p)
  BY DEF Bins, RetBin, BackBin, PumpBin, RebindBin, DataBin
<1> QED BY <1>1, <1>2, <1>3, Zenon

\* The bins of a state of the right types.
LEMMA BinsFilled ==
  ASSUME NEW r \in Seq(Nat), NEW k \in Queue, NEW pu \in [Connectors -> Pump], NEW re \in [Connectors -> Rebind],
         NEW inb \in [Providers -> [n : Nat \cup {-1}, target : Connector]], \A p \in Providers : inb[p].n = -1 => inb[p] = Idle
  PROVE  Filled(BinsOf(r, k, pu, re, inb), r, k, pu, re, inb)
<1>1. k.items \in Seq(Nat)
  BY QueueFields, Zenon
<1>2. \A l \in Connectors : pu[l].held \in Seq(Nat) /\ re[l].held \in Seq(Nat)
  <2>1. \A q \in Rebind : q.held \in Seq(Nat)
    BY DEF Rebind
  <2> QED BY <2>1, PumpFields, Zenon
<1>3. \A p \in Providers : inb[p] = Idle \/ inb[p].n \in Nat
  <2>1. \A p \in Providers : inb[p].n \in Nat \/ inb[p].n = -1
    OBVIOUS
  <2> QED BY <2>1, Zenon
<1> QED BY <1>1, <1>2, <1>3, BinsAre, Zenon

\* ... now and after a step.
LEMMA BinsNow ==
  ASSUME IInv, ret' \in Seq(Nat), back' \in Queue, pump' \in [Connectors -> Pump], rebind' \in [Connectors -> Rebind],
         inbound' \in [Providers -> [n : Nat \cup {-1}, target : Connector]],
         \A p \in Providers : inbound'[p].n = -1 => inbound'[p] = Idle
  PROVE  /\ Filled(bins, ret, back, pump, rebind, inbound) /\ Apart(bins)
         /\ Filled(bins', ret', back', pump', rebind', inbound')
<1>1. Filled(BinsOf(ret, back, pump, rebind, inbound), ret, back, pump, rebind, inbound)
  BY BinsFilled, Zenon DEF IInv, TypeOK, ReplyInv
<1>2. Filled(BinsOf(ret', back', pump', rebind', inbound'), ret', back', pump', rebind', inbound')
  BY BinsFilled, Zenon
<1> QED BY <1>1, <1>2, Zenon DEF bins, IInv, ReplyInv

\* Which replies the bins hold.
Accounted(f, total, pc, lost) ==
  /\ Apart(f) /\ All(f) \subseteq 0 .. total
  /\ pc # "done" => 0 \notin All(f)
  /\ lost \/ 1 .. total \subseteq All(f)

\* Which goroutine has replies in its hands.
InHands(on, lost) ==
  \A l \in Connectors :
    /\ pump[l].held # <<>> <=> pump[l].pc = "replay"
    /\ rebind[l].held # <<>> <=> rebind[l].pc = "replay"
    /\ pump[l].held # <<>> \/ rebind[l].held # <<>> => lost \/ on

\* The invariant in these terms.
LEMMA ReplyParts ==
  /\ ReplyInv => /\ Accounted(bins, produced, response.pc, lossy) /\ InHands(back.on, lossy)
                 /\ \A p \in Providers : inbound[p].n = -1 => inbound[p] = Idle
  /\ ReplyInv' <=> /\ Accounted(bins', produced', response'.pc, lossy')
                   /\ \A l \in Connectors :
                        /\ pump'[l].held # <<>> <=> pump'[l].pc = "replay"
                        /\ rebind'[l].held # <<>> <=> rebind'[l].pc = "replay"
                        /\ pump'[l].held # <<>> \/ rebind'[l].held # <<>> => lossy' \/ back'.on
                   /\ \A p \in Providers : inbound'[p].n = -1 => inbound'[p] = Idle
BY Zenon DEF ReplyInv, Accounted, InHands

\* The bins change and hold the same, or less when replies were lost.
LEMMA Reaccounted ==
  ASSUME NEW f, NEW g, NEW total, NEW pc, NEW lost, NEW late, Accounted(f, total, pc, lost), Apart(g),
         All(g) \subseteq All(f), All(g) = All(f) \/ late, lost => late
  PROVE  Accounted(g, total, pc, late)
BY Zenon DEF Accounted

\* The channel is removed, or its unbound return queue expires.
LEMMA ReplyForgotten ==
  ASSUME IInv, back' = NoQueue, lossy', UNCHANGED <<ret, rebind, inbound, produced, response>>,
         pump' \in [Connectors -> Pump],
         \A l \in Connectors : pump'[l].held = pump[l].held /\ (pump'[l].pc = "replay" <=> pump[l].pc = "replay")
  PROVE  ReplyInv'
<1>1. /\ ret' = ret /\ rebind' = rebind /\ inbound' = inbound /\ produced' = produced /\ response' = response
  BY Zenon
<1>2. ReplyInv /\ \A p \in Providers : inbound'[p].n = -1 => inbound'[p] = Idle
  BY <1>1, Zenon DEF IInv, ReplyInv
<1>3. /\ Filled(bins, ret, back, pump, rebind, inbound) /\ Apart(bins)
      /\ Filled(bins', ret, back', pump', rebind, inbound)
  BY <1>1, <1>2, BinsNow, NoQueueIs, Zenon DEF IInv, TypeOK
<1>4. \A b \in Bins : bins'[b] = bins[b] \/ bins'[b] = <<>>
  <2>1. /\ bins'[RetBin] = bins[RetBin] /\ bins'[BackBin] = <<>>
        /\ \A l \in Connectors : bins'[PumpBin(l)] = bins[PumpBin(l)] /\ bins'[RebindBin(l)] = bins[RebindBin(l)]
    BY <1>3, NoQueueIs, Zenon DEF Filled
  <2>2. \A p \in Providers : bins'[DataBin(p)] = bins[DataBin(p)]
    BY <1>3, Zenon DEF Filled
  <2> QED BY <2>1, <2>2, BinNames, Zenon
<1>5. Apart(bins') /\ All(bins') \subseteq All(bins)
  BY <1>3, <1>4, Empties, Zenon
<1>6. Accounted(bins', produced, response.pc, lossy')
  BY <1>2, <1>5, ReplyParts, Reaccounted, Zenon
<1>7. \A l \in Connectors :
         /\ pump'[l].held # <<>> <=> pump'[l].pc = "replay"
         /\ rebind'[l].held # <<>> <=> rebind'[l].pc = "replay"
  BY <1>1, <1>2, Zenon DEF ReplyInv
<1> QED BY <1>1, <1>2, <1>6, <1>7, ReplyParts, Zenon

\* cleanupConnectorChannel, whoever runs it.
LEMMA ChannelRemoved ==
  ASSUME IInv, NEW pumps \in [Connectors -> Pump], CleanupConnectorChannel(pumps),
         UNCHANGED <<fwd, sent, ret, rebind, inbound, produced, response>>,
         \A l \in Connectors : pumps[l] = pump[l] \/ (pumps[l] = Ended /\ pump[l].pc = "cleanup")
  PROVE  PumpInv' /\ OrderInv' /\ ReplyInv' /\ pump' \in [Connectors -> Pump]
<1>1. /\ orphan' = NoQueue /\ toClient' = NoLink /\ pump' = Closed(pumps) /\ back' = NoQueue /\ lossy'
      /\ UNCHANGED <<pumpActive, fwd, sent>> /\ UNCHANGED <<ret, rebind, inbound, produced, response>>
  BY Zenon DEF CleanupConnectorChannel
<1>2. /\ PumpInv' /\ OrderInv' /\ pump' \in [Connectors -> Pump]
      /\ \A l \in Connectors : pump'[l].held = pumps[l].held /\ pump'[l].pc = pumps[l].pc
  BY <1>1, QueueCloses, Zenon
<1>3. \A l \in Connectors : pump[l].pc = "cleanup" => pump[l].held = <<>>
  BY Zenon DEF IInv, ReplyInv
<1>4. \A l \in Connectors : pump'[l].held = pump[l].held /\ (pump'[l].pc = "replay" <=> pump[l].pc = "replay")
  BY <1>2, <1>3, NewPumps, ZenonT(40)
<1>5. ReplyInv'
  BY <1>1, <1>2, <1>4, ReplyForgotten, Zenon
<1> QED BY <1>2, <1>5, Zenon

\* A grace timer, a disconnect and a pump that ends run it.
LEMMA Removals ==
  ASSUME IInv, DisconnectRuns \/ (\E w \in Links : GraceExpires(w)) \/ (\E l \in Connectors : PumpCleansUp(l))
  PROVE  PumpInv' /\ OrderInv' /\ ReplyInv' /\ pump' \in [Connectors -> Pump]
<1>1. UNCHANGED <<fwd, sent, ret, rebind, inbound, produced, response>>
  BY Zenon DEF DisconnectRuns, GraceExpires, PumpCleansUp, pumpFrame, linkVars
<1>2. pump \in [Connectors -> Pump]
  BY Zenon DEF IInv, TypeOK
<1>3. CASE CleanupConnectorChannel(pump)
  BY <1>1, <1>2, <1>3, ChannelRemoved, Zenon
<1>4. ASSUME NEW l \in Connectors, PumpCleansUp(l)
      PROVE  PumpInv' /\ OrderInv' /\ ReplyInv' /\ pump' \in [Connectors -> Pump]
  <2> DEFINE pumps == [pump EXCEPT ![l] = Ended]
  <2>1. CleanupConnectorChannel(pumps) /\ pump[l].pc = "cleanup"
    BY <1>4, Zenon DEF PumpCleansUp
  <2>2. pumps \in [Connectors -> Pump] /\ \A k \in Connectors : pumps[k] = pump[k] \/ (pumps[k] = Ended /\ pump[k].pc = "cleanup")
    BY <1>2, <2>1, NewPumps
  <2> HIDE DEF pumps
  <2> QED BY <1>1, <2>1, <2>2, ChannelRemoved, Zenon
<1> QED BY <1>3, <1>4, Zenon DEF DisconnectRuns, GraceExpires

\* The timers of the two queues.
LEMMA Expiries ==
  ASSUME IInv, ExpireOrphanData \/ ExpireConnectorReturn
  PROVE  PumpInv' /\ OrderInv' /\ ReplyInv' /\ pump' \in [Connectors -> Pump]
<1>0. pump \in [Connectors -> Pump] /\ orphan \in Queue /\ back \in Queue
  BY Zenon DEF IInv, TypeOK
<1>1. CASE ExpireOrphanData
  <2>1. /\ rebind' = rebind /\ back' = back /\ ret' = ret /\ inbound' = inbound /\ produced' = produced /\ lossy' = lossy
        /\ response' = response /\ toClient' = toClient /\ UNCHANGED <<pumpActive, fwd, sent>>
    BY <1>1, Zenon DEF ExpireOrphanData, linkVars, returnVars
  <2>2. /\ PumpInv' /\ OrderInv' /\ pump' \in [Connectors -> Pump]
        /\ \A l \in Connectors : pump'[l].held = pump[l].held /\ (pump'[l].pc = "replay" <=> pump[l].pc = "replay")
    <3>1. CASE toClient # NoLink
      <4>1. pump' = pump /\ orphan'.items = orphan.items /\ (orphan.on => orphan'.on)
        BY <1>0, <1>1, <3>1, QueueTimer, Zenon DEF ExpireOrphanData
      <4>2. UNCHANGED <<toClient, pumpActive, fwd, sent>>
        BY <2>1, Zenon
      <4>3. PumpInv' /\ OrderInv'
        BY <4>1, <4>2, ForwardSame, Zenon
      <4> QED BY <1>0, <4>1, <4>3, Zenon
    <3>2. CASE toClient = NoLink
      <4>1. pump' = Closed(pump) /\ orphan' = NoQueue /\ toClient' = NoLink
        BY <1>1, <2>1, <3>2, Zenon DEF ExpireOrphanData
      <4> QED BY <1>0, <2>1, <4>1, QueueCloses, Zenon
    <3> QED BY <3>1, <3>2, Zenon
  <2>3. ReplyInv'
    <3>1. \A k \in Connectors : /\ pump'[k].held = pump[k].held
                                /\ pump'[k].pc = "replay" <=> pump[k].pc = "replay"
                                /\ rebind'[k].held = rebind[k].held
                                /\ rebind'[k].pc = "replay" <=> rebind[k].pc = "replay"
      BY <2>1, <2>2, Zenon
    <3>2. /\ back'.items = back.items /\ (back.on => back'.on)
          /\ UNCHANGED <<produced, lossy>> /\ (response'.pc # "done" => response.pc # "done")
      BY <2>1, Zenon
    <3> QED BY <2>1, <3>1, <3>2, ReplySame, Zenon
  <2> QED BY <2>2, <2>3, Zenon
<1>2. CASE ExpireConnectorReturn
  <2>1. /\ rebind' = rebind /\ ret' = ret /\ inbound' = inbound /\ produced' = produced
        /\ response' = response /\ pump' = pump /\ orphan' = orphan /\ UNCHANGED <<toClient, pumpActive, fwd, sent>>
    BY <1>2, Zenon DEF ExpireConnectorReturn, linkVars
  <2>2. PumpInv' /\ OrderInv'
    BY <2>1, ForwardSame, Zenon
  <2>3. \A k \in Connectors : /\ pump'[k].held = pump[k].held
                              /\ pump'[k].pc = "replay" <=> pump[k].pc = "replay"
                              /\ rebind'[k].held = rebind[k].held
                              /\ rebind'[k].pc = "replay" <=> rebind[k].pc = "replay"
    BY <2>1, Zenon
  <2>4. CASE toConnector # NoLink
    <3>1. back'.items = back.items /\ (back.on => back'.on)
      BY <1>0, <1>2, <2>4, QueueTimer, Zenon DEF ExpireConnectorReturn
    <3>2. lossy' = lossy
      BY <1>2, <2>4 DEF ExpireConnectorReturn, IInv, TypeOK
    <3>3. UNCHANGED <<produced, lossy>> /\ (response'.pc # "done" => response.pc # "done")
      BY <2>1, <3>2, Zenon
    <3>4. ReplyInv'
      BY <2>1, <2>3, <3>1, <3>3, ReplySame, Zenon
    <3> QED BY <1>0, <2>1, <2>2, <3>4, Zenon
  <2>5. CASE toConnector = NoLink
    <3>1. back' = NoQueue /\ lossy'
      BY <1>2, <2>5, Zenon DEF ExpireConnectorReturn
    <3>2. ReplyInv'
      BY <1>0, <2>1, <2>3, <3>1, ReplyForgotten, Zenon
    <3> QED BY <1>0, <2>1, <2>2, <3>2, Zenon
  <2> QED BY <2>4, <2>5, Zenon
<1> QED BY <1>1, <1>2, Zenon

\* What a drain takes.
LEMMA TakenIs ==
  ASSUME IInv, back' = [back EXCEPT !.items = <<>>]
  PROVE  /\ Taken = back.items /\ Taken \in Seq(Nat) /\ back' \in Queue /\ back'.items = <<>> /\ back'.on = back.on
         /\ Taken # <<>> => back.on
<1>1. back \in Queue /\ (~back.on => back = NoQueue)
  BY Zenon DEF IInv, TypeOK
<1>2. /\ back' \in Queue /\ back'.items = <<>> /\ back'.on = back.on
  BY <1>1, QueueItems, FewHold, Zenon
<1>3. Taken = back.items /\ (Taken # <<>> => back.on)
  BY <1>1, NoQueueIs, Zenon DEF Taken
<1> QED BY <1>1, <1>2, <1>3, QueueFields, Zenon

\* Everything in the return queue goes to one bin.
LEMMA DrainAccounted ==
  ASSUME Accounted(bins, produced, response.pc, lossy), NEW x \in Bins, x # BackBin, bins[x] = <<>>,
         bins'[x] = bins[BackBin], bins'[BackBin] = <<>>,
         \A b \in Bins : b # x /\ b # BackBin => bins'[b] = bins[b]
  PROVE  Accounted(bins', produced, response.pc, lossy)
<1>1. Apart(bins') /\ All(bins') = All(bins)
  <2>1. Apart(bins) /\ BackBin \in Bins
    BY BinNames, Zenon DEF Accounted
  <2> QED BY <2>1, Takes
<1> QED BY <1>1, Zenon DEF Accounted

\* Of the rebinding link.
LEMMA RebindDrains ==
  ASSUME IInv, NEW l \in Connectors, RebindTakes(l)
  PROVE  PumpInv' /\ OrderInv' /\ ReplyInv' /\ rebind' \in [Connectors -> Rebind]
<1>0. /\ rebind \in [Connectors -> Rebind] /\ rebind[l] \in Rebind /\ ReplyInv /\ rebind[l].pc = "take"
      /\ ret \in Seq(Nat) /\ pump \in [Connectors -> Pump]
      /\ inbound \in [Providers -> [n : Nat \cup {-1}, target : Connector]]
  BY DEF IInv, TypeOK, RebindTakes
<1>1. /\ ret' = ret /\ inbound' = inbound /\ produced' = produced /\ lossy' = lossy /\ response' = response
      /\ pump' = pump /\ orphan' = orphan /\ UNCHANGED <<toClient, pumpActive, fwd, sent>>
      /\ back' = [back EXCEPT !.items = <<>>]
  BY Zenon DEF RebindTakes, returnVars
<1>2. /\ Taken = back.items /\ Taken \in Seq(Nat) /\ back' \in Queue /\ back'.items = <<>> /\ back'.on = back.on
      /\ Taken # <<>> => back.on
  BY <1>1, TakenIs, Zenon
<1> DEFINE r == [rebind[l] EXCEPT !.held = Taken, !.pc = IF Taken = <<>> THEN "done" ELSE "replay"]
<1>3. rebind' = [rebind EXCEPT ![l] = r]
  BY Zenon DEF RebindTakes
<1>4. r \in Rebind /\ r.held = Taken /\ (r.pc = "replay" <=> Taken # <<>>)
  BY <1>0, <1>2 DEF Rebind
<1> HIDE DEF r
<1>5. rebind' \in [Connectors -> Rebind] /\ rebind'[l] = r /\ \A k \in Connectors : k # l => rebind'[k] = rebind[k]
  BY <1>0, <1>3, <1>4, RebindSet, Zenon
<1>6. rebind[l].held = <<>> /\ \A p \in Providers : inbound'[p].n = -1 => inbound'[p] = Idle
  BY <1>0, <1>1, Zenon DEF ReplyInv
<1>7. /\ Filled(bins, ret, back, pump, rebind, inbound)
      /\ Filled(bins', ret, back', pump, rebind', inbound)
  BY <1>0, <1>1, <1>2, <1>5, <1>6, BinsNow, Zenon
<1>8. /\ bins[RebindBin(l)] = <<>> /\ bins'[RebindBin(l)] = bins[BackBin] /\ bins'[BackBin] = <<>>
  BY <1>2, <1>4, <1>5, <1>6, <1>7, Zenon DEF Filled
<1>9. \A b \in Bins : b # RebindBin(l) /\ b # BackBin => bins'[b] = bins[b]
  <2>1. bins'[RetBin] = bins[RetBin] /\ \A k \in Connectors : bins'[PumpBin(k)] = bins[PumpBin(k)]
    BY <1>7, Zenon DEF Filled
  <2>2. \A k \in Connectors : k # l => bins'[RebindBin(k)] = bins[RebindBin(k)]
    BY <1>5, <1>7, ZenonT(40) DEF Filled
  <2>3. \A p \in Providers : bins'[DataBin(p)] = bins[DataBin(p)]
    BY <1>7, Zenon DEF Filled
  <2> QED BY <2>1, <2>2, <2>3, BinNames, Zenon
<1>10. Accounted(bins', produced, response.pc, lossy)
  BY <1>0, <1>8, <1>9, BinNames, ReplyParts, DrainAccounted, Zenon
<1>11. \A k \in Connectors :
         /\ pump'[k].held # <<>> <=> pump'[k].pc = "replay"
         /\ rebind'[k].held # <<>> <=> rebind'[k].pc = "replay"
         /\ pump'[k].held # <<>> \/ rebind'[k].held # <<>> => lossy' \/ back'.on
  BY <1>0, <1>1, <1>2, <1>4, <1>5, Zenon DEF ReplyInv
<1>12. ReplyInv'
  BY <1>1, <1>6, <1>10, <1>11, ReplyParts, Zenon
<1>13. PumpInv' /\ OrderInv'
  BY <1>1, ForwardSame, Zenon
<1> QED BY <1>5, <1>12, <1>13, Zenon

\* Of the pump.
LEMMA PumpDrains ==
  ASSUME IInv, NEW l \in Connectors, PumpTakes(l)
  PROVE  PumpInv' /\ OrderInv' /\ ReplyInv' /\ pump' \in [Connectors -> Pump]
<1>0. /\ pump[l] \in Pump /\ PumpOwn(pump[l], pumpActive, fwd) /\ ReplyInv /\ pump[l].pc = "take"
      /\ ret \in Seq(Nat) /\ pump \in [Connectors -> Pump] /\ rebind \in [Connectors -> Rebind]
      /\ inbound \in [Providers -> [n : Nat \cup {-1}, target : Connector]] /\ (toClient # NoLink => orphan.on)
  BY OnePump, Zenon DEF IInv, TypeOK, PumpTakes
<1>1. /\ ret' = ret /\ inbound' = inbound /\ produced' = produced /\ lossy' = lossy /\ response' = response
      /\ rebind' = rebind /\ orphan' = orphan /\ toClient' = toClient /\ pumpActive' = pumpActive /\ UNCHANGED <<sent, fwd>>
      /\ back' = [back EXCEPT !.items = <<>>]
  BY Zenon DEF PumpTakes, returnVars, pumpFrame, linkVars
<1>2. /\ Taken = back.items /\ Taken \in Seq(Nat) /\ back' \in Queue /\ back'.items = <<>> /\ back'.on = back.on
      /\ Taken # <<>> => back.on
  BY <1>1, TakenIs, Zenon
<1> DEFINE q == [pump[l] EXCEPT !.held = Taken, !.pc = IF Taken = <<>> THEN "forward" ELSE "replay"]
<1>3. pump' = [pump EXCEPT ![l] = q]
  BY Zenon DEF PumpTakes
<1>4. /\ q \in Pump /\ q.held = Taken /\ (q.pc = "replay" <=> Taken # <<>>) /\ q.pc \in {"forward", "replay"}
      /\ q.pending = pump[l].pending /\ q.rest = pump[l].rest /\ q.closed = pump[l].closed /\ q.to = pump[l].to
  BY <1>0, <1>2 DEF Pump
<1> HIDE DEF q
<1>5. pump' \in [Connectors -> Pump] /\ pump'[l] = q /\ \A k \in Connectors : k # l => pump'[k] = pump[k]
  BY <1>0, <1>3, <1>4, PumpSet, Zenon
<1>6. pump[l].held = <<>> /\ \A p \in Providers : inbound'[p].n = -1 => inbound'[p] = Idle
  BY <1>0, <1>1, Zenon DEF ReplyInv
<1>7. /\ Filled(bins, ret, back, pump, rebind, inbound)
      /\ Filled(bins', ret, back', pump', rebind, inbound)
  BY <1>0, <1>1, <1>2, <1>5, <1>6, BinsNow, Zenon
<1>8. /\ bins[PumpBin(l)] = <<>> /\ bins'[PumpBin(l)] = bins[BackBin] /\ bins'[BackBin] = <<>>
  BY <1>2, <1>4, <1>5, <1>6, <1>7, ZenonT(40) DEF Filled
<1>9. \A b \in Bins : b # PumpBin(l) /\ b # BackBin => bins'[b] = bins[b]
  <2>1. bins'[RetBin] = bins[RetBin] /\ \A k \in Connectors : bins'[RebindBin(k)] = bins[RebindBin(k)]
    BY <1>7, Zenon DEF Filled
  <2>2. \A k \in Connectors : k # l => bins'[PumpBin(k)] = bins[PumpBin(k)]
    BY <1>5, <1>7, ZenonT(40) DEF Filled
  <2>3. \A p \in Providers : bins'[DataBin(p)] = bins[DataBin(p)]
    BY <1>7, Zenon DEF Filled
  <2> QED BY <2>1, <2>2, <2>3, BinNames, Zenon
<1>10. Accounted(bins', produced, response.pc, lossy)
  BY <1>0, <1>8, <1>9, BinNames, ReplyParts, DrainAccounted, Zenon
<1>11. \A k \in Connectors :
         /\ pump'[k].held # <<>> <=> pump'[k].pc = "replay"
         /\ rebind'[k].held # <<>> <=> rebind'[k].pc = "replay"
         /\ pump'[k].held # <<>> \/ rebind'[k].held # <<>> => lossy' \/ back'.on
  <2>0. \A k \in Connectors :
          /\ pump[k].held # <<>> <=> pump[k].pc = "replay"
          /\ rebind[k].held # <<>> <=> rebind[k].pc = "replay"
          /\ pump[k].held # <<>> \/ rebind[k].held # <<>> => lossy \/ back.on
    BY <1>0, Zenon DEF ReplyInv
  <2> SUFFICES ASSUME NEW k \in Connectors
               PROVE  /\ pump'[k].held # <<>> <=> pump'[k].pc = "replay"
                      /\ rebind'[k].held # <<>> <=> rebind'[k].pc = "replay"
                      /\ pump'[k].held # <<>> \/ rebind'[k].held # <<>> => lossy' \/ back'.on
    BY Zenon
  <2>1. rebind'[k] = rebind[k] /\ lossy' = lossy /\ back'.on = back.on
    BY <1>1, <1>2, Zenon
  <2>2. CASE k = l
    BY <1>2, <1>4, <1>5, <2>0, <2>1, <2>2, Zenon
  <2>3. CASE k # l
    BY <1>5, <2>0, <2>1, <2>3, Zenon
  <2> QED BY <2>2, <2>3, Zenon
<1>12. ReplyInv'
  BY <1>1, <1>6, <1>10, <1>11, ReplyParts, Zenon
<1>13. PumpOwn(q, pumpActive', fwd) /\ Drains(pump[l]) /\ (pumpActive => pumpActive')
  BY <1>0, <1>1, <1>4 DEF PumpOwn, Drains
<1>14. PumpInv' /\ OrderInv'
  BY <1>0, <1>1, <1>3, <1>4, <1>13, PumpCarriesOn, Zenon
<1> QED BY <1>5, <1>12, <1>14, Zenon

\* The first element of x goes to the end of y.
LEMMA BinsPass ==
  ASSUME bins \in [Bins -> Seq(Nat)], Apart(bins), NEW x \in Bins, NEW y \in Bins, x # y, bins[x] # <<>>,
         bins'[x] = Tail(bins[x]), bins'[y] = Append(bins[y], Head(bins[x])), \A b \in Bins : b # x /\ b # y => bins'[b] = bins[b]
  PROVE  Apart(bins') /\ All(bins') = All(bins)
<1> DEFINE h == Head(bins[x])
<1>1. /\ bins[x] \in Seq(Nat) /\ bins[y] \in Seq(Nat) /\ Injective(bins[x]) /\ Injective(bins[y])
      /\ Elems(bins[x]) \cap Elems(bins[y]) = {}
  BY Zenon DEF Apart
<1>2. h \in Nat /\ Injective(bins'[x]) /\ h \notin Elems(bins'[x]) /\ Elems(bins[x]) = Elems(bins'[x]) \cup {h}
  <2>1. /\ h \in Nat /\ Injective(Tail(bins[x])) /\ h \notin Elems(Tail(bins[x])) /\ Elems(bins[x]) = Elems(Tail(bins[x])) \cup {h}
    BY <1>1, TailHolds
  <2> HIDE DEF h
  <2> QED BY <2>1, Zenon
<1>3. Elems(bins'[y]) = Elems(bins[y]) \cup {h} /\ (h \notin Elems(bins[y]) => Injective(bins'[y]))
  BY <1>1, <1>2, AppendHolds, Zenon
<1> HIDE DEF h
<1>4. h \notin Elems(bins[y]) /\ \A b \in Bins : b # x => h \notin Elems(bins[b])
  BY <1>1, <1>2, Zenon DEF Apart
<1>5. \A b \in Bins : Injective(bins'[b])
  BY <1>2, <1>3, <1>4, Zenon DEF Apart
<1>6. ASSUME NEW a \in Bins, NEW b \in Bins, a # b PROVE Elems(bins'[a]) \cap Elems(bins'[b]) = {}
  <2>1. Elems(bins[a]) \cap Elems(bins[b]) = {}
    BY <1>6, Zenon DEF Apart
  <2>2. \A c \in Bins : c # y => Elems(bins'[c]) \subseteq Elems(bins[c]) /\ h \notin Elems(bins'[c])
    BY <1>2, <1>4, Zenon
  <2>3. a = y => Elems(bins'[a]) = Elems(bins[a]) \cup {h}
    BY <1>3, Zenon
  <2>4. b = y => Elems(bins'[b]) = Elems(bins[b]) \cup {h}
    BY <1>3, Zenon
  <2> QED BY <1>6, <2>1, <2>2, <2>3, <2>4
<1>7. All(bins') = All(bins)
  <2>1. ASSUME NEW v \in All(bins') PROVE v \in All(bins)
    BY <1>2, <1>3, Zenon DEF All
  <2>2. ASSUME NEW v \in All(bins) PROVE v \in All(bins')
    BY <1>2, <1>3, Zenon DEF All
  <2> QED BY <2>1, <2>2, Zenon
<1> QED BY <1>5, <1>6, <1>7, Zenon DEF Apart

\* All of x goes in front of what y holds, or as much of it as y takes.
LEMMA BinsPutBack ==
  ASSUME bins \in [Bins -> Seq(Nat)], Apart(bins), NEW x \in Bins, NEW y \in Bins, x # y, bins'[x] = <<>>,
         NEW n \in Nat, LET m == bins[x] \o bins[y] IN bins'[y] = IF Len(m) <= n THEN m ELSE SubSeq(m, 1, n),
         \A b \in Bins : b # x /\ b # y => bins'[b] = bins[b]
  PROVE  Apart(bins') /\ All(bins') \subseteq All(bins) /\ (Len(bins[x] \o bins[y]) <= n => All(bins') = All(bins)) /\ bins'[y] \in Seq(Nat) /\ Len(bins'[y]) <= n
<1> DEFINE m == bins[x] \o bins[y]
<1>1. /\ bins[x] \in Seq(Nat) /\ bins[y] \in Seq(Nat) /\ Injective(bins[x]) /\ Injective(bins[y])
      /\ Elems(bins[x]) \cap Elems(bins[y]) = {} /\ Elems(bins'[x]) = {} /\ Injective(bins'[x])
  BY FewHold, Zenon DEF Apart
<1>2. m \in Seq(Nat) /\ Elems(m) = Elems(bins[x]) \cup Elems(bins[y]) /\ Injective(m)
  BY <1>1, ConcatHolds, Zenon
<1>3. bins'[y] = IF Len(m) <= n THEN m ELSE SubSeq(m, 1, n)
  BY Zenon
<1> HIDE DEF m
<1>4. Len(m) \in Nat
  BY <1>2
<1>5. /\ bins'[y] \in Seq(Nat) /\ Len(bins'[y]) <= n /\ Injective(bins'[y]) /\ Elems(bins'[y]) \subseteq Elems(bins[x]) \cup Elems(bins[y])
      /\ Len(m) <= n => Elems(bins'[y]) = Elems(bins[x]) \cup Elems(bins[y])
  <2>1. CASE Len(m) <= n
    BY <1>2, <1>3, <2>1, Zenon
  <2>2. CASE ~(Len(m) <= n)
    <3>1. n <= Len(m)
      BY <1>4, <2>2
    <3>2. bins'[y] = SubSeq(m, 1, n)
      BY <1>3, <2>2, Zenon
    <3>3. /\ SubSeq(m, 1, n) \in Seq(Nat) /\ Len(SubSeq(m, 1, n)) = n /\ Elems(SubSeq(m, 1, n)) \subseteq Elems(m)
          /\ Injective(SubSeq(m, 1, n))
      BY <1>2, <3>1, PrefixHolds, Zenon
    <3>4. Len(bins'[y]) <= n
      BY <3>2, <3>3
    <3> QED BY <1>2, <2>2, <3>2, <3>3, <3>4, Zenon
  <2> QED BY <2>1, <2>2, Zenon
<1>6. \A b \in Bins : Injective(bins'[b])
  BY <1>1, <1>5, Zenon DEF Apart
<1>7. ASSUME NEW a \in Bins, NEW b \in Bins, a # b PROVE Elems(bins'[a]) \cap Elems(bins'[b]) = {}
  BY <1>1, <1>5, <1>7, Zenon DEF Apart
<1>8. All(bins') \subseteq All(bins)
  BY <1>1, <1>5, Zenon DEF All
<1>9. ASSUME Len(m) <= n PROVE All(bins') = All(bins)
  <2>1. ASSUME NEW v \in All(bins) PROVE v \in All(bins')
    BY <1>1, <1>5, <1>9, Zenon DEF All
  <2> QED BY <1>8, <2>1, Zenon
<1> QED BY <1>5, <1>6, <1>7, <1>8, <1>9, Zenon DEF Apart, m

\* Something new comes to the end of y.
LEMMA BinsAdd ==
  ASSUME bins \in [Bins -> Seq(Nat)], Apart(bins), NEW y \in Bins, NEW v \in Nat, v \notin All(bins),
         bins'[y] = Append(bins[y], v), \A b \in Bins : b # y => bins'[b] = bins[b]
  PROVE  Apart(bins') /\ All(bins') = All(bins) \cup {v}
<1>1. bins[y] \in Seq(Nat) /\ Injective(bins[y]) /\ \A b \in Bins : v \notin Elems(bins[b])
  BY Zenon DEF Apart, All
<1>2. Elems(bins'[y]) = Elems(bins[y]) \cup {v} /\ Injective(bins'[y])
  BY <1>1, AppendHolds, Zenon
<1>3. \A b \in Bins : Injective(bins'[b])
  BY <1>2, Zenon DEF Apart
<1>4. ASSUME NEW a \in Bins, NEW b \in Bins, a # b PROVE Elems(bins'[a]) \cap Elems(bins'[b]) = {}
  BY <1>1, <1>2, <1>4, Zenon DEF Apart
<1>5. All(bins') = All(bins) \cup {v}
  <2>1. ASSUME NEW u \in All(bins') PROVE u \in All(bins) \cup {v}
    BY <1>2, Zenon DEF All
  <2>2. ASSUME NEW u \in All(bins) \cup {v} PROVE u \in All(bins')
    BY <1>2, Zenon DEF All
  <2> QED BY <2>1, <2>2, Zenon
<1> QED BY <1>3, <1>4, <1>5, Zenon DEF Apart

\* One reply of bin x is written, or all of them are put back.
LEMMA ReplayAccounted ==
  ASSUME IInv, NEW x \in Bins, x # RetBin, x # BackBin, NEW held, NEW target,
         bins \in [Bins -> Seq(Nat)], bins[x] = held, held # <<>>, lossy \/ back.on, Replay(held, target),
         bins[RetBin] = ret, bins[BackBin] = back.items, bins'[RetBin] = ret', bins'[BackBin] = back'.items,
         bins'[x] = IF Writes(target) THEN Tail(held) ELSE <<>>,
         \A b \in Bins : b # x /\ b # RetBin /\ b # BackBin => bins'[b] = bins[b]
  PROVE  Accounted(bins', produced, response.pc, lossy') /\ (lossy => lossy') /\ back'.on = back.on
<1>0. Accounted(bins, produced, response.pc, lossy) /\ QueueTypes /\ held \in Seq(Nat) /\ QueueSize \in Nat
  BY ReplyParts, TypeParts, RelayAssumption, Zenon DEF IInv
<1>n. RetBin \in Bins /\ BackBin \in Bins /\ RetBin # BackBin /\ Apart(bins)
  BY <1>0, BinNames, Zenon DEF Accounted
<1>1. CASE Writes(target)
  <2>1. ret' = Append(ret, Head(held)) /\ back' = back /\ lossy' = lossy
    BY <1>1, Zenon DEF Replay
  <2>2. /\ bins[x] # <<>> /\ bins'[x] = Tail(bins[x]) /\ bins'[RetBin] = Append(bins[RetBin], Head(bins[x]))
        /\ \A b \in Bins : b # x /\ b # RetBin => bins'[b] = bins[b]
    BY <1>1, <2>1, Zenon
  <2>3. Apart(bins') /\ All(bins') = All(bins)
    BY <1>n, <2>2, BinsPass
  <2> QED BY <1>0, <2>1, <2>3, Zenon DEF Accounted
<1>2. CASE ~Writes(target)
  <2> DEFINE m == held \o back.items
  <2>1. Requeue(held) /\ ret' = ret /\ lossy' = (lossy \/ Len(m) > QueueSize)
    BY <1>2, Zenon DEF Replay, Requeue
  <2>2. /\ back'.on = back.on /\ (~back.on => back' = back)
        /\ back.on => back'.items = IF Len(m) <= QueueSize THEN m ELSE SubSeq(m, 1, QueueSize)
    BY <1>0, <2>1, RequeueType, Zenon
  <2>3. bins'[x] = <<>> /\ \A b \in Bins : b # x /\ b # BackBin => bins'[b] = bins[b]
    BY <1>2, <2>1, Zenon
  <2>4. CASE back.on
    <3>1. LET u == bins[x] \o bins[BackBin] IN bins'[BackBin] = IF Len(u) <= QueueSize THEN u ELSE SubSeq(u, 1, QueueSize)
      BY <2>2, <2>4, Zenon
    <3>2. /\ Apart(bins') /\ All(bins') \subseteq All(bins)
          /\ Len(bins[x] \o bins[BackBin]) <= QueueSize => All(bins') = All(bins)
      BY <1>0, <1>n, <2>3, <3>1, BinsPutBack
    <3>3. Len(m) \in Nat
      <4>1. back.items \in Seq(Nat)
        BY <1>n, Zenon
      <4> QED BY <1>0, <4>1, ConcatHolds
    <3>4. Len(m) <= QueueSize \/ Len(m) > QueueSize
      <4> HIDE DEF m
      <4> QED BY <1>0, <3>3
    <3>5. All(bins') = All(bins) \/ lossy'
      BY <2>1, <3>2, <3>4, Zenon
    <3>6. lossy => lossy'
      BY <2>1, Zenon
    <3> QED BY <1>0, <2>2, <3>2, <3>5, <3>6, Zenon DEF Accounted
  <2>5. CASE ~back.on
    <3>1. lossy /\ lossy' /\ back' = back
      BY <2>1, <2>2, <2>5, Zenon
    <3>2. \A b \in Bins : bins'[b] = bins[b] \/ bins'[b] = <<>>
      BY <2>3, <3>1, Zenon
    <3>3. Apart(bins') /\ All(bins') \subseteq All(bins)
      BY <1>n, <3>2, Empties, Zenon
    <3> QED BY <1>0, <3>1, <3>3, Zenon DEF Accounted
  <2> QED BY <2>4, <2>5, Zenon
<1> QED BY <1>1, <1>2, Zenon

\* What a replay does to the queue and the trace.
LEMMA ReplayTypes ==
  ASSUME IInv, NEW held \in Seq(Nat), held # <<>>, NEW target, Replay(held, target)
  PROVE  ret' \in Seq(Nat) /\ back' \in Queue /\ lossy' \in BOOLEAN
<1>0. ret \in Seq(Nat) /\ back \in Queue /\ lossy \in BOOLEAN /\ QueueTypes
  BY TypeParts, Zenon DEF IInv, TypeOK
<1>1. CASE Writes(target)
  <2>1. ret' = Append(ret, Head(held)) /\ back' = back /\ lossy' = lossy
    BY <1>1, Zenon DEF Replay
  <2>2. Append(ret, Head(held)) \in Seq(Nat)
    BY <1>0
  <2> QED BY <1>0, <2>1, <2>2, Zenon
<1>2. CASE ~Writes(target)
  <2>1. Requeue(held) /\ ret' = ret
    BY <1>2, Zenon DEF Replay
  <2>2. lossy' \in BOOLEAN
    BY <2>1, Zenon DEF Requeue
  <2> QED BY <1>0, <2>1, <2>2, RequeueType, Zenon
<1> QED BY <1>1, <1>2, Zenon

\* A rebinding link replays.
LEMMA RebindWrites ==
  ASSUME IInv, NEW l \in Connectors, RebindReplays(l)
  PROVE  PumpInv' /\ OrderInv' /\ ReplyInv' /\ rebind' \in [Connectors -> Rebind] /\ ret' \in Seq(Nat) /\ lossy' \in BOOLEAN
<1> DEFINE held == rebind[l].held
           left == IF Writes(l) THEN Tail(held) ELSE <<>>
           r == [rebind[l] EXCEPT !.held = left, !.pc = IF left = <<>> THEN "done" ELSE "replay"]
<1>0. /\ rebind \in [Connectors -> Rebind] /\ rebind[l] \in Rebind /\ ReplyInv /\ rebind[l].pc = "replay"
      /\ ret \in Seq(Nat) /\ pump \in [Connectors -> Pump]
      /\ inbound \in [Providers -> [n : Nat \cup {-1}, target : Connector]]
  BY DEF IInv, TypeOK, RebindReplays
<1>1. /\ inbound' = inbound /\ produced' = produced /\ response' = response
      /\ pump' = pump /\ orphan' = orphan /\ UNCHANGED <<toClient, pumpActive, fwd, sent>>
      /\ Replay(held, l) /\ rebind' = [rebind EXCEPT ![l] = r]
  BY Zenon DEF RebindReplays
<1>2. held \in Seq(Nat) /\ held # <<>> /\ (lossy \/ back.on)
  <2>1. held # <<>> /\ (lossy \/ back.on)
    BY <1>0, Zenon DEF ReplyInv
  <2> QED BY <1>0, <2>1 DEF Rebind
<1>3. ret' \in Seq(Nat) /\ back' \in Queue /\ lossy' \in BOOLEAN
  BY <1>1, <1>2, ReplayTypes, Zenon
<1>4. left \in Seq(Nat)
  <2>1. Tail(held) \in Seq(Nat) /\ <<>> \in Seq(Nat)
    <3> HIDE DEF held
    <3> QED BY <1>2
  <2> QED BY <2>1, Zenon
<1> HIDE DEF left, held
<1>5. r \in Rebind /\ r.held = left /\ (r.pc = "replay" <=> left # <<>>)
  BY <1>0, <1>4 DEF Rebind
<1> HIDE DEF r
<1>6. rebind' \in [Connectors -> Rebind] /\ rebind'[l] = r /\ \A k \in Connectors : k # l => rebind'[k] = rebind[k]
  BY <1>0, <1>1, <1>5, RebindSet, Zenon
<1>7. \A p \in Providers : inbound'[p].n = -1 => inbound'[p] = Idle
  BY <1>0, <1>1, Zenon DEF ReplyInv
<1>8. /\ Filled(bins, ret, back, pump, rebind, inbound)
      /\ Filled(bins', ret', back', pump, rebind', inbound)
  BY <1>0, <1>1, <1>3, <1>6, <1>7, BinsNow, Zenon
<1>9. /\ bins \in [Bins -> Seq(Nat)] /\ bins[RebindBin(l)] = held /\ bins'[RebindBin(l)] = left
      /\ bins[RetBin] = ret /\ bins[BackBin] = back.items /\ bins'[RetBin] = ret' /\ bins'[BackBin] = back'.items
  BY <1>5, <1>6, <1>8, Zenon DEF Filled, held
<1>10. \A b \in Bins : b # RebindBin(l) /\ b # RetBin /\ b # BackBin => bins'[b] = bins[b]
  <2>1. \A k \in Connectors : bins'[PumpBin(k)] = bins[PumpBin(k)]
    BY <1>8, Zenon DEF Filled
  <2>2. \A k \in Connectors : k # l => bins'[RebindBin(k)] = bins[RebindBin(k)]
    BY <1>6, <1>8, ZenonT(40) DEF Filled
  <2>3. \A p \in Providers : bins'[DataBin(p)] = bins[DataBin(p)]
    BY <1>8, Zenon DEF Filled
  <2> QED BY <2>1, <2>2, <2>3, BinNames, Zenon
<1>11. RebindBin(l) \in Bins /\ RebindBin(l) # RetBin /\ RebindBin(l) # BackBin /\ bins'[RebindBin(l)] = IF Writes(l) THEN Tail(held) ELSE <<>>
  BY <1>9, BinNames, Zenon DEF left
<1>12. Accounted(bins', produced, response.pc, lossy') /\ (lossy => lossy') /\ back'.on = back.on
  BY <1>1, <1>2, <1>9, <1>10, <1>11, ReplayAccounted, Zenon
<1>13. \A k \in Connectors :
         /\ pump'[k].held # <<>> <=> pump'[k].pc = "replay"
         /\ rebind'[k].held # <<>> <=> rebind'[k].pc = "replay"
         /\ pump'[k].held # <<>> \/ rebind'[k].held # <<>> => lossy' \/ back'.on
  BY <1>0, <1>1, <1>2, <1>5, <1>6, <1>12, Zenon DEF ReplyInv
<1>14. ReplyInv'
  BY <1>1, <1>7, <1>12, <1>13, ReplyParts, Zenon
<1>15. PumpInv' /\ OrderInv'
  BY <1>1, ForwardSame, Zenon
<1> QED BY <1>3, <1>6, <1>14, <1>15, Zenon

\* A pump replays.
LEMMA PumpWritesBack ==
  ASSUME IInv, NEW l \in Connectors, PumpReplays(l)
  PROVE  PumpInv' /\ OrderInv' /\ ReplyInv' /\ pump' \in [Connectors -> Pump] /\ ret' \in Seq(Nat) /\ lossy' \in BOOLEAN
<1> DEFINE held == pump[l].held
           to == pump[l].target
           left == IF Writes(to) THEN Tail(held) ELSE <<>>
           q == [pump[l] EXCEPT !.held = left, !.pc = IF left = <<>> THEN "forward" ELSE "replay"]
<1>0. /\ pump[l] \in Pump /\ PumpOwn(pump[l], pumpActive, fwd) /\ ReplyInv /\ pump[l].pc = "replay"
      /\ ret \in Seq(Nat) /\ pump \in [Connectors -> Pump] /\ rebind \in [Connectors -> Rebind]
      /\ inbound \in [Providers -> [n : Nat \cup {-1}, target : Connector]] /\ (toClient # NoLink => orphan.on)
  BY OnePump, Zenon DEF IInv, TypeOK, PumpReplays
<1>1. /\ inbound' = inbound /\ produced' = produced /\ response' = response
      /\ rebind' = rebind /\ orphan' = orphan /\ toClient' = toClient /\ pumpActive' = pumpActive /\ UNCHANGED <<sent, fwd>>
      /\ Replay(held, to) /\ pump' = [pump EXCEPT ![l] = q]
  BY Zenon DEF PumpReplays, pumpFrame, linkVars
<1>2. held \in Seq(Nat) /\ held # <<>> /\ (lossy \/ back.on)
  BY <1>0, PumpFields, Zenon DEF ReplyInv
<1>3. ret' \in Seq(Nat) /\ back' \in Queue /\ lossy' \in BOOLEAN
  BY <1>1, <1>2, ReplayTypes, Zenon
<1>4. left \in Seq(Nat)
  <2>1. Tail(held) \in Seq(Nat) /\ <<>> \in Seq(Nat)
    <3> HIDE DEF held
    <3> QED BY <1>2
  <2> QED BY <2>1, Zenon
<1> HIDE DEF left, held, to
<1>5. /\ q \in Pump /\ q.held = left /\ (q.pc = "replay" <=> left # <<>>) /\ q.pc \in {"forward", "replay"}
      /\ q.pending = pump[l].pending /\ q.rest = pump[l].rest /\ q.closed = pump[l].closed /\ q.to = pump[l].to
  BY <1>0, <1>4 DEF Pump
<1> HIDE DEF q
<1>6. pump' \in [Connectors -> Pump] /\ pump'[l] = q /\ \A k \in Connectors : k # l => pump'[k] = pump[k]
  BY <1>0, <1>1, <1>5, PumpSet, Zenon
<1>7. \A p \in Providers : inbound'[p].n = -1 => inbound'[p] = Idle
  BY <1>0, <1>1, Zenon DEF ReplyInv
<1>8. /\ Filled(bins, ret, back, pump, rebind, inbound)
      /\ Filled(bins', ret', back', pump', rebind, inbound)
  BY <1>0, <1>1, <1>3, <1>6, <1>7, BinsNow, Zenon
<1>9. /\ bins \in [Bins -> Seq(Nat)] /\ bins[PumpBin(l)] = held /\ bins'[PumpBin(l)] = left
      /\ bins[RetBin] = ret /\ bins[BackBin] = back.items /\ bins'[RetBin] = ret' /\ bins'[BackBin] = back'.items
  BY <1>5, <1>6, <1>8, Zenon DEF Filled, held
<1>10. \A b \in Bins : b # PumpBin(l) /\ b # RetBin /\ b # BackBin => bins'[b] = bins[b]
  <2>1. \A k \in Connectors : bins'[RebindBin(k)] = bins[RebindBin(k)]
    BY <1>8, Zenon DEF Filled
  <2>2. \A k \in Connectors : k # l => bins'[PumpBin(k)] = bins[PumpBin(k)]
    BY <1>6, <1>8, ZenonT(40) DEF Filled
  <2>3. \A p \in Providers : bins'[DataBin(p)] = bins[DataBin(p)]
    BY <1>8, Zenon DEF Filled
  <2> QED BY <2>1, <2>2, <2>3, BinNames, Zenon
<1>11. PumpBin(l) \in Bins /\ PumpBin(l) # RetBin /\ PumpBin(l) # BackBin /\ bins'[PumpBin(l)] = IF Writes(to) THEN Tail(held) ELSE <<>>
  BY <1>9, BinNames, Zenon DEF left
<1>12. Accounted(bins', produced, response.pc, lossy') /\ (lossy => lossy') /\ back'.on = back.on
  BY <1>1, <1>2, <1>9, <1>10, <1>11, ReplayAccounted, Zenon
<1>13. \A k \in Connectors :
         /\ pump'[k].held # <<>> <=> pump'[k].pc = "replay"
         /\ rebind'[k].held # <<>> <=> rebind'[k].pc = "replay"
         /\ pump'[k].held # <<>> \/ rebind'[k].held # <<>> => lossy' \/ back'.on
  BY <1>0, <1>1, <1>2, <1>5, <1>6, <1>12, Zenon DEF ReplyInv
<1>14. ReplyInv'
  BY <1>1, <1>7, <1>12, <1>13, ReplyParts, Zenon
<1>15. PumpOwn(q, pumpActive', fwd) /\ Drains(pump[l]) /\ (pumpActive => pumpActive')
  BY <1>0, <1>1, <1>5 DEF PumpOwn, Drains
<1>16. PumpInv' /\ OrderInv'
  BY <1>0, <1>1, <1>5, <1>15, PumpCarriesOn, Zenon
<1> QED BY <1>3, <1>6, <1>14, <1>16, Zenon

\* bufferConnectorReturn.
LEMMA BufferIs ==
  ASSUME IInv, NEW n \in Nat, BufferConnectorReturn(n)
  PROVE  /\ back' \in Queue /\ back'.on /\ lossy' \in BOOLEAN /\ (lossy => lossy')
         /\ back'.items = Append(back.items, n) \/ (back'.items = back.items /\ lossy')
<1>0. /\ back \in Queue /\ (~back.on => back = NoQueue) /\ back.items \in Seq(Nat) /\ Len(back.items) <= QueueSize /\ QueueSize \in Nat
  BY RelayAssumption, QueueFields, Zenon DEF IInv, TypeOK
<1> DEFINE r == Reserved(back)
<1>1. r \in Queue /\ r.on /\ r.items = back.items
  BY <1>0 DEF Reserved, NoQueue, Queue
<1> HIDE DEF r
<1>2. back' = Put(r, n) /\ lossy' = (lossy \/ Len(back.items) >= QueueSize)
  BY Zenon DEF BufferConnectorReturn, r
<1>3. lossy' \in BOOLEAN /\ (lossy => lossy')
  BY <1>2, Zenon
<1>4. CASE Len(back.items) < QueueSize
  <2> DEFINE u == Append(back.items, n)
  <2>1. u \in Seq(Nat)
    BY <1>0
  <2> HIDE DEF u
  <2>2. back' = [r EXCEPT !.items = u]
    BY <1>1, <1>2, <1>4, Zenon DEF Put, u
  <2>3. back' \in Queue /\ back'.on /\ back'.items = u
    BY <1>1, <2>1, <2>2, QueueItems, Zenon
  <2> QED BY <1>3, <2>3, Zenon DEF u
<1>5. CASE Len(back.items) >= QueueSize /\ ~(Len(back.items) < QueueSize)
  <2>1. back' = r /\ lossy'
    BY <1>1, <1>2, <1>5, Zenon DEF Put
  <2> QED BY <1>1, <1>3, <2>1, Zenon
<1> QED BY <1>0, <1>4, <1>5

\* Nothing but the links' traffic changes.
LEMMA ForwardUntouched ==
  ASSUME IInv, pump' = pump, orphan' = orphan, UNCHANGED <<toClient, pumpActive, fwd, sent>>
  PROVE  PumpInv' /\ OrderInv'
BY ForwardSame, Zenon

\* The connect response is written or buffered.
LEMMA ResponseDelivered ==
  ASSUME IInv, ResponseWrites
  PROVE  PumpInv' /\ OrderInv' /\ ReplyInv' /\ ret' \in Seq(Nat) /\ lossy' \in BOOLEAN
<1>0. /\ rebind \in [Connectors -> Rebind] /\ ReplyInv /\ response.pc = "write" /\ produced \in Nat
      /\ ret \in Seq(Nat) /\ pump \in [Connectors -> Pump] /\ back \in Queue /\ lossy \in BOOLEAN
      /\ inbound \in [Providers -> [n : Nat \cup {-1}, target : Connector]]
  BY Zenon DEF IInv, TypeOK, ResponseWrites
<1>1. /\ inbound' = inbound /\ produced' = produced /\ rebind' = rebind
      /\ pump' = pump /\ orphan' = orphan /\ UNCHANGED <<toClient, pumpActive, fwd, sent>>
  BY Zenon DEF ResponseWrites, linkVars
<1>2. response'.pc = "done"
  BY DEF ResponseWrites
<1>3. /\ ret' \in Seq(Nat) /\ back' \in Queue /\ lossy' \in BOOLEAN /\ (lossy => lossy') /\ (back.on => back'.on)
      /\ \/ ret' = Append(ret, 0) /\ back'.items = back.items
         \/ ret' = ret /\ back'.items = Append(back.items, 0)
         \/ ret' = ret /\ back'.items = back.items /\ lossy'
  <2>1. CASE Writes(response.target)
    <3>1. ret' = Append(ret, 0) /\ back' = back /\ lossy' = lossy
      BY <2>1, Zenon DEF ResponseWrites
    <3>2. Append(ret, 0) \in Seq(Nat)
      BY <1>0
    <3> QED BY <1>0, <3>1, <3>2, Zenon
  <2>2. CASE ~Writes(response.target)
    <3>1. BufferConnectorReturn(0) /\ ret' = ret
      BY <2>2, Zenon DEF ResponseWrites
    <3>2. 0 \in Nat
      OBVIOUS
    <3> QED BY <1>0, <3>1, <3>2, BufferIs, Zenon
  <2> QED BY <2>1, <2>2, Zenon
<1>4. \A p \in Providers : inbound'[p].n = -1 => inbound'[p] = Idle
  BY <1>0, <1>1, Zenon DEF ReplyInv
<1>5. /\ Filled(bins, ret, back, pump, rebind, inbound)
      /\ Filled(bins', ret', back', pump, rebind, inbound)
  BY <1>0, <1>1, <1>3, <1>4, BinsNow, Zenon
<1>6. /\ bins \in [Bins -> Seq(Nat)]
      /\ bins[RetBin] = ret /\ bins[BackBin] = back.items /\ bins'[RetBin] = ret' /\ bins'[BackBin] = back'.items
  BY <1>5, Zenon DEF Filled
<1>7. \A b \in Bins : b # RetBin /\ b # BackBin => bins'[b] = bins[b]
  <2>1. \A k \in Connectors : bins'[PumpBin(k)] = bins[PumpBin(k)] /\ bins'[RebindBin(k)] = bins[RebindBin(k)]
    BY <1>5, Zenon DEF Filled
  <2>2. \A p \in Providers : bins'[DataBin(p)] = bins[DataBin(p)]
    BY <1>5, Zenon DEF Filled
  <2> QED BY <2>1, <2>2, BinNames, Zenon
<1>8. Accounted(bins, produced, response.pc, lossy) /\ Apart(bins) /\ 0 \notin All(bins)
  BY <1>0, ReplyParts, Zenon DEF Accounted
<1>9. Accounted(bins', produced, "done", lossy')
  <2>1. CASE Apart(bins') /\ All(bins') = All(bins) \cup {0}
    <3>1. 0 \in 0 .. produced
      BY <1>0
    <3> QED BY <1>3, <1>8, <2>1, <3>1, Zenon DEF Accounted
  <2>2. CASE ret' = Append(ret, 0) /\ back'.items = back.items
    <3>1. bins'[RetBin] = Append(bins[RetBin], 0) /\ (\A b \in Bins : b # RetBin => bins'[b] = bins[b]) /\ 0 \in Nat
      BY <1>6, <1>7, <2>2, BinNames
    <3> QED BY <1>6, <1>8, <2>1, <3>1, BinNames, BinsAdd, Zenon
  <2>3. CASE ret' = ret /\ back'.items = Append(back.items, 0)
    <3>1. bins'[BackBin] = Append(bins[BackBin], 0) /\ (\A b \in Bins : b # BackBin => bins'[b] = bins[b]) /\ 0 \in Nat
      BY <1>6, <1>7, <2>3, BinNames
    <3> QED BY <1>6, <1>8, <2>1, <3>1, BinNames, BinsAdd, Zenon
  <2>4. CASE ret' = ret /\ back'.items = back.items /\ lossy'
    <3>1. \A b \in Bins : bins'[b] = bins[b] \/ bins'[b] = <<>>
      BY <1>6, <1>7, <2>4, Zenon
    <3>2. Apart(bins') /\ All(bins') \subseteq All(bins)
      BY <1>8, <3>1, Empties, Zenon
    <3> QED BY <1>8, <2>4, <3>2, Zenon DEF Accounted
  <2> QED BY <1>3, <2>2, <2>3, <2>4, Zenon
<1>10. \A k \in Connectors :
         /\ pump'[k].held # <<>> <=> pump'[k].pc = "replay"
         /\ rebind'[k].held # <<>> <=> rebind'[k].pc = "replay"
         /\ pump'[k].held # <<>> \/ rebind'[k].held # <<>> => lossy' \/ back'.on
  BY <1>0, <1>1, <1>3, Zenon DEF ReplyInv
<1>11. ReplyInv'
  BY <1>1, <1>2, <1>4, <1>9, <1>10, ReplyParts, Zenon
<1> QED BY <1>1, <1>3, <1>11, ForwardUntouched, Zenon

\* One more payload of the provider has arrived.
LEMMA DataTaken ==
  ASSUME IInv, NEW p \in Providers, DataArrives(p)
  PROVE  /\ PumpInv' /\ OrderInv' /\ ReplyInv' /\ produced' \in Nat
         /\ inbound' \in [Providers -> [n : Nat \cup {-1}, target : Connector]]
<1> DEFINE v == produced + 1
           m == [n |-> v, target |-> toConnector]
<1>0. /\ rebind \in [Connectors -> Rebind] /\ ReplyInv /\ produced \in Nat /\ inbound[p] = Idle /\ toConnector \in Connector
      /\ ret \in Seq(Nat) /\ pump \in [Connectors -> Pump] /\ back \in Queue /\ lossy \in BOOLEAN
      /\ inbound \in [Providers -> [n : Nat \cup {-1}, target : Connector]]
  BY Zenon DEF IInv, TypeOK, DataArrives
<1>1. /\ produced' = v /\ rebind' = rebind /\ ret' = ret /\ lossy' = lossy /\ response' = response /\ back' = back
      /\ pump' = pump /\ orphan' = orphan /\ UNCHANGED <<toClient, pumpActive, fwd, sent>>
      /\ inbound' = [inbound EXCEPT ![p] = m]
  BY Zenon DEF DataArrives, linkVars, cacheVars
<1>2. v \in Nat /\ v \notin 0 .. produced /\ 0 .. v = (0 .. produced) \cup {v} /\ 1 .. v = (1 .. produced) \cup {v} /\ v # -1 /\ v # 0
  BY <1>0
<1>3. m \in [n : Nat \cup {-1}, target : Connector] /\ m.n = v /\ m # Idle
  BY <1>0, <1>2 DEF Idle
<1> HIDE DEF v, m
<1>4. /\ inbound' \in [Providers -> [n : Nat \cup {-1}, target : Connector]]
      /\ inbound'[p] = m /\ \A o \in Providers : o # p => inbound'[o] = inbound[o]
  BY <1>0, <1>1, <1>3
<1>5. \A o \in Providers : inbound'[o].n = -1 => inbound'[o] = Idle
  <2>1. inbound'[p].n # -1
    BY <1>2, <1>3, <1>4, Zenon
  <2>2. \A o \in Providers : inbound[o].n = -1 => inbound[o] = Idle
    BY <1>0, Zenon DEF ReplyInv
  <2> QED BY <1>4, <2>1, <2>2, Zenon
<1>6. /\ Filled(bins, ret, back, pump, rebind, inbound)
      /\ Filled(bins', ret, back, pump, rebind, inbound')
  BY <1>0, <1>1, <1>4, <1>5, BinsNow, Zenon
<1>7. /\ bins \in [Bins -> Seq(Nat)] /\ bins[DataBin(p)] = <<>> /\ bins'[DataBin(p)] = <<v>>
  BY <1>0, <1>3, <1>4, <1>6, Zenon DEF Filled
<1>8. \A b \in Bins : b # DataBin(p) => bins'[b] = bins[b]
  <2>1. /\ bins'[RetBin] = bins[RetBin] /\ bins'[BackBin] = bins[BackBin]
        /\ \A k \in Connectors : bins'[PumpBin(k)] = bins[PumpBin(k)] /\ bins'[RebindBin(k)] = bins[RebindBin(k)]
    BY <1>6, Zenon DEF Filled
  <2>2. \A o \in Providers : o # p => bins'[DataBin(o)] = bins[DataBin(o)]
    BY <1>4, <1>6, ZenonT(40) DEF Filled
  <2> QED BY <2>1, <2>2, BinNames, Zenon
<1>9. Accounted(bins, produced, response.pc, lossy) /\ Apart(bins) /\ v \notin All(bins)
  BY <1>0, <1>2, ReplyParts, Zenon DEF Accounted
<1>10. Apart(bins') /\ All(bins') = All(bins) \cup {v}
  <2>1. Append(<<>>, v) = <<v>>
    BY <1>2
  <2>2. bins'[DataBin(p)] = Append(bins[DataBin(p)], v) /\ DataBin(p) \in Bins
    BY <1>7, <2>1, BinNames, Zenon
  <2> QED BY <1>2, <1>7, <1>8, <1>9, <2>2, BinsAdd, Zenon
<1>11. Accounted(bins', v, response.pc, lossy)
  BY <1>2, <1>9, <1>10, Zenon DEF Accounted
<1>12. \A k \in Connectors :
         /\ pump'[k].held # <<>> <=> pump'[k].pc = "replay"
         /\ rebind'[k].held # <<>> <=> rebind'[k].pc = "replay"
         /\ pump'[k].held # <<>> \/ rebind'[k].held # <<>> => lossy' \/ back'.on
  BY <1>0, <1>1, Zenon DEF ReplyInv
<1>13. ReplyInv'
  BY <1>1, <1>5, <1>11, <1>12, ReplyParts, Zenon
<1> QED BY <1>1, <1>2, <1>4, <1>13, ForwardUntouched, Zenon

\* It is written or buffered.
LEMMA DataDelivered ==
  ASSUME IInv, NEW p \in Providers, DataWrites(p)
  PROVE  /\ PumpInv' /\ OrderInv' /\ ReplyInv' /\ ret' \in Seq(Nat) /\ lossy' \in BOOLEAN
         /\ inbound' \in [Providers -> [n : Nat \cup {-1}, target : Connector]]
<1> DEFINE v == inbound[p].n
<1>0. /\ rebind \in [Connectors -> Rebind] /\ ReplyInv /\ inbound[p] # Idle
      /\ ret \in Seq(Nat) /\ pump \in [Connectors -> Pump] /\ back \in Queue /\ lossy \in BOOLEAN
      /\ inbound \in [Providers -> [n : Nat \cup {-1}, target : Connector]]
  BY Zenon DEF IInv, TypeOK, DataWrites
<1>1. /\ produced' = produced /\ rebind' = rebind /\ response' = response
      /\ pump' = pump /\ orphan' = orphan /\ UNCHANGED <<toClient, pumpActive, fwd, sent>>
      /\ inbound' = [inbound EXCEPT ![p] = Idle]
  BY Zenon DEF DataWrites, linkVars
<1>2. v \in Nat
  <2>1. v \in Nat \/ v = -1
    BY <1>0
  <2> QED BY <1>0, <2>1, Zenon DEF ReplyInv
<1>3. Idle \in [n : Nat \cup {-1}, target : Connector]
  BY DEF Idle, Connector
<1>4. /\ inbound' \in [Providers -> [n : Nat \cup {-1}, target : Connector]]
      /\ inbound'[p] = Idle /\ \A o \in Providers : o # p => inbound'[o] = inbound[o]
  BY <1>0, <1>1, <1>3
<1> HIDE DEF v
<1>5. /\ ret' \in Seq(Nat) /\ back' \in Queue /\ lossy' \in BOOLEAN /\ (lossy => lossy') /\ (back.on => back'.on)
      /\ \/ ret' = Append(ret, v) /\ back'.items = back.items
         \/ ret' = ret /\ back'.items = Append(back.items, v)
         \/ ret' = ret /\ back'.items = back.items /\ lossy'
  <2>1. CASE Writes(inbound[p].target)
    <3>1. ret' = Append(ret, v) /\ back' = back /\ lossy' = lossy
      BY <2>1, Zenon DEF DataWrites, v
    <3>2. Append(ret, v) \in Seq(Nat)
      BY <1>0, <1>2
    <3> QED BY <1>0, <3>1, <3>2, Zenon
  <2>2. CASE ~Writes(inbound[p].target)
    <3>1. BufferConnectorReturn(v) /\ ret' = ret
      BY <2>2, Zenon DEF DataWrites, v
    <3> QED BY <1>0, <1>2, <3>1, BufferIs, Zenon
  <2> QED BY <2>1, <2>2, Zenon
<1>6. \A o \in Providers : inbound'[o].n = -1 => inbound'[o] = Idle
  BY <1>0, <1>4, Zenon DEF ReplyInv
<1>7. /\ Filled(bins, ret, back, pump, rebind, inbound)
      /\ Filled(bins', ret', back', pump, rebind, inbound')
  BY <1>0, <1>1, <1>4, <1>5, <1>6, BinsNow, Zenon
<1>8. /\ bins \in [Bins -> Seq(Nat)] /\ bins[DataBin(p)] = <<v>> /\ bins'[DataBin(p)] = <<>>
      /\ bins[RetBin] = ret /\ bins[BackBin] = back.items /\ bins'[RetBin] = ret' /\ bins'[BackBin] = back'.items
  BY <1>0, <1>4, <1>7, Zenon DEF Filled, v
<1>9. \A b \in Bins : b # DataBin(p) /\ b # RetBin /\ b # BackBin => bins'[b] = bins[b]
  <2>1. \A k \in Connectors : bins'[PumpBin(k)] = bins[PumpBin(k)] /\ bins'[RebindBin(k)] = bins[RebindBin(k)]
    BY <1>7, Zenon DEF Filled
  <2>2. \A o \in Providers : o # p => bins'[DataBin(o)] = bins[DataBin(o)]
    BY <1>4, <1>7, Zenon DEF Filled
  <2> QED BY <2>1, <2>2, BinNames, Zenon
<1>10. Accounted(bins, produced, response.pc, lossy) /\ Apart(bins)
  BY <1>0, ReplyParts, Zenon DEF Accounted
<1>11. /\ bins[DataBin(p)] # <<>> /\ bins'[DataBin(p)] = Tail(bins[DataBin(p)]) /\ Head(bins[DataBin(p)]) = v
       /\ DataBin(p) \in Bins /\ DataBin(p) # RetBin /\ DataBin(p) # BackBin
  <2>1. <<v>> # <<>> /\ Tail(<<v>>) = <<>> /\ Head(<<v>>) = v
    BY <1>2, FewHold, Zenon
  <2> QED BY <1>8, <2>1, BinNames, Zenon
<1>12. Accounted(bins', produced, response.pc, lossy')
  <2>1. CASE Apart(bins') /\ All(bins') = All(bins)
    BY <1>5, <1>10, <2>1, Zenon DEF Accounted
  <2>2. CASE ret' = Append(ret, v) /\ back'.items = back.items
    <3>1. bins'[RetBin] = Append(bins[RetBin], Head(bins[DataBin(p)])) /\ bins'[BackBin] = bins[BackBin]
      BY <1>8, <1>11, <2>2, Zenon
    <3>2. \A b \in Bins : b # DataBin(p) /\ b # RetBin => bins'[b] = bins[b]
      BY <1>9, <3>1, Zenon
    <3> QED BY <1>8, <1>10, <1>11, <2>1, <3>1, <3>2, BinNames, BinsPass, Zenon
  <2>3. CASE ret' = ret /\ back'.items = Append(back.items, v)
    <3>1. bins'[BackBin] = Append(bins[BackBin], Head(bins[DataBin(p)])) /\ bins'[RetBin] = bins[RetBin]
      BY <1>8, <1>11, <2>3, Zenon
    <3>2. \A b \in Bins : b # DataBin(p) /\ b # BackBin => bins'[b] = bins[b]
      BY <1>9, <3>1, Zenon
    <3> QED BY <1>8, <1>10, <1>11, <2>1, <3>1, <3>2, BinNames, BinsPass, Zenon
  <2>4. CASE ret' = ret /\ back'.items = back.items /\ lossy'
    <3>1. \A b \in Bins : bins'[b] = bins[b] \/ bins'[b] = <<>>
      BY <1>8, <1>9, <2>4, Zenon
    <3>2. Apart(bins') /\ All(bins') \subseteq All(bins)
      BY <1>10, <3>1, Empties, Zenon
    <3> QED BY <1>10, <2>4, <3>2, Zenon DEF Accounted
  <2> QED BY <1>5, <2>2, <2>3, <2>4, Zenon
<1>13. \A k \in Connectors :
         /\ pump'[k].held # <<>> <=> pump'[k].pc = "replay"
         /\ rebind'[k].held # <<>> <=> rebind'[k].pc = "replay"
         /\ pump'[k].held # <<>> \/ rebind'[k].held # <<>> => lossy' \/ back'.on
  BY <1>0, <1>1, <1>5, Zenon DEF ReplyInv
<1>14. ReplyInv'
  BY <1>1, <1>6, <1>12, <1>13, ReplyParts, Zenon
<1> QED BY <1>1, <1>4, <1>5, <1>14, ForwardUntouched, Zenon

-----------------------------------------------------------------------------
(* The inductive invariant.                                                *)

\* It holds at the start.
LEMMA InitHolds == Init => IInv
<1> SUFFICES ASSUME Init PROVE IInv
  OBVIOUS
<1>1. NoPump \in Pump /\ NoRebind \in Rebind /\ Idle \in [n : Nat \cup {-1}, target : Connector]
  BY DEF NoPump, NoRebind, Idle, Pump, Rebind, Connector, Provider
<1>2. /\ NoPump.pc = "none" /\ NoPump.pending = <<>> /\ NoPump.rest = <<>> /\ NoPump.held = <<>> /\ Idle.n = -1
      /\ NoRebind.held = <<>> /\ NoRebind.pc = "none" /\ NoQueue.items = <<>> /\ Len(NoQueue.items) <= QueueSize
  BY RelayAssumption DEF NoPump, NoRebind, NoQueue, Idle
<1>3. /\ response \in [pc : {"none", "lookup", "write", "done"}, target : Connector]
      /\ grace \in [Links -> [pc : {"off", "armed", "expiring"}, peer : Links \cup {NoLink}]]
      /\ link \in [Links -> {"new", "up", "broken", "gone"}]
  BY DEF Init, Connector
<1>4. /\ pump \in [Connectors -> Pump] /\ rebind \in [Connectors -> Rebind]
      /\ inbound \in [Providers -> [n : Nat \cup {-1}, target : Connector]]
      /\ \A l \in Connectors : pump[l] = NoPump /\ rebind[l] = NoRebind
      /\ \A p \in Providers : inbound[p] = Idle
  BY <1>1, Zenon DEF Init
<1>5. /\ sent \in Seq(Connectors) /\ produced \in Nat /\ ret \in Seq(Nat) /\ lossy \in BOOLEAN
      /\ fwd \in Seq([to : Providers, kind : {"connect", "resume", "data"}, n : Nat])
  <2>1. \A S : <<>> \in Seq(S)
    OBVIOUS
  <2>2. 0 \in Nat
    OBVIOUS
  <2> QED BY <2>1, <2>2, Zenon DEF Init
<1>6. TypeOK
  BY <1>2, <1>3, <1>4, <1>5, NoQueueIs, Zenon DEF Init, TypeOK, Connector, Provider
<1>7. PumpInv
  BY <1>2, <1>4, Zenon DEF PumpInv, QueueWhileBound, PumpOwn, Drains, Draining, Init, NoPump
<1>8. OrderInv
  <2>1. fwd = <<>> /\ orphan.items = <<>> /\ \A l \in Connectors : ~Drains(pump[l])
    BY <1>2, <1>4, Zenon DEF Init, Drains
  <2>2. DOMAIN <<>> = {}
    OBVIOUS
  <2>3. Forwarded(fwd, Len(sent))
    BY <2>1, <2>2, Zenon DEF Forwarded
  <2> QED BY <2>1, <2>3, NoneQueued, Zenon DEF OrderInv
<1>9. ReplyInv
  <2>1. Filled(bins, ret, back, pump, rebind, inbound)
    BY <1>4, <1>5, <1>6, BinsFilled, Zenon DEF TypeOK, bins
  <2>2. \A b \in Bins : bins[b] = <<>>
    <3>1. ret = <<>> /\ back.items = <<>>
      BY <1>2, Zenon DEF Init
    <3>2. bins[RetBin] = <<>> /\ bins[BackBin] = <<>>
      BY <2>1, <3>1, Zenon DEF Filled
    <3>3. \A l \in Connectors : bins[PumpBin(l)] = <<>> /\ bins[RebindBin(l)] = <<>>
      BY <1>2, <1>4, <2>1, Zenon DEF Filled
    <3>4. \A p \in Providers : bins[DataBin(p)] = <<>>
      BY <1>4, <2>1, Zenon DEF Filled
    <3> QED BY <3>2, <3>3, <3>4, BinNames, Zenon
  <2>3. DOMAIN <<>> = {} /\ 1 .. 0 = {}
    OBVIOUS
  <2>4. All(bins) = {} /\ Apart(bins)
    BY <2>2, <2>3, Zenon DEF All, Apart, Injective, Elems
  <2> QED BY <1>2, <1>4, <2>3, <2>4, Zenon DEF ReplyInv, Init
<1>10. LinkInv
  BY <1>2, <1>4, Zenon DEF LinkInv
<1> QED BY <1>6, <1>7, <1>8, <1>9, <1>10, Zenon DEF IInv

\* What the steps do to it, apart from the types.
LEMMA StepKeepsParts ==
  ASSUME IInv, [Next]_vars
  PROVE  PumpInv' /\ OrderInv' /\ ReplyInv'
<1>1. CASE UNCHANGED vars
  BY <1>1, LinksMove, Zenon
<1>2. ASSUME NEW l \in Connectors,
             RegisterConnector(l) \/ PongArrives(l) \/ ConnectArrives(l) \/ RouteConnectorPayload(l) \/ DisconnectArrives(l)
      PROVE  PumpInv' /\ OrderInv' /\ ReplyInv'
  BY <1>2, LinksMove, RebindMoves, PumpRequested, PayloadArrives, Zenon
<1>3. ASSUME NEW l \in Connectors, PumpStep(l) PROVE PumpInv' /\ OrderInv' /\ ReplyInv'
  BY <1>3, PumpTurns, PumpBegins, PumpChooses, PumpBindsQueue, PumpBindsProvider, PumpWrites, PumpDrains, PumpWritesBack,
     Removals, Zenon DEF PumpStep
<1>4. ASSUME NEW l \in Connectors, RebindStep(l) PROVE PumpInv' /\ OrderInv' /\ ReplyInv'
  BY <1>4, RebindMoves, RebindDrains, RebindWrites, Zenon DEF RebindStep
<1>5. ASSUME NEW p \in Providers,
             RegisterProvider(p) \/ ResponseArrives(p) \/ DataArrives(p) \/ DataWrites(p) \/ ProviderDisconnectArrives(p)
      PROVE  PumpInv' /\ OrderInv' /\ ReplyInv'
  BY <1>5, LinksMove, DataTaken, DataDelivered, Zenon
<1>6. ASSUME NEW w \in Links, LinkBreaks(w) \/ LinkStep(w) PROVE PumpInv' /\ OrderInv' /\ ReplyInv'
  BY <1>6, LinksMove, Removals, Zenon DEF LinkStep
<1>7. CASE ResponseStep \/ DisconnectRuns \/ ExpireOrphanData \/ ExpireConnectorReturn
  BY <1>7, LinksMove, ResponseDelivered, Removals, Expiries, Zenon DEF ResponseStep
<1> QED BY <1>1, <1>2, <1>3, <1>4, <1>5, <1>6, <1>7, Zenon DEF Next

\* The types of the pumps and of what is in the dispatchers' hands.
LEMMA HandTypesKept == IInv /\ Next => HandTypes'
<1> SUFFICES ASSUME IInv, Next PROVE HandTypes'
  OBVIOUS
<1>0. HandTypes /\ MapTypes
  BY TypeParts, Zenon DEF IInv
<1>1. UNCHANGED <<pump, rebind, inbound, response>> => HandTypes'
  BY <1>0, Zenon DEF HandTypes
<1>2. pump' \in [Connectors -> Pump] /\ UNCHANGED <<rebind, inbound, response>> => HandTypes'
  BY <1>0, Zenon DEF HandTypes
<1>3. rebind' \in [Connectors -> Rebind] /\ UNCHANGED <<pump, inbound, response>> => HandTypes'
  BY <1>0, Zenon DEF HandTypes
<1>4. response' \in [pc : {"none", "lookup", "write", "done"}, target : Connector] /\ UNCHANGED <<pump, rebind, inbound>> => HandTypes'
  BY <1>0, Zenon DEF HandTypes
<1>5. inbound' \in [Providers -> [n : Nat \cup {-1}, target : Connector]] /\ UNCHANGED <<pump, rebind, response>> => HandTypes'
  BY <1>0, Zenon DEF HandTypes
<1>6. ASSUME NEW l \in Connectors, PumpStep(l) PROVE HandTypes'
  <2>1. pump' \in [Connectors -> Pump]
    BY <1>6, PumpTurns, PumpBegins, PumpChooses, PumpBindsQueue, PumpBindsProvider, PumpWrites, PumpDrains, PumpWritesBack,
       Removals, Zenon DEF PumpStep
  <2>2. UNCHANGED <<rebind, inbound, response>>
    BY <1>6, Zenon DEF PumpStep, pumpFrame, linkVars, returnVars, PumpStarts, PumpDenied, PumpLoops, PumpPicks, PumpTimesOut,
       PumpPublishes, PumpBinds, PumpTakes, PumpReplays, PumpForwards, PumpSeesClose, PumpRetires, PumpCleansUp
  <2> QED BY <1>2, <2>1, <2>2, Zenon
<1>7. ASSUME NEW l \in Connectors, ConnectArrives(l) PROVE HandTypes'
  BY <1>2, <1>7, PumpRequested, Zenon DEF ConnectArrives, linkVars, returnVars
<1>8. ASSUME DisconnectRuns \/ \E w \in Links : GraceExpires(w) PROVE HandTypes'
  BY <1>2, <1>8, Removals, Zenon DEF DisconnectRuns, GraceExpires, linkVars
<1>9. ASSUME ExpireOrphanData \/ ExpireConnectorReturn PROVE HandTypes'
  BY <1>2, <1>9, Expiries, Zenon DEF ExpireOrphanData, ExpireConnectorReturn, linkVars, returnVars
<1>10. ASSUME NEW l \in Connectors, RegisterConnector(l) \/ RebindStep(l) PROVE HandTypes'
  <2>1. rebind' \in [Connectors -> Rebind]
    BY <1>10, RebindMoves, RebindDrains, RebindWrites, Zenon DEF RebindStep
  <2> QED BY <1>3, <1>10, <2>1, Zenon DEF RebindStep, RegisterConnector, RebindScans, RebindChecks, RebindTakes, RebindReplays,
          returnVars
<1>11. ASSUME NEW p \in Providers, DataArrives(p) \/ DataWrites(p) PROVE HandTypes'
  BY <1>5, <1>11, DataTaken, DataDelivered, Zenon DEF DataArrives, DataWrites, linkVars
<1>12. ASSUME ResponseStep \/ \E p \in Providers : ResponseArrives(p) PROVE HandTypes'
  <2>1. response' \in [pc : {"none", "lookup", "write", "done"}, target : Connector]
    BY <1>0, <1>12 DEF HandTypes, MapTypes, ResponseStep, ResponseArrives, ResponseLooksUp, ResponseWrites, Connector
  <2> QED BY <1>4, <1>12, <2>1, Zenon DEF ResponseStep, ResponseArrives, ResponseLooksUp, ResponseWrites, linkVars
<1>13. ASSUME \/ \E l \in Connectors : PongArrives(l) \/ RouteConnectorPayload(l) \/ DisconnectArrives(l)
              \/ \E p \in Providers : RegisterProvider(p) \/ ProviderDisconnectArrives(p)
              \/ \E w \in Links : LinkBreaks(w) \/ LinkDeparts(w) \/ GraceFires(w)
       PROVE  HandTypes'
  BY <1>1, <1>13, Zenon DEF PongArrives, RouteConnectorPayload, DisconnectArrives, RegisterProvider, ProviderDisconnectArrives,
     LinkBreaks, LinkDeparts, GraceFires, linkVars, returnVars
<1> QED BY <1>6, <1>7, <1>8, <1>9, <1>10, <1>11, <1>12, <1>13, Zenon DEF Next, LinkStep

\* The types of the histories.
LEMMA TraceTypesKept == IInv /\ Next => TraceTypes'
<1> SUFFICES ASSUME IInv, Next PROVE TraceTypes'
  OBVIOUS
<1>0. TraceTypes
  BY TypeParts, Zenon DEF IInv
<1>1. \/ UNCHANGED <<sent, produced, ret, fwd, lossy>>
      \/ UNCHANGED <<sent, produced, ret, fwd>> /\ lossy' \in BOOLEAN
      \/ UNCHANGED <<sent, produced, fwd>> /\ ret' \in Seq(Nat) /\ lossy' \in BOOLEAN
      \/ UNCHANGED <<sent, produced, ret, lossy>> /\ fwd' \in Seq(Message)
      \/ UNCHANGED <<produced, ret, fwd, lossy>> /\ sent' \in Seq(Connectors)
      \/ UNCHANGED <<sent, ret, fwd, lossy>> /\ produced' \in Nat
      => TraceTypes'
  BY <1>0, Zenon DEF TraceTypes, Message
<1>2. ASSUME NEW l \in Connectors, RouteConnectorPayload(l) PROVE TraceTypes'
  BY <1>1, <1>2, PayloadArrives, Zenon DEF RouteConnectorPayload, returnVars
<1>3. ASSUME NEW l \in Connectors, PumpBinds(l) \/ PumpForwards(l) PROVE TraceTypes'
  BY <1>1, <1>3, PumpBindsProvider, PumpWrites, Zenon DEF PumpBinds, PumpForwards, pumpFrame, returnVars
<1>4. ASSUME NEW l \in Connectors, PumpReplays(l) \/ RebindReplays(l) PROVE TraceTypes'
  BY <1>1, <1>4, PumpWritesBack, RebindWrites, Zenon DEF PumpReplays, RebindReplays, pumpFrame
<1>5. ASSUME \/ DisconnectRuns \/ ExpireConnectorReturn
             \/ \E w \in Links : GraceExpires(w)
             \/ \E l \in Connectors : PumpCleansUp(l)
      PROVE  TraceTypes'
  <2>1. lossy' \in BOOLEAN
    BY <1>0, <1>5, Zenon DEF TraceTypes, DisconnectRuns, ExpireConnectorReturn, GraceExpires, PumpCleansUp, CleanupConnectorChannel
  <2> QED BY <1>1, <1>5, <2>1, Zenon DEF DisconnectRuns, ExpireConnectorReturn, GraceExpires, PumpCleansUp, pumpFrame
<1>6. ASSUME ResponseWrites PROVE TraceTypes'
  BY <1>1, <1>6, ResponseDelivered, Zenon DEF ResponseWrites
<1>7. ASSUME NEW p \in Providers, DataArrives(p) \/ DataWrites(p) PROVE TraceTypes'
  BY <1>1, <1>7, DataTaken, DataDelivered, Zenon DEF DataArrives, DataWrites
<1>8. ASSUME NEW l \in Connectors,
             \/ RegisterConnector(l) \/ PongArrives(l) \/ ConnectArrives(l) \/ DisconnectArrives(l)
             \/ PumpStarts(l) \/ PumpDenied(l) \/ PumpLoops(l) \/ PumpPicks(l) \/ PumpTimesOut(l) \/ PumpPublishes(l)
             \/ PumpTakes(l) \/ PumpSeesClose(l) \/ PumpRetires(l) \/ RebindScans(l) \/ RebindChecks(l) \/ RebindTakes(l)
      PROVE  TraceTypes'
  BY <1>1, <1>8, Zenon DEF RegisterConnector, PongArrives, ConnectArrives, DisconnectArrives, PumpStarts, PumpDenied, PumpLoops,
     PumpPicks, PumpTimesOut, PumpPublishes, PumpTakes, PumpSeesClose, PumpRetires, RebindScans, RebindChecks, RebindTakes,
     pumpFrame, returnVars
<1>9. ASSUME \/ \E p \in Providers : RegisterProvider(p) \/ ResponseArrives(p) \/ ProviderDisconnectArrives(p)
             \/ \E w \in Links : LinkBreaks(w) \/ LinkDeparts(w) \/ GraceFires(w)
             \/ ResponseLooksUp \/ ExpireOrphanData
      PROVE  TraceTypes'
  BY <1>1, <1>9, Zenon DEF RegisterProvider, ResponseArrives, ProviderDisconnectArrives, LinkBreaks, LinkDeparts, GraceFires,
     ResponseLooksUp, ExpireOrphanData, returnVars
<1> QED BY <1>2, <1>3, <1>4, <1>5, <1>6, <1>7, <1>8, <1>9, Zenon DEF Next, LinkStep, PumpStep, RebindStep, ResponseStep

\* Every step keeps the invariant.
LEMMA StepKeeps == IInv /\ [Next]_vars => IInv'
<1> SUFFICES ASSUME IInv, [Next]_vars PROVE IInv'
  OBVIOUS
<1>1. PumpInv' /\ OrderInv' /\ ReplyInv'
  BY StepKeepsParts, Zenon
<1>2. CASE Next
  <2>1. LinkTypes' /\ MapTypes' /\ QueueTypes' /\ HandTypes' /\ TraceTypes' /\ LinkInv'
    BY <1>2, LinkTypesKept, MapTypesKept, QueueTypesKept, HandTypesKept, TraceTypesKept, LinksRegister, Zenon DEF IInv
  <2>2. TypeOK'
    BY <2>1, Zenon DEF TypeOK, LinkTypes, MapTypes, QueueTypes, HandTypes, TraceTypes
  <2> QED BY <1>1, <2>1, <2>2, Zenon DEF IInv
<1>3. CASE UNCHANGED vars
  <2>1. TypeOK' /\ LinkInv'
    BY <1>3, Zenon DEF IInv, TypeOK, LinkInv, vars
  <2> QED BY <1>1, <2>1, Zenon DEF IInv
<1> QED BY <1>2, <1>3, Zenon

\* The strengthened invariant of the relay is inductive.
LEMMA Inductive == Spec => []IInv
BY InitHolds, StepKeeps, PTL DEF Spec

-----------------------------------------------------------------------------
(* What follows from it.                                                   *)

\* The relay's variables keep their types, for any number of links, payloads
\* and drops and any size of the queues: neither queue of connCache outgrows
\* orphanDataQueueSize, whoever fills it, and one that is removed is empty.
THEOREM TypeCorrect == Spec => []TypeOK
BY Inductive, PTL DEF IInv

\* A bound channel has its orphan queue and one pump at most drains it, over
\* all races of Connect, Resume, expiry, grace and cleanup: no payload goes
\* from routeConnectorPayload to a provider past the pump.
THEOREM QueueWhileBoundHolds == Spec => []QueueWhileBound
BY Inductive, PTL DEF IInv, PumpInv

\* Over every rebind, retry and change of the queue, what is written to a
\* provider link begins with a Connect or a Resume, and the payloads of one
\* connector link reach the providers at most once and in order.
THEOREM BoundThenInOrderHolds == Spec => []BoundThenInOrder
<1>1. IInv => BoundThenInOrder
  <2> SUFFICES ASSUME IInv, NEW j \in DOMAIN fwd, fwd[j].kind = "data"
               PROVE  /\ \E i \in 1 .. j - 1 : fwd[i].to = fwd[j].to /\ fwd[i].kind # "data"
                      /\ \A i \in 1 .. j - 1 : fwd[i].kind = "data" => fwd[i].n < fwd[j].n
    BY Zenon DEF BoundThenInOrder
  <2>1. Forwarded(fwd, Len(sent)) /\ fwd \in Seq([to : Providers, kind : {"connect", "resume", "data"}, n : Nat])
    BY Zenon DEF IInv, OrderInv, TypeOK
  <2>2. \A i \in 1 .. j - 1 : i \in DOMAIN fwd /\ i < j
    BY <2>1
  <2> QED BY <2>1, <2>2, Zenon DEF Forwarded
<1> QED BY <1>1, Inductive, PTL

\* A reply the server has taken from a provider is written to a connector link
\* exactly once, and until then is in the return queue or in the hands of one
\* goroutine, unless the channel was removed, a queue overflowed or an unbound
\* one expired.
THEOREM ReplyKeptOnceHolds == Spec => []ReplyKeptOnce
<1>1. IInv => ReplyKeptOnce
  <2> SUFFICES ASSUME IInv PROVE ReplyKeptOnce
    OBVIOUS
  <2>1. Accounted(bins, produced, response.pc, lossy)
    BY ReplyParts, Zenon DEF IInv
  <2>2. Filled(bins, ret, back, pump, rebind, inbound)
    <3>1. \A p \in Providers : inbound[p].n = -1 => inbound[p] = Idle
      BY Zenon DEF IInv, ReplyInv
    <3> QED BY <3>1, BinsFilled, Zenon DEF IInv, TypeOK, bins
  <2>3. \A i, j \in DOMAIN ret : ret[i] = ret[j] => i = j
    BY <2>1, <2>2, BinNames, Zenon DEF Accounted, Apart, Filled, Injective
  <2>4. All(bins) \subseteq Returned \cup InHand
    <3> SUFFICES ASSUME NEW b \in Bins, NEW n \in Elems(bins[b]) PROVE n \in Returned \cup InHand
      BY Zenon DEF All
    <3>1. b = RetBin => n \in Returned
      BY <2>2, Zenon DEF Filled, Returned
    <3>2. b = BackBin => n \in InHand
      BY <2>2, Zenon DEF Filled, InHand
    <3>3. \A l \in Connectors : b = PumpBin(l) \/ b = RebindBin(l) => n \in InHand
      <4> SUFFICES ASSUME NEW l \in Connectors, b = PumpBin(l) \/ b = RebindBin(l) PROVE n \in InHand
        OBVIOUS
      <4>1. n \in Elems(pump[l].held) \cup Elems(rebind[l].held)
        BY <2>2, Zenon DEF Filled
      <4> QED BY <4>1, Zenon DEF InHand
    <3>4. \A p \in Providers : b = DataBin(p) => n \in InHand
      <4> SUFFICES ASSUME NEW p \in Providers, b = DataBin(p) PROVE n \in InHand
        OBVIOUS
      <4>1. CASE inbound[p] = Idle
        <5>1. bins[b] = <<>>
          BY <2>2, <4>1, Zenon DEF Filled
        <5>2. DOMAIN <<>> = {}
          OBVIOUS
        <5> QED BY <5>1, <5>2, Zenon DEF Elems
      <4>2. CASE inbound[p] # Idle
        <5>1. bins[b] = <<inbound[p].n>>
          BY <2>2, <4>2, Zenon DEF Filled
        <5>2. Elems(<<inbound[p].n>>) = {inbound[p].n}
          BY DEF Elems
        <5> QED BY <5>1, <5>2, Zenon DEF InHand
      <4> QED BY <4>1, <4>2, Zenon
    <3> QED BY <3>1, <3>2, <3>3, <3>4, BinNames, Zenon
  <2> QED BY <2>1, <2>3, <2>4, Zenon DEF ReplyKeptOnce, Accounted
<1> QED BY <1>1, Inductive, PTL
=============================================================================
