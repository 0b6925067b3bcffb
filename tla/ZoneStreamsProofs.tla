------------------------- MODULE ZoneStreamsProofs --------------------------
(* Payloads arrive in order and a stream ends once: DeliveredInOrder and    *)
(* FinishedOnce of ZoneStreams, for any queue limit, any IDs, any number of *)
(* payloads and any order of opens, closes, resets, timeouts and losses.    *)
EXTENDS ZoneStreams, TLAPS

(* What one end keeps to itself.  The counter of closes follows done; a     *)
(* stream that has left the table was aborted and its queue is closed; the  *)
(* writer holds a chunk only while it writes; and an end without an ID has  *)
(* not started.                                                             *)

Started(e) == e.id # 0
Own(e) ==
  /\ e.finished = (IF e.done THEN 1 ELSE 0)
  /\ e.done => e.qclosed /\ ~e.listed
  /\ Started(e) /\ ~e.listed => e.done
  /\ e.writer = "end" => e.qclosed
  /\ IF e.writer = "write" THEN Len(e.chunk) = 1 ELSE e.chunk = <<>>
  /\ e.reader = "off" => e.read = 0
  /\ e.reader = "send" => e.read > 0
  /\ ~Started(e) => ~e.listed /\ ~e.done /\ e.reader = "off" /\ e.writer = "off" /\ e.queue = <<>> /\ e.got = <<>>

OwnInv == \A m \in Members, o \in Objects : Own(ends[m][o])

(* The life of a stream.  The ID of the end that takes the stream is that   *)
(* of the end that opened it, from OPEN through the dial to the insertion;  *)
(* the opener's loops run only once the other end has started; and a member *)
(* without its peer in the roster has no stream listed.                     *)

Opening(m) ==
  /\ handler[m] = "idle" => ~Started(ends[m]["out"])
  /\ handler[m] \in {"wait", "attach", "reply", "hold"} => Started(ends[m]["out"])
  /\ handler[m] \in {"idle", "wait", "attach"} => ends[m]["out"].reader = "off" /\ ends[m]["out"].writer = "off"
  /\ \/ ends[m]["out"].ready = "accepted" \/ handler[m] = "attach" \/ ends[m]["out"].reader # "off"
     \/ \E i \in DOMAIN net[m] : net[m][i].op = "accept"
     => Started(ends[Other(m)]["in"])

Names(m, id) == id # 0 /\ id = ends[Other(m)]["out"].id
Taking(m) ==
  /\ ends[m]["in"].conn = "none" => ~Started(ends[m]["in"])
  /\ Started(ends[m]["in"]) => Names(m, ends[m]["in"].id)
  /\ serve[m].pc = "dial" => Names(m, serve[m].id) /\ peers[m]
  /\ serve[m].pc = "remote" => serve[m].o \in Objects /\ Started(ends[m][serve[m].o])
  /\ \A i \in DOMAIN net[m] : net[m][i].op = "open" => Names(m, net[m][i].id)
  /\ ~peers[m] => \A o \in Objects : ~ends[m][o].listed

LifeInv == \A m \in Members : Opening(m) /\ Taking(m)

(* The data on its way.  A payload is one the other member has read and     *)
(* sent, and its message has the ID of the end that read it; if the two     *)
(* streams have their own IDs the read loop holds it for the right end.     *)

Distinct == \A n \in Members : ends[n]["out"].id # ends[Other(n)]["out"].id
SentUpTo(e) == IF e.reader = "send" THEN e.read - 1 ELSE e.read

\* p was sent by the other member, whose ends are s.
Comes(m, p, s) == p[1] = Other(m) /\ 1 <= p[3] /\ p[3] <= SentUpTo(s[p[2]])

Carrying(m) ==
  /\ \A i \in DOMAIN net[m] : net[m][i].op = "data" =>
       Comes(m, net[m][i].payload, ends[Other(m)]) /\ net[m][i].id = ends[Other(m)][net[m][i].payload[2]].id
  /\ serve[m].pc = "push" =>
       /\ Comes(m, serve[m].payload, ends[Other(m)]) /\ Started(ends[m][serve[m].o])
       /\ Distinct => serve[m].o = Peer(serve[m].payload[2])

CarryInv == \A m \in Members : Carrying(m)

(* The order of one direction of a stream, from the end (m, o) that writes  *)
(* it back to the end (Other(m), Peer(o)) that reads it: what is written,   *)
(* the writer's chunk, the queue, the payload in the hands of the read loop *)
(* and the messages under way are numbered without a gap.  A queue that is  *)
(* closed takes no more, so what follows it does not matter any longer.     *)

Number(x) == x.payload[3]
Carries(w, i, q) == w[i].op = "data" /\ w[i].payload[2] = q

\* The data of end q in w: it ascends, and starts at from + 1 without a gap.
Linked(w, q, from) ==
  /\ \A j \in DOMAIN w : Carries(w, j, q) =>
       /\ Number(w[j]) > from
       /\ Number(w[j]) # from + 1 => \E i \in DOMAIN w : i < j /\ Carries(w, i, q) /\ Number(w[i]) + 1 = Number(w[j])
  /\ \A i, j \in DOMAIN w : i < j /\ Carries(w, i, q) /\ Carries(w, j, q) => Number(w[i]) < Number(w[j])

Has(w, q, k) == \E i \in DOMAIN w : Carries(w, i, q) /\ Number(w[i]) = k

Held(e) == Len(e.got) + Len(e.chunk) + Len(e.queue)
Pushing(m, o) == serve[m].pc = "push" /\ serve[m].o = o
Taken(m, o) == IF Pushing(m, o) THEN Held(ends[m][o]) + 1 ELSE Held(ends[m][o])

\* What the end holds, e, is numbered from 1 on, as far as p has sent.
Ordered(n, q, e, p) ==
  /\ \A i \in DOMAIN e.got : e.got[i] = <<n, q, i>>
  /\ e.writer = "write" => e.chunk[1] = <<n, q, Len(e.got) + 1>>
  /\ Len(e.got) <= SentUpTo(p)
  /\ e.writer # "end" =>
       /\ \A i \in DOMAIN e.queue : e.queue[i] = <<n, q, Len(e.got) + Len(e.chunk) + i>>
       /\ Held(e) <= SentUpTo(p)

Follows(m, o) ==
  LET e == ends[m][o]  n == Other(m)  q == Peer(o)  p == ends[n][q] IN
  /\ Ordered(n, q, e, p)
  /\ ~e.qclosed /\ Pushing(m, o) => serve[m].payload[3] = Held(e) + 1
  /\ ~e.qclosed /\ ws[m] = "up" =>
       /\ Linked(net[m], q, Taken(m, o))
       /\ p.reader \in {"read", "send"} => SentUpTo(p) = Taken(m, o) \/ Has(net[m], q, SentUpTo(p))

OrderInv == Distinct => \A m \in Members, o \in Objects : Follows(m, o)

IInv == TypeOK /\ OwnInv /\ LifeInv /\ CarryInv /\ OrderInv

-----------------------------------------------------------------------------
(* Members, ends and records.                                              *)

\* A number is not below itself.
LEMMA Reflexive == \A x \in Nat : x <= x
OBVIOUS

\* A sequence and one behind it.
LEMMA Joined ==
  ASSUME NEW S, NEW s \in Seq(S), NEW t \in Seq(S)
  PROVE  /\ s \o t \in Seq(S) /\ Len(s \o t) = Len(s) + Len(t)
         /\ \A i \in 1 .. Len(s) + Len(t) : (s \o t)[i] = IF i <= Len(s) THEN s[i] ELSE t[i - Len(s)]
OBVIOUS

\* There are two members, and each is the other's other.
LEMMA Others ==
  ASSUME NEW m \in Members
  PROVE  Other(m) \in Members /\ Other(m) # m /\ Other(Other(m)) = m /\ Members = {m, Other(m)}
<1>1. PICK k, l \in Members : k # l /\ Members = {k, l}
  BY ZoneStreamsAssumption, Zenon
<1>2. \A j \in Members : \E n \in Members : n # j
  BY <1>1, SMT
<1>3. \A j \in Members : Other(j) \in Members /\ Other(j) # j
  BY <1>2, Zenon DEF Other
<1> QED BY <1>1, <1>3, Zenon

\* The two objects of a member.
LEMMA Peers ==
  ASSUME NEW o \in Objects
  PROVE  Peer(o) \in Objects /\ Peer(o) # o /\ Peer(Peer(o)) = o /\ Objects = {o, Peer(o)}
BY Zenon DEF Peer, Objects

\* A new value of one end.
LEMMA Updated ==
  ASSUME ends \in [Members -> [Objects -> End]], NEW m \in Members, NEW o \in Objects, NEW e \in End, Update(m, o, e)
  PROVE  /\ ends' \in [Members -> [Objects -> End]] /\ ends'[m][o] = e
         /\ \A n \in Members, q \in Objects : n # m \/ q # o => ends'[n][q] = ends[n][q]
BY Zenon DEF Update

\* An end's fields.
LEMMA Fields ==
  ASSUME NEW e \in End
  PROVE  /\ e.id \in 0..MaxId /\ e.listed \in BOOLEAN /\ e.local \in BOOLEAN /\ e.done \in BOOLEAN /\ e.finished \in Nat
         /\ e.queue \in Seq(Payloads) /\ e.chunk \in Seq(Payloads) /\ e.got \in Seq(Payloads) /\ e.qclosed \in BOOLEAN
         /\ e.read \in Nat
BY Zenon DEF End

\* What it holds.
LEMMA Lengths ==
  ASSUME NEW e \in End
  PROVE  Len(e.got) \in Nat /\ Len(e.chunk) \in Nat /\ Len(e.queue) \in Nat /\ Held(e) \in Nat
<1>1. e.got \in Seq(Payloads) /\ e.chunk \in Seq(Payloads) /\ e.queue \in Seq(Payloads)
  BY Fields, Zenon
<1>2. Len(e.got) \in Nat /\ Len(e.chunk) \in Nat /\ Len(e.queue) \in Nat
  BY <1>1
<1>3. \A i, j, k \in Nat : i + j + k \in Nat
  OBVIOUS
<1> QED BY <1>2, <1>3, Zenon DEF Held

Calm(e, f) ==
  /\ f.id = e.id /\ f.read = e.read /\ f.reader = e.reader
  /\ f.writer = e.writer /\ f.got = e.got /\ f.chunk = e.chunk /\ f.queue = e.queue
  /\ e.qclosed => f.qclosed
  /\ f.listed => e.listed
  /\ f.conn = "none" => e.conn = "none"

\* abort ends a stream and leaves its data alone.
LEMMA Aborts ==
  ASSUME NEW e \in End, Own(e), Started(e)
  PROVE  Abort(e) \in End /\ Own(Abort(e)) /\ Calm(e, Abort(e)) /\ Abort(e).ready = e.ready /\ ~Abort(e).listed /\ Abort(e).qclosed
<1>1. CASE e.done
  BY <1>1, Fields, Zenon DEF Own, Abort, Calm
<1>2. CASE ~e.done
  <2> DEFINE c == IF e.local THEN "closed" ELSE e.conn
             k == e.finished + 1
             f == [e EXCEPT !.done = TRUE, !.qclosed = TRUE, !.conn = c, !.listed = FALSE, !.finished = k]
  <2>1. Abort(e) = f
    BY <1>2, Zenon DEF Abort
  <2>0. c \in {"none", "open", "closed"} /\ (c = "none" => e.conn = "none") /\ k \in Nat /\ k = e.finished + 1
    BY DEF End
  <2> HIDE DEF c, k
  <2>2. f \in End
    BY <2>0, Zenon DEF End
  <2>3. Calm(e, f) /\ f.ready = e.ready /\ ~f.listed /\ f.qclosed /\ f.done /\ f.finished = e.finished + 1
    BY <2>0, Zenon DEF End, Calm
  <2>4. e.finished = 0
    BY <1>2, Zenon DEF Own
  <2> HIDE DEF f
  <2>5. f.finished = 1
    BY <2>3, <2>4
  <2>6. Own(f)
    BY <2>3, <2>5, Zenon DEF Own, Started, Calm
  <2> QED BY <2>1, <2>2, <2>3, <2>6, Zenon
<1> QED BY <1>1, <1>2, Zenon

\* So does closing the connection.
LEMMA GivesUp ==
  ASSUME NEW e \in End, Own(e)
  PROVE  GiveUp(e) \in End /\ Own(GiveUp(e)) /\ Calm(e, GiveUp(e)) /\ GiveUp(e).ready = e.ready
BY DEF Own, GiveUp, Calm, End, Started

\* An answer for the opener.
LEMMA GetsAnswer ==
  ASSUME NEW e \in End, Own(e), NEW c \in {"accepted", "refused"}
  PROVE  LET f == [e EXCEPT !.ready = c] IN f \in End /\ Own(f) /\ Calm(e, f) /\ f.ready = c
<1> DEFINE f == [e EXCEPT !.ready = c]
<1>1. f \in End
  BY Zenon DEF End
<1>2. Calm(e, f) /\ f.ready = c /\ f.finished = e.finished /\ f.done = e.done /\ f.listed = e.listed
  BY Zenon DEF Calm, End
<1> HIDE DEF f
<1>3. Own(f)
  BY <1>2, Zenon DEF Own, Calm, Started
<1> QED BY <1>1, <1>2, <1>3, Zenon DEF f

\* The first half of remoteClose.
LEMMA RemoteSet ==
  ASSUME NEW e \in End, Own(e)
  PROVE  LET f == [e EXCEPT !.remoteClosed = TRUE] IN f \in End /\ Own(f) /\ Calm(e, f) /\ f.ready = e.ready
<1> DEFINE f == [e EXCEPT !.remoteClosed = TRUE]
<1>1. f \in End
  BY Zenon DEF End
<1>2. Calm(e, f) /\ f.ready = e.ready /\ f.finished = e.finished /\ f.done = e.done /\ f.listed = e.listed
  BY Zenon DEF Calm, End
<1> HIDE DEF f
<1>3. Own(f)
  BY <1>2, Zenon DEF Own, Calm, Started
<1> QED BY <1>1, <1>2, <1>3, Zenon DEF f

\* The second half of remoteClose, before the abort.
LEMMA HalfCloses ==
  ASSUME NEW e \in End, Own(e), NEW h \in BOOLEAN
  PROVE  LET f == [e EXCEPT !.qclosed = TRUE, !.half = h] IN f \in End /\ Own(f) /\ Calm(e, f) /\ f.ready = e.ready
<1> DEFINE f == [e EXCEPT !.qclosed = TRUE, !.half = h]
<1>1. f \in End
  BY Zenon DEF End
<1>2. Calm(e, f) /\ f.ready = e.ready /\ f.finished = e.finished /\ f.done = e.done /\ f.listed = e.listed
  BY Zenon DEF Calm, End
<1> HIDE DEF f
<1>3. Own(f)
  BY <1>2, Zenon DEF Own, Calm, Started
<1> QED BY <1>1, <1>2, <1>3, Zenon DEF f

\* The local application.
LEMMA AppActs ==
  ASSUME NEW e \in End, Own(e), NEW how \in {"eof", "reset"}
  PROVE  LET f == [e EXCEPT !.app = how] IN f \in End /\ Own(f) /\ Calm(e, f) /\ f.ready = e.ready
<1> DEFINE f == [e EXCEPT !.app = how]
<1>1. f \in End
  BY Zenon DEF End
<1>2. Calm(e, f) /\ f.ready = e.ready /\ f.finished = e.finished /\ f.done = e.done /\ f.listed = e.listed
  BY Zenon DEF Calm, End
<1> HIDE DEF f
<1>3. Own(f)
  BY <1>2, Zenon DEF Own, Calm, Started
<1> QED BY <1>1, <1>2, <1>3, Zenon DEF f

\* Calm changes compose, and none is calm.
LEMMA CalmThen ==
  ASSUME NEW e, NEW f, NEW g, Calm(e, f), Calm(f, g)
  PROVE  Calm(e, g)
BY Zenon DEF Calm

\* An end that stays as it is.
LEMMA CalmSelf ==
  ASSUME NEW e
  PROVE  Calm(e, e)
BY Zenon DEF Calm

-----------------------------------------------------------------------------
(* Sequences of messages.                                                  *)

\* As far as the data of end q goes v is w: perhaps without its first message,
\* and with others after it.
Skips(w, v, q) ==
  \E d \in {0, 1} :
    /\ d = 1 => 1 \in DOMAIN w /\ ~Carries(w, 1, q)
    /\ \A i \in DOMAIN v : IF i + d \in DOMAIN w THEN v[i] = w[i + d] ELSE ~Carries(v, i, q)
    /\ \A i \in DOMAIN w : i > d => i - d \in DOMAIN v /\ v[i - d] = w[i]

\* No change.
LEMMA SkipsSelf ==
  ASSUME NEW w \in Seq(Messages), NEW q
  PROVE  Skips(w, w, q)
BY DEF Skips

\* A message is sent.
LEMMA SkipsAppend ==
  ASSUME NEW w \in Seq(Messages), NEW x \in Messages, NEW q, x.op # "data" \/ x.payload[2] # q
  PROVE  Skips(w, Append(w, x), q)
<1> DEFINE v == Append(w, x)
<1>1. \A i \in DOMAIN v : IF i + 0 \in DOMAIN w THEN v[i] = w[i + 0] ELSE v[i] = x
  OBVIOUS
<1>2. \A i \in DOMAIN w : i > 0 => i - 0 \in DOMAIN v /\ v[i - 0] = w[i]
  OBVIOUS
<1> HIDE DEF v
<1>3. \A i \in DOMAIN v : IF i + 0 \in DOMAIN w THEN v[i] = w[i + 0] ELSE ~Carries(v, i, q)
  BY <1>1, Zenon DEF Carries
<1>4. Skips(w, v, q)
  BY <1>2, <1>3 DEF Skips
<1> QED BY <1>4, Zenon DEF v

\* A message is taken.
LEMMA SkipsTail ==
  ASSUME NEW w \in Seq(Messages), w # <<>>, NEW q, Head(w).op # "data" \/ Head(w).payload[2] # q
  PROVE  Skips(w, Tail(w), q)
<1> DEFINE v == Tail(w)
<1>1. \A i \in DOMAIN v : i + 1 \in DOMAIN w /\ v[i] = w[i + 1]
  OBVIOUS
<1>2. \A i \in DOMAIN w : i > 1 => i - 1 \in DOMAIN v /\ v[i - 1] = w[i]
  OBVIOUS
<1>3. 1 \in DOMAIN w /\ w[1] = Head(w)
  OBVIOUS
<1> HIDE DEF v
<1>4. ~Carries(w, 1, q)
  BY <1>3, Zenon DEF Carries
<1>5. Skips(w, v, q)
  BY <1>1, <1>2, <1>3, <1>4, Zenon DEF Skips
<1> QED BY <1>5, Zenon DEF v

\* The data of w is in v, in the same order.
LEMMA SkipsKeeps ==
  ASSUME NEW w \in Seq(Messages), NEW v \in Seq(Messages), NEW q, Skips(w, v, q)
  PROVE  /\ \A k : Has(w, q, k) => Has(v, q, k)
         /\ \A k : Linked(w, q, k) => Linked(v, q, k)
<1>1. PICK d \in {0, 1} :
        /\ d = 1 => 1 \in DOMAIN w /\ ~Carries(w, 1, q)
        /\ \A i \in DOMAIN v : IF i + d \in DOMAIN w THEN v[i] = w[i + d] ELSE ~Carries(v, i, q)
        /\ \A i \in DOMAIN w : i > d => i - d \in DOMAIN v /\ v[i - d] = w[i]
  BY Zenon DEF Skips
<1>3. ASSUME NEW i \in DOMAIN w, Carries(w, i, q)
      PROVE  i > d /\ i - d \in DOMAIN v /\ v[i - d] = w[i]
  <2>1. i \in Nat \ {0} /\ d \in Nat
    BY <1>1
  <2>2. i > d
    BY <1>1, <1>3, <2>1
  <2> QED BY <1>1, <2>2, Zenon
<1>4. DOMAIN w \subseteq Nat /\ DOMAIN v \subseteq Nat /\ d \in Nat
  BY <1>1
<1>5. ASSUME NEW k, Has(w, q, k)
      PROVE  Has(v, q, k)
  BY <1>3, <1>5, Zenon DEF Has, Carries, Number
<1>6. ASSUME NEW i \in DOMAIN v, Carries(v, i, q)
      PROVE  i + d \in DOMAIN w /\ Carries(w, i + d, q) /\ Number(w[i + d]) = Number(v[i])
  BY <1>1, <1>6, Zenon DEF Carries
<1>7. ASSUME NEW f, Linked(w, q, f)
      PROVE  Linked(v, q, f)
  <2>1. ASSUME NEW j \in DOMAIN v, Carries(v, j, q)
        PROVE  /\ Number(v[j]) > f
               /\ Number(v[j]) # f + 1 => \E i \in DOMAIN v : i < j /\ Carries(v, i, q) /\ Number(v[i]) + 1 = Number(v[j])
    <3>1. j + d \in DOMAIN w /\ Carries(w, j + d, q) /\ Number(w[j + d]) = Number(v[j])
      BY <1>6, <2>1, Zenon
    <3>2. Number(v[j]) > f
      BY <1>7, <3>1, Zenon DEF Linked
    <3>3. ASSUME Number(v[j]) # f + 1
          PROVE  \E i \in DOMAIN v : i < j /\ Carries(v, i, q) /\ Number(v[i]) + 1 = Number(v[j])
      <4>1. PICK i \in DOMAIN w : i < j + d /\ Carries(w, i, q) /\ Number(w[i]) + 1 = Number(w[j + d])
        BY <1>7, <3>1, <3>3, Zenon DEF Linked
      <4>2. i > d /\ i - d \in DOMAIN v /\ v[i - d] = w[i]
        BY <1>3, <4>1, Zenon
      <4>3. i - d < j
        BY <1>4, <4>1, <4>2
      <4>4. Carries(v, i - d, q) /\ Number(v[i - d]) + 1 = Number(v[j])
        BY <3>1, <4>1, <4>2, Zenon DEF Carries
      <4> QED BY <4>2, <4>3, <4>4, Zenon
    <3> QED BY <3>2, <3>3, Zenon
  <2>2. ASSUME NEW i \in DOMAIN v, NEW j \in DOMAIN v, i < j, Carries(v, i, q), Carries(v, j, q)
        PROVE  Number(v[i]) < Number(v[j])
    <3>1. i + d \in DOMAIN w /\ Carries(w, i + d, q) /\ Number(w[i + d]) = Number(v[i])
      BY <1>6, <2>2, Zenon
    <3>2. j + d \in DOMAIN w /\ Carries(w, j + d, q) /\ Number(w[j + d]) = Number(v[j])
      BY <1>6, <2>2, Zenon
    <3>3. i + d < j + d
      BY <1>4, <2>2
    <3>4. Number(w[i + d]) < Number(w[j + d])
      BY <1>7, <3>1, <3>2, <3>3, Zenon DEF Linked
    <3> QED BY <3>1, <3>2, <3>4, Zenon
  <2> QED BY <2>1, <2>2, Zenon DEF Linked
<1> QED BY <1>5, <1>7, Zenon

\* Where the messages of a longer or a shorter sequence come from.
LEMMA AppendFrom ==
  ASSUME NEW w \in Seq(Messages), NEW x \in Messages, NEW v, v = Append(w, x)
  PROVE  /\ v \in Seq(Messages)
         /\ \A i \in DOMAIN v : v[i] = x \/ \E j \in DOMAIN w : w[j] = v[i]
<1>1. v \in Seq(Messages) /\ \A i \in DOMAIN v : v[i] = x \/ (i \in DOMAIN w /\ w[i] = v[i])
  OBVIOUS
<1> QED BY <1>1, Zenon

\* Taking the first message off leaves the others.
LEMMA TailFrom ==
  ASSUME NEW w \in Seq(Messages), w # <<>>, NEW v, v = Tail(w)
  PROVE  /\ v \in Seq(Messages) /\ Head(w) \in Messages /\ 1 \in DOMAIN w /\ w[1] = Head(w)
         /\ \A i \in DOMAIN v : \E j \in DOMAIN w : w[j] = v[i]
<1>1. \A i \in DOMAIN v : i + 1 \in DOMAIN w /\ w[i + 1] = v[i]
  OBVIOUS
<1>2. v \in Seq(Messages) /\ Head(w) \in Messages /\ 1 \in DOMAIN w /\ w[1] = Head(w)
  OBVIOUS
<1> QED BY <1>1, <1>2, Zenon

\* The numbers of data.
LEMMA Numbers ==
  ASSUME NEW w \in Seq(Messages), NEW i \in DOMAIN w, w[i].op = "data"
  PROVE  w[i].payload \in Payloads /\ w[i].id \in 0..MaxId /\ Number(w[i]) \in Nat
<1>1. w[i] \in Messages
  OBVIOUS
<1>2. w[i] \in [op : {"data"}, id : 0..MaxId, payload : Payloads]
  BY <1>1, Zenon DEF Messages
<1>3. w[i].payload \in Payloads /\ w[i].id \in 0..MaxId
  BY <1>2, Zenon
<1> QED BY <1>3, Zenon DEF Number, Payloads

\* The reader sends the next payload.
LEMMA LinkedSend ==
  ASSUME NEW w \in Seq(Messages), NEW x \in Messages, NEW q, NEW f \in Nat, NEW k \in Nat, Linked(w, q, f),
         x.op = "data", x.payload[2] = q, Number(x) = k, f < k,
         \A i \in DOMAIN w : Carries(w, i, q) => Number(w[i]) < k,
         k # f + 1 => Has(w, q, k - 1)
  PROVE  Linked(Append(w, x), q, f) /\ Has(Append(w, x), q, k)
<1> DEFINE v == Append(w, x)
           l == Len(w) + 1
<1>1. /\ \A i \in DOMAIN v : i # l => i \in DOMAIN w /\ v[i] = w[i]
      /\ \A i \in DOMAIN w : i \in DOMAIN v /\ v[i] = w[i] /\ i < l
      /\ l \in DOMAIN v /\ v[l] = x /\ l \in Nat
      /\ \A i \in DOMAIN v : i \in Nat /\ i <= l
  OBVIOUS
<1> HIDE DEF v, l
<1>2. \A i \in DOMAIN v : i # l /\ Carries(v, i, q) => i \in DOMAIN w /\ Carries(w, i, q) /\ v[i] = w[i]
  BY <1>1, Zenon DEF Carries
<1>3. \A i \in DOMAIN w : Carries(w, i, q) => i \in DOMAIN v /\ Carries(v, i, q) /\ v[i] = w[i] /\ i < l
  BY <1>1, Zenon DEF Carries
<1>4. Carries(v, l, q) /\ Number(v[l]) = k
  BY <1>1, Zenon DEF Carries
<1>5. Has(v, q, k)
  BY <1>1, <1>4, Zenon DEF Has
<1>6. ASSUME NEW j \in DOMAIN v, Carries(v, j, q)
      PROVE  /\ Number(v[j]) > f
             /\ Number(v[j]) # f + 1 => \E i \in DOMAIN v : i < j /\ Carries(v, i, q) /\ Number(v[i]) + 1 = Number(v[j])
  <2>1. CASE j = l
    <3>1. Number(v[j]) = k /\ k > f
      BY <1>4, <2>1, Zenon
    <3>2. ASSUME k # f + 1
          PROVE  \E i \in DOMAIN v : i < j /\ Carries(v, i, q) /\ Number(v[i]) + 1 = Number(v[j])
      <4>1. PICK i \in DOMAIN w : Carries(w, i, q) /\ Number(w[i]) = k - 1
        BY <3>2, Zenon DEF Has
      <4>2. Number(w[i]) + 1 = k
        BY <4>1
      <4>3. i \in DOMAIN v /\ Carries(v, i, q) /\ v[i] = w[i] /\ i < l
        BY <1>3, <4>1, Zenon
      <4> QED BY <2>1, <3>1, <4>2, <4>3, Zenon
    <3> QED BY <3>1, <3>2, Zenon
  <2>2. CASE j # l
    <3>1. j \in DOMAIN w /\ Carries(w, j, q) /\ v[j] = w[j]
      BY <1>2, <1>6, <2>2, Zenon
    <3>2. Number(w[j]) > f /\ (Number(w[j]) # f + 1 => \E i \in DOMAIN w : i < j /\ Carries(w, i, q) /\ Number(w[i]) + 1 = Number(w[j]))
      BY <3>1, Zenon DEF Linked
    <3> QED BY <1>3, <3>1, <3>2, Zenon
  <2> QED BY <2>1, <2>2, Zenon
<1>7. ASSUME NEW i \in DOMAIN v, NEW j \in DOMAIN v, i < j, Carries(v, i, q), Carries(v, j, q)
      PROVE  Number(v[i]) < Number(v[j])
  <2>0. i # l
    BY <1>1, <1>7
  <2>1. i \in DOMAIN w /\ Carries(w, i, q) /\ v[i] = w[i]
    BY <1>2, <1>7, <2>0, Zenon
  <2>2. CASE j = l
    BY <1>4, <2>1, <2>2, Zenon
  <2>3. CASE j # l
    <3>1. j \in DOMAIN w /\ Carries(w, j, q) /\ v[j] = w[j]
      BY <1>2, <1>7, <2>3, Zenon
    <3> QED BY <1>7, <2>1, <3>1, Zenon DEF Linked
  <2> QED BY <2>2, <2>3, Zenon
<1>8. Linked(v, q, f)
  BY <1>6, <1>7, Zenon DEF Linked
<1> QED BY <1>5, <1>8, Zenon DEF v

\* The read loop takes the next payload.
LEMMA LinkedTaken ==
  ASSUME NEW w \in Seq(Messages), w # <<>>, NEW q, NEW f \in Nat, Linked(w, q, f), Carries(w, 1, q)
  PROVE  /\ Number(w[1]) = f + 1 /\ Linked(Tail(w), q, f + 1)
         /\ \A k : k # f + 1 /\ Has(w, q, k) => Has(Tail(w), q, k)
<1> DEFINE v == Tail(w)
<1>1. /\ \A i \in DOMAIN v : i + 1 \in DOMAIN w /\ v[i] = w[i + 1] /\ i \in Nat /\ i > 0
      /\ \A i \in DOMAIN w : i # 1 => i - 1 \in DOMAIN v /\ v[i - 1] = w[i] /\ i \in Nat /\ i > 1
      /\ 1 \in DOMAIN w /\ ~(\E i \in DOMAIN w : i < 1)
  OBVIOUS
<1> HIDE DEF v
<1>2. Number(w[1]) = f + 1
  BY <1>1, Zenon DEF Linked
<1>3. \A i \in DOMAIN v : Carries(v, i, q) => i + 1 \in DOMAIN w /\ Carries(w, i + 1, q) /\ v[i] = w[i + 1]
  BY <1>1, Zenon DEF Carries
<1>4. \A i \in DOMAIN w : i # 1 /\ Carries(w, i, q) => i - 1 \in DOMAIN v /\ Carries(v, i - 1, q) /\ v[i - 1] = w[i]
  BY <1>1, Zenon DEF Carries
<1>5. ASSUME NEW j \in DOMAIN v, Carries(v, j, q)
      PROVE  /\ Number(v[j]) > f + 1
             /\ Number(v[j]) # (f + 1) + 1 => \E i \in DOMAIN v : i < j /\ Carries(v, i, q) /\ Number(v[i]) + 1 = Number(v[j])
  <2>1. j + 1 \in DOMAIN w /\ Carries(w, j + 1, q) /\ v[j] = w[j + 1]
    BY <1>3, <1>5, Zenon
  <2>2. 1 < j + 1
    BY <1>1
  <2>3. Number(w[1]) < Number(w[j + 1])
    BY <1>1, <2>1, <2>2, Zenon DEF Linked
  <2>4. Number(w[j + 1]) \in Nat
    BY <2>1, Numbers, Zenon DEF Carries
  <2>5. Number(v[j]) > f + 1
    BY <1>2, <2>1, <2>3, <2>4, Zenon
  <2>6. ASSUME Number(v[j]) # (f + 1) + 1
        PROVE  \E i \in DOMAIN v : i < j /\ Carries(v, i, q) /\ Number(v[i]) + 1 = Number(v[j])
    <3>1. Number(w[j + 1]) # f + 1
      BY <2>1, <2>4, <2>5
    <3>2. PICK i \in DOMAIN w : i < j + 1 /\ Carries(w, i, q) /\ Number(w[i]) + 1 = Number(w[j + 1])
      BY <2>1, <3>1, Zenon DEF Linked
    <3>3. i # 1
      BY <1>2, <2>1, <2>6, <3>2, Zenon
    <3>4. i - 1 \in DOMAIN v /\ Carries(v, i - 1, q) /\ v[i - 1] = w[i]
      BY <1>4, <3>2, <3>3, Zenon
    <3>5. i - 1 < j
      BY <1>1, <3>2, <3>3
    <3> QED BY <2>1, <3>2, <3>4, <3>5, Zenon
  <2> QED BY <2>5, <2>6, Zenon
<1>6. ASSUME NEW i \in DOMAIN v, NEW j \in DOMAIN v, i < j, Carries(v, i, q), Carries(v, j, q)
      PROVE  Number(v[i]) < Number(v[j])
  <2>1. i + 1 < j + 1
    BY <1>1, <1>6
  <2> QED BY <1>3, <1>6, <2>1, Zenon DEF Linked
<1>7. Linked(v, q, f + 1)
  BY <1>5, <1>6, Zenon DEF Linked
<1>8. ASSUME NEW k, k # f + 1, Has(w, q, k)
      PROVE  Has(v, q, k)
  <2>1. PICK i \in DOMAIN w : Carries(w, i, q) /\ Number(w[i]) = k
    BY <1>8, Zenon DEF Has
  <2>2. i # 1
    BY <1>2, <1>8, <2>1, Zenon
  <2> QED BY <1>4, <2>1, <2>2, Zenon DEF Has
<1> QED BY <1>2, <1>7, <1>8, Zenon DEF v

-----------------------------------------------------------------------------
(* What a step leaves alone.                                               *)

\* The IDs of the two opened streams are as before.
LEMMA DistinctKept ==
  ASSUME \A n \in Members, q \in Objects : ends'[n][q].id = ends[n][q].id
  PROVE  Distinct' = Distinct
<1>1. "out" \in Objects
  BY Zenon DEF Objects
<1>2. \A n \in Members : ends'[n]["out"].id = ends[n]["out"].id /\ ends'[Other(n)]["out"].id = ends[Other(n)]["out"].id
  BY <1>1, Others, Zenon
<1> QED BY <1>2, Zenon DEF Distinct

ReceivesSame(e, f) ==
  f.got = e.got /\ f.chunk = e.chunk /\ f.queue = e.queue /\ f.writer = e.writer /\ (e.qclosed => f.qclosed)
SendsSame(e, f) ==
  /\ SentUpTo(e) <= SentUpTo(f)
  /\ f.reader \in {"read", "send"} => e.reader \in {"read", "send"} /\ SentUpTo(f) = SentUpTo(e)
PushKept(m, o) == (Pushing(m, o)' <=> Pushing(m, o)) /\ (Pushing(m, o) => serve'[m] = serve[m])
PushSame(m) == serve'[m] = serve[m] \/ (serve[m].pc # "push" /\ serve'[m].pc # "push")

\* What an end has sent.
LEMMA SentNat ==
  ASSUME NEW e \in End, Own(e)
  PROVE  SentUpTo(e) \in Nat /\ (SentUpTo(e) > 0 => Started(e))
<1>1. e.read \in Nat /\ (e.reader = "send" => e.read > 0) /\ (e.reader = "off" => e.read = 0)
  BY Fields, Zenon DEF Own
<1>2. ~Started(e) => e.reader = "off"
  BY Zenon DEF Own
<1> QED BY <1>1, <1>2 DEF SentUpTo

\* A direction whose two ends are not touched.
LEMMA FollowsKept ==
  ASSUME TypeOK, TypeOK', OwnInv, OwnInv', NEW m \in Members, NEW o \in Objects, Follows(m, o),
         ReceivesSame(ends[m][o], ends'[m][o]), SendsSame(ends[Other(m)][Peer(o)], ends'[Other(m)][Peer(o)]),
         PushKept(m, o), ws'[m] = "up" => ws[m] = "up" /\ Skips(net[m], net'[m], Peer(o))
  PROVE  Follows(m, o)'
<1> DEFINE e == ends[m][o]
           f == ends'[m][o]
           p == ends[Other(m)][Peer(o)]
           r == ends'[Other(m)][Peer(o)]
           q == Peer(o)
<1>0. Other(m) \in Members /\ q \in Objects
  BY Others, Peers, Zenon
<1>1. Held(f) = Held(e)
  BY Zenon DEF ReceivesSame, Held
<1>s. /\ SentUpTo(p) \in Nat /\ SentUpTo(r) \in Nat /\ SentUpTo(p) <= SentUpTo(r) /\ Len(e.got) \in Nat /\ Held(e) \in Nat
      /\ r.reader \in {"read", "send"} => p.reader \in {"read", "send"} /\ SentUpTo(r) = SentUpTo(p)
  <2>1. p \in End /\ r \in End /\ Own(p) /\ Own(r) /\ e \in End
    BY <1>0, Zenon DEF TypeOK, OwnInv
  <2>3. Len(e.got) \in Nat /\ Held(e) \in Nat
    BY <2>1, Lengths, Zenon
  <2> QED BY <2>1, <2>3, SentNat, Zenon DEF SendsSame
<1>2. Ordered(Other(m), q, f, r)
  <2>1. Ordered(Other(m), q, e, p)
    BY Zenon DEF Follows
  <2>2. Len(e.got) <= SentUpTo(r) /\ (Held(e) <= SentUpTo(p) => Held(e) <= SentUpTo(r))
    <3>1. Len(e.got) <= SentUpTo(p)
      BY <2>1, Zenon DEF Ordered
    <3> DEFINE a == SentUpTo(p)
               b == SentUpTo(r)
               k == Len(e.got)
               l == Held(e)
    <3>2. a \in Nat /\ b \in Nat /\ a <= b /\ k \in Nat /\ l \in Nat /\ k <= a
      BY <1>s, <3>1, Zenon
    <3> HIDE DEF a, b, k, l
    <3>3. k <= b /\ (l <= a => l <= b)
      BY <3>2
    <3> QED BY <3>3, Zenon DEF a, b, k, l
  <2> QED BY <1>1, <2>1, <2>2, Zenon DEF Ordered, ReceivesSame
<1>3. (Pushing(m, o)' <=> Pushing(m, o)) /\ (Pushing(m, o) => serve'[m] = serve[m])
  BY Zenon DEF PushKept
<1>4. Taken(m, o)' = Taken(m, o)
  BY <1>1, <1>3, Zenon DEF Taken
<1>5. ~f.qclosed => ~e.qclosed
  BY Zenon DEF ReceivesSame
<1>6. ~f.qclosed /\ Pushing(m, o)' => serve'[m].payload[3] = Held(f) + 1
  BY <1>1, <1>3, <1>5, Zenon DEF Follows
<1>7. ASSUME ~f.qclosed, ws'[m] = "up"
      PROVE  /\ Linked(net'[m], q, Taken(m, o)')
             /\ r.reader \in {"read", "send"} => SentUpTo(r) = Taken(m, o)' \/ Has(net'[m], q, SentUpTo(r))
  <2>1. net[m] \in Seq(Messages) /\ net'[m] \in Seq(Messages)
    BY Zenon DEF TypeOK
  <2>2. Skips(net[m], net'[m], q)
    BY <1>7, Zenon
  <2>3. /\ \A k : Has(net[m], q, k) => Has(net'[m], q, k)
        /\ \A k : Linked(net[m], q, k) => Linked(net'[m], q, k)
    BY <2>1, <2>2, SkipsKeeps, Zenon
  <2>4. /\ Linked(net[m], q, Taken(m, o))
        /\ p.reader \in {"read", "send"} => SentUpTo(p) = Taken(m, o) \/ Has(net[m], q, SentUpTo(p))
    BY <1>5, <1>7, Zenon DEF Follows
  <2> QED BY <1>s, <1>4, <2>3, <2>4, Zenon
<1> QED BY <1>2, <1>6, <1>7, Zenon DEF Follows

\* The data on its way to a member, if none is sent to it or taken by it.
LEMMA CarryKept ==
  ASSUME TypeOK, TypeOK', OwnInv, OwnInv', CarryInv, NEW m \in Members,
         \A n \in Members, q \in Objects : Started(ends[n][q]) => ends'[n][q].id = ends[n][q].id,
         \A n \in Members, q \in Objects : SentUpTo(ends[n][q]) <= SentUpTo(ends'[n][q]),
         Distinct' => Distinct \/ \A n \in Members, q \in Objects : ~Started(ends[n][q]),
         \A i \in DOMAIN net'[m] : net'[m][i].op = "data" => \E j \in DOMAIN net[m] : net[m][j] = net'[m][i],
         serve'[m].pc = "push" => serve'[m] = serve[m]
  PROVE  Carrying(m)'
<1>1. Other(m) \in Members
  BY Others, Zenon
<1>2. ASSUME NEW p, p[2] \in Objects, Comes(m, p, ends[Other(m)]), p[3] \in Nat
      PROVE  Comes(m, p, ends'[Other(m)]) /\ Started(ends[Other(m)][p[2]])
  <2> DEFINE e == ends[Other(m)][p[2]]
             f == ends'[Other(m)][p[2]]
  <2>1. e \in End /\ f \in End /\ Own(e) /\ Own(f)
    BY <1>1, <1>2, Zenon DEF TypeOK, OwnInv
  <2>2. SentUpTo(e) \in Nat /\ SentUpTo(f) \in Nat /\ SentUpTo(e) <= SentUpTo(f) /\ (SentUpTo(e) > 0 => Started(e))
    BY <1>1, <1>2, <2>1, SentNat, Zenon
  <2>3. p[1] = Other(m) /\ 1 <= p[3] /\ p[3] <= SentUpTo(e)
    BY <1>2, Zenon DEF Comes
  <2> HIDE DEF e, f
  <2>4. p[3] <= SentUpTo(f) /\ Started(e)
    BY <1>2, <2>2, <2>3
  <2> QED BY <2>3, <2>4, Zenon DEF Comes, e, f
<1>3. ASSUME NEW i \in DOMAIN net'[m], net'[m][i].op = "data"
      PROVE  Comes(m, net'[m][i].payload, ends'[Other(m)]) /\ net'[m][i].id = ends'[Other(m)][net'[m][i].payload[2]].id
  <2>1. PICK j \in DOMAIN net[m] : net[m][j] = net'[m][i]
    BY <1>3, Zenon
  <2>2. net[m] \in Seq(Messages)
    BY Zenon DEF TypeOK
  <2>3. net[m][j].payload \in Payloads
    BY <1>3, <2>1, <2>2, Numbers, Zenon
  <2>4. net[m][j].payload[2] \in Objects /\ net[m][j].payload[3] \in Nat
    BY <2>3, Zenon DEF Payloads
  <2>5. Comes(m, net[m][j].payload, ends[Other(m)]) /\ net[m][j].id = ends[Other(m)][net[m][j].payload[2]].id
    <3>1. net[m][j].op = "data"
      BY <1>3, <2>1, Zenon
    <3>2. Carrying(m)
      BY Zenon DEF CarryInv
    <3> QED BY <3>1, <3>2, Zenon DEF Carrying
  <2>6. Comes(m, net[m][j].payload, ends'[Other(m)]) /\ Started(ends[Other(m)][net[m][j].payload[2]])
    <3> DEFINE p == net[m][j].payload
    <3>1. \A x : x[2] \in Objects /\ Comes(m, x, ends[Other(m)]) /\ x[3] \in Nat => Comes(m, x, ends'[Other(m)]) /\ Started(ends[Other(m)][x[2]])
      BY <1>2, Zenon
    <3> QED BY <1>2, <2>4, <2>5, Zenon
  <2> QED BY <1>1, <2>1, <2>4, <2>5, <2>6, Zenon
<1>4. ASSUME serve'[m].pc = "push"
      PROVE  /\ Comes(m, serve'[m].payload, ends'[Other(m)]) /\ Started(ends'[m][serve'[m].o])
             /\ Distinct' => serve'[m].o = Peer(serve'[m].payload[2])
  <2>1. serve[m] \in Tasks /\ serve'[m] = serve[m] /\ serve[m].pc = "push"
    BY <1>4, Zenon DEF TypeOK
  <2>2. serve[m].o \in Objects /\ serve[m].payload \in Payloads
    BY <2>1, Zenon DEF Tasks
  <2>3. serve[m].payload[2] \in Objects /\ serve[m].payload[3] \in Nat
    BY <2>2, Zenon DEF Payloads
  <2>4. Comes(m, serve[m].payload, ends[Other(m)]) /\ Started(ends[m][serve[m].o]) /\ (Distinct => serve[m].o = Peer(serve[m].payload[2]))
    BY <2>1, Zenon DEF CarryInv, Carrying
  <2>5. Comes(m, serve[m].payload, ends'[Other(m)])
    BY <1>2, <2>3, <2>4, Zenon
  <2>6. Started(ends'[m][serve[m].o])
    BY <2>2, <2>4, Zenon DEF Started
  <2> QED BY <2>1, <2>2, <2>4, <2>5, <2>6, Zenon
<1> QED BY <1>3, <1>4, Zenon DEF Carrying

HandlerStep(m) ==
  \/ handler'[m] = handler[m] \/ handler'[m] = "done"
  \/ handler[m] = "wait" /\ ends[m]["out"].ready = "accepted" /\ handler'[m] = "attach"
  \/ handler[m] = "reply" /\ handler'[m] = "hold"
RemoteStep(m) ==
  serve'[m].pc = "remote" =>
    serve'[m] = serve[m] \/ (serve'[m].o \in Objects /\ Started(ends[m][serve'[m].o]))
DialStep(m) ==
  /\ RemoteStep(m)
  /\ serve'[m].pc = "dial" => /\ peers'[m]
                              /\ \/ serve'[m] = serve[m]
                                 \/ \E j \in DOMAIN net[m] : net[m][j].op = "open" /\ net[m][j].id = serve'[m].id
ReadyStep(m) ==
  ends'[m]["out"].ready = "accepted" =>
    ends[m]["out"].ready = "accepted" \/ \E j \in DOMAIN net[m] : net[m][j].op = "accept"
Within(w, v, ops) == \A i \in DOMAIN v : v[i].op \in ops => \E j \in DOMAIN w : w[j] = v[i]

\* The life of the streams of a member, if none is opened, attached or taken.
LEMMA LifeKept ==
  ASSUME LifeInv, NEW m \in Members,
         \A n \in Members, q \in Objects : ends'[n][q].id = ends[n][q].id,
         ends'[m]["in"].conn = "none" => ends[m]["in"].conn = "none",
         ends'[m]["out"].reader = "off" <=> ends[m]["out"].reader = "off",
         ends'[m]["out"].writer = "off" <=> ends[m]["out"].writer = "off",
         HandlerStep(m), DialStep(m), ReadyStep(m), Within(net[m], net'[m], {"open", "accept"}),
         ~peers'[m] => \A o \in Objects : ~ends'[m][o].listed
  PROVE  Opening(m)' /\ Taking(m)'
<1>1. Other(m) \in Members /\ "out" \in Objects /\ "in" \in Objects
  BY Others, Zenon DEF Objects
<1>2. Opening(m) /\ Taking(m)
  BY Zenon DEF LifeInv
<1>3. /\ \A q \in Objects : Started(ends'[m][q]) <=> Started(ends[m][q])
      /\ \A q \in Objects : Started(ends'[Other(m)][q]) <=> Started(ends[Other(m)][q])
      /\ \A id : Names(m, id)' <=> Names(m, id)
  BY <1>1, Zenon DEF Started, Names
<1>4. ASSUME NEW i \in DOMAIN net'[m], net'[m][i].op = "accept"
      PROVE  Started(ends[Other(m)]["in"])
  <2>1. PICK j \in DOMAIN net[m] : net[m][j] = net'[m][i]
    BY <1>4, SMT DEF Within
  <2>2. net[m][j].op = "accept"
    BY <1>4, <2>1, Zenon
  <2> QED BY <1>2, <2>2, Zenon DEF Opening
<1>5. ASSUME NEW i \in DOMAIN net'[m], net'[m][i].op = "open"
      PROVE  Names(m, net'[m][i].id)
  <2>1. PICK j \in DOMAIN net[m] : net[m][j] = net'[m][i]
    BY <1>5, SMT DEF Within
  <2>2. net[m][j].op = "open"
    BY <1>5, <2>1, Zenon
  <2>3. Names(m, net[m][j].id)
    BY <1>2, <2>2, Zenon DEF Taking
  <2> QED BY <2>1, <2>3, Zenon
<1>6. Opening(m)'
  <2>1. handler'[m] = "idle" => ~Started(ends'[m]["out"])
    BY <1>1, <1>2, <1>3, Zenon DEF Opening, HandlerStep
  <2>2. handler'[m] \in {"wait", "attach", "reply", "hold"} => Started(ends'[m]["out"])
    BY <1>1, <1>2, <1>3, Zenon DEF Opening, HandlerStep
  <2>3. handler'[m] \in {"idle", "wait", "attach"} => ends'[m]["out"].reader = "off" /\ ends'[m]["out"].writer = "off"
    BY <1>2, Zenon DEF Opening, HandlerStep
  <2>4. ends'[m]["out"].ready = "accepted" => Started(ends[Other(m)]["in"])
    BY <1>2, Zenon DEF Opening, ReadyStep
  <2>5. handler'[m] = "attach" => Started(ends[Other(m)]["in"])
    BY <1>2, Zenon DEF Opening, HandlerStep
  <2>6. ends'[m]["out"].reader # "off" => Started(ends[Other(m)]["in"])
    BY <1>2, Zenon DEF Opening
  <2> QED BY <1>1, <1>3, <1>4, <2>1, <2>2, <2>3, <2>4, <2>5, <2>6, Zenon DEF Opening
<1>7. Taking(m)'
  <2>1. ends'[m]["in"].conn = "none" => ~Started(ends'[m]["in"])
    BY <1>1, <1>2, <1>3, Zenon DEF Taking
  <2>2. Started(ends'[m]["in"]) => Names(m, ends'[m]["in"].id)
    BY <1>1, <1>2, <1>3, Zenon DEF Taking
  <2>3. serve'[m].pc = "dial" => Names(m, serve'[m].id) /\ peers'[m]
    <3>1. SUFFICES ASSUME serve'[m].pc = "dial" PROVE Names(m, serve'[m].id)
      BY Zenon DEF DialStep
    <3>2. CASE serve'[m] = serve[m]
      <4>1. serve[m].pc = "dial"
        BY <3>1, <3>2, Zenon
      <4>2. Names(m, serve[m].id)
        BY <1>2, <4>1, Zenon DEF Taking
      <4> QED BY <3>2, <4>2, Zenon
    <3>3. CASE \E j \in DOMAIN net[m] : net[m][j].op = "open" /\ net[m][j].id = serve'[m].id
      BY <1>2, <3>3, Zenon DEF Taking
    <3> QED BY <3>1, <3>2, <3>3, Zenon DEF DialStep
  <2>4. serve'[m].pc = "remote" => serve'[m].o \in Objects /\ Started(ends'[m][serve'[m].o])
    <3>1. SUFFICES ASSUME serve'[m].pc = "remote"
                   PROVE  serve'[m].o \in Objects /\ Started(ends[m][serve'[m].o])
      BY <1>3, Zenon
    <3>2. CASE serve'[m] = serve[m]
      <4>1. serve[m].pc = "remote"
        BY <3>1, <3>2, Zenon
      <4>2. serve[m].o \in Objects /\ Started(ends[m][serve[m].o])
        BY <1>2, <4>1, Zenon DEF Taking
      <4> QED BY <3>2, <4>2, Zenon
    <3> QED BY <3>1, <3>2, Zenon DEF DialStep, RemoteStep
  <2> QED BY <1>3, <1>5, <2>1, <2>2, <2>3, <2>4, Zenon DEF Taking
<1> QED BY <1>6, <1>7, Zenon

-----------------------------------------------------------------------------
(* Steps that move no payload.                                             *)

NetCalm(n) ==
  \/ ws'[n] = ws[n] /\ Within(net[n], net'[n], {"open", "accept", "data"}) /\ \A q \in Objects : Skips(net[n], net'[n], q)
  \/ ws'[n] = "lost" /\ net'[n] = <<>>
NetStep == net' \in [Members -> Seq(Messages)] /\ \A n \in Members : NetCalm(n)
EndsStep ==
  /\ ends' \in [Members -> [Objects -> End]]
  /\ \A n \in Members, q \in Objects : Own(ends'[n][q]) /\ Calm(ends[n][q], ends'[n][q])

\* Such a step keeps the invariant.
LEMMA CalmStep ==
  ASSUME IInv, EndsStep, NetStep, plan' = plan, next' \in [Members -> 0..MaxId], allowed' = allowed,
         handler' \in [Members -> {"idle", "wait", "attach", "reply", "hold", "done"}],
         serve' \in [Members -> Tasks], ws' \in [Members -> {"up", "lost"}], peers' \in [Members -> BOOLEAN],
         \A n \in Members : PushSame(n) /\ HandlerStep(n) /\ DialStep(n) /\ ReadyStep(n),
         \A n \in Members : ~peers'[n] => ~peers[n] \/ \A o \in Objects : ~ends'[n][o].listed
  PROVE  IInv'
<1>0. TypeOK /\ OwnInv /\ LifeInv /\ CarryInv /\ OrderInv
  BY Zenon DEF IInv
<1>1. TypeOK'
  <2>1. \A n \in Members, q \in Objects : ends'[n][q].queue = ends[n][q].queue
    BY Zenon DEF EndsStep, Calm
  <2>2. \A n \in Members, q \in Objects : Len(ends'[n][q].queue) <= QueueLimit
    BY <1>0, <2>1, Zenon DEF TypeOK
  <2> QED BY <1>0, <2>2, Zenon DEF TypeOK, EndsStep, NetStep
<1>2. OwnInv'
  BY Zenon DEF OwnInv, EndsStep
<1>3. \A n \in Members, q \in Objects : ends'[n][q].id = ends[n][q].id
  BY Zenon DEF EndsStep, Calm
<1>4. /\ \A n \in Members, q \in Objects : ReceivesSame(ends[n][q], ends'[n][q]) /\ SendsSame(ends[n][q], ends'[n][q])
      /\ \A n \in Members, q \in Objects : SentUpTo(ends'[n][q]) = SentUpTo(ends[n][q])
  <2>1. SUFFICES ASSUME NEW n \in Members, NEW q \in Objects
                 PROVE  /\ ReceivesSame(ends[n][q], ends'[n][q]) /\ SendsSame(ends[n][q], ends'[n][q])
                        /\ SentUpTo(ends'[n][q]) = SentUpTo(ends[n][q])
    BY Zenon
  <2>2. Calm(ends[n][q], ends'[n][q])
    BY Zenon DEF EndsStep
  <2>3. ends[n][q] \in End /\ Own(ends[n][q])
    BY <1>0, Zenon DEF TypeOK, OwnInv
  <2>4. SentUpTo(ends[n][q]) \in Nat
    BY <2>3, SentNat, Zenon
  <2>5. SentUpTo(ends'[n][q]) = SentUpTo(ends[n][q]) /\ ends'[n][q].reader = ends[n][q].reader
    BY <2>2, Zenon DEF Calm, SentUpTo
  <2>6. SentUpTo(ends[n][q]) <= SentUpTo(ends'[n][q])
    BY <2>4, <2>5
  <2> QED BY <2>2, <2>5, <2>6, Zenon DEF Calm, ReceivesSame, SendsSame
<1>5. \A n \in Members : Within(net[n], net'[n], {"open", "accept", "data"})
  <2>1. SUFFICES ASSUME NEW n \in Members PROVE Within(net[n], net'[n], {"open", "accept", "data"})
    BY Zenon
  <2>2. CASE net'[n] = <<>>
    BY <2>2 DEF Within
  <2> QED BY <2>2, Zenon DEF NetStep, NetCalm
<1>6. ASSUME NEW m \in Members
      PROVE  Opening(m)' /\ Taking(m)'
  <2>1. "out" \in Objects /\ "in" \in Objects
    BY Zenon DEF Objects
  <2>2. /\ ends'[m]["in"].conn = "none" => ends[m]["in"].conn = "none"
        /\ ends'[m]["out"].reader = ends[m]["out"].reader /\ ends'[m]["out"].writer = ends[m]["out"].writer
    BY <2>1, ZenonT(40) DEF EndsStep, Calm
  <2>3. ~peers'[m] => \A o \in Objects : ~ends'[m][o].listed
    BY <1>0, Zenon DEF EndsStep, Calm, LifeInv, Taking
  <2>4. Within(net[m], net'[m], {"open", "accept"})
    BY <1>5, Zenon DEF Within
  <2> QED BY <1>0, <1>3, <2>2, <2>3, <2>4, LifeKept, Zenon
<1>7. ASSUME NEW m \in Members
      PROVE  Carrying(m)'
  <2>1. \A n \in Members, q \in Objects : SentUpTo(ends[n][q]) <= SentUpTo(ends'[n][q])
    <3>1. SUFFICES ASSUME NEW n \in Members, NEW q \in Objects PROVE SentUpTo(ends[n][q]) <= SentUpTo(ends'[n][q])
      BY Zenon
    <3>2. ends[n][q] \in End /\ Own(ends[n][q])
      BY <1>0, Zenon DEF TypeOK, OwnInv
    <3>3. SentUpTo(ends[n][q]) \in Nat
      BY <3>2, SentNat, Zenon
    <3> QED BY <1>4, <3>3
  <2>2. Distinct' = Distinct
    BY <1>3, DistinctKept, Zenon
  <2>3. \A i \in DOMAIN net'[m] : net'[m][i].op = "data" => \E j \in DOMAIN net[m] : net[m][j] = net'[m][i]
    BY <1>5, Zenon DEF Within
  <2>4. serve'[m].pc = "push" => serve'[m] = serve[m]
    BY Zenon DEF PushSame
  <2> QED BY <1>0, <1>1, <1>2, <1>3, <2>1, <2>2, <2>3, <2>4, CarryKept, Zenon
<1>8. OrderInv'
  <2>1. SUFFICES ASSUME Distinct', NEW m \in Members, NEW o \in Objects PROVE Follows(m, o)'
    BY Zenon DEF OrderInv
  <2>2. Follows(m, o)
    BY <1>0, <1>3, <2>1, DistinctKept, Zenon DEF OrderInv
  <2>3. ws'[m] = "up" => ws[m] = "up" /\ Skips(net[m], net'[m], Peer(o))
    BY Peers, Zenon DEF NetStep, NetCalm
  <2>4. PushKept(m, o)
    BY Zenon DEF PushSame, PushKept, Pushing
  <2> QED BY <1>0, <1>1, <1>2, <1>4, <2>2, <2>3, <2>4, Others, Peers, FollowsKept, Zenon
<1> QED BY <1>1, <1>2, <1>6, <1>7, <1>8, Zenon DEF IInv, LifeInv, CarryInv

\* The network is not touched.
LEMMA NetSame ==
  ASSUME TypeOK, net' = net, ws' = ws
  PROVE  NetStep
<1>1. net \in [Members -> Seq(Messages)]
  BY Zenon DEF TypeOK
<1>2. \A n \in Members : net[n] \in Seq(Messages)
  BY <1>1, Zenon
<1> QED BY <1>1, <1>2, SkipsSelf, Zenon DEF NetStep, NetCalm, Within

Plain == {"refuse", "close", "reset", "members"}

\* A message without a payload is added.
LEMMA NetAppend ==
  ASSUME TypeOK, NEW n \in Members, NEW x \in Messages, x.op \in Plain, ws'[n] = ws[n], net'[n] = Append(net[n], x)
  PROVE  net'[n] \in Seq(Messages) /\ NetCalm(n)
<1>1. net[n] \in Seq(Messages)
  BY Zenon DEF TypeOK
<1>2. x.op # "data" /\ x.op \notin {"open", "accept", "data"}
  BY Zenon DEF Plain
<1>3. \A q \in Objects : Skips(net[n], net'[n], q)
  BY <1>1, <1>2, SkipsAppend, Zenon
<1>4. /\ net'[n] \in Seq(Messages)
      /\ \A i \in DOMAIN net'[n] : net'[n][i] = x \/ \E j \in DOMAIN net[n] : net[n][j] = net'[n][i]
  <2> DEFINE w == net[n]
             v == net'[n]
  <2>1. w \in Seq(Messages) /\ v = Append(w, x)
    BY <1>1, Zenon
  <2> HIDE DEF v, w
  <2>2. v \in Seq(Messages) /\ \A i \in DOMAIN v : v[i] = x \/ \E j \in DOMAIN w : w[j] = v[i]
    BY <2>1, AppendFrom
  <2> QED BY <2>2, Zenon DEF v, w
<1>5. Within(net[n], net'[n], {"open", "accept", "data"})
  BY <1>2, <1>4, Zenon DEF Within
<1> QED BY <1>3, <1>4, <1>5, Zenon DEF NetCalm

\* One is taken.
LEMMA NetTail ==
  ASSUME TypeOK, NEW n \in Members, net[n] # <<>>, Head(net[n]).op # "data", ws'[n] = ws[n], net'[n] = Tail(net[n])
  PROVE  net'[n] \in Seq(Messages) /\ NetCalm(n)
<1>1. net[n] \in Seq(Messages)
  BY Zenon DEF TypeOK
<1>2. \A q \in Objects : Skips(net[n], net'[n], q)
  BY <1>1, SkipsTail, Zenon
<1>3. net'[n] \in Seq(Messages) /\ \A i \in DOMAIN net'[n] : \E j \in DOMAIN net[n] : net[n][j] = net'[n][i]
  <2> DEFINE w == net[n]
             v == net'[n]
  <2>1. w \in Seq(Messages) /\ w # <<>> /\ v = Tail(w)
    BY <1>1, Zenon
  <2> HIDE DEF v, w
  <2>2. v \in Seq(Messages) /\ \A i \in DOMAIN v : \E j \in DOMAIN w : w[j] = v[i]
    BY <2>1, TailFrom
  <2> QED BY <2>2, Zenon DEF v, w
<1> QED BY <1>2, <1>3, Zenon DEF NetCalm, Within

\* A member's messages are as they were.
LEMMA NetStays ==
  ASSUME TypeOK, NEW n \in Members, ws'[n] = ws[n], net'[n] = net[n]
  PROVE  net'[n] \in Seq(Messages) /\ NetCalm(n)
<1>1. net[n] \in Seq(Messages)
  BY Zenon DEF TypeOK
<1> QED BY <1>1, SkipsSelf, Zenon DEF NetCalm, Within

\* Both members' messages together.
LEMMA NetBoth ==
  ASSUME NEW m \in Members, net' \in [Members -> Seq(Messages)], NetCalm(m), NetCalm(Other(m))
  PROVE  NetStep
BY Others, Zenon DEF NetStep

\* A plain message is sent.
LEMMA NetSent ==
  ASSUME TypeOK, NEW m \in Members, NEW x \in Messages, x.op \in Plain, net' = Sent(m, x), ws' = ws
  PROVE  NetStep
<1>1. CASE net' = net
  BY <1>1, NetSame, Zenon
<1>2. CASE net' = [net EXCEPT ![Other(m)] = Append(@, x)]
  <2>1. Other(m) \in Members /\ Other(m) # m
    BY Others, Zenon
  <2>2. net'[m] = net[m] /\ net'[Other(m)] = Append(net[Other(m)], x) /\ DOMAIN net' = Members
    BY <1>2, <2>1, Zenon DEF TypeOK
  <2>3. net'[m] \in Seq(Messages) /\ NetCalm(m)
    BY <2>2, NetStays, Zenon
  <2>4. net'[Other(m)] \in Seq(Messages) /\ NetCalm(Other(m))
    BY <2>1, <2>2, NetAppend, Zenon
  <2>5. net' \in [Members -> Seq(Messages)]
    BY <1>2, <2>1, <2>2, <2>3, <2>4, Others, Zenon DEF TypeOK
  <2> QED BY <2>3, <2>4, <2>5, NetBoth, Zenon
<1> QED BY <1>1, <1>2, Zenon DEF Sent

\* A message without a payload is taken.
LEMMA NetRest ==
  ASSUME TypeOK, NEW m \in Members, Take(m), Head(net[m]).op # "data", net' = Rest(m), ws' = ws
  PROVE  NetStep
<1>1. Other(m) \in Members /\ Other(m) # m
  BY Others, Zenon
<1>2. net[m] # <<>>
  BY Zenon DEF Take
<1>3. net'[Other(m)] = net[Other(m)] /\ net'[m] = Tail(net[m])
  BY <1>1, Zenon DEF TypeOK, Rest
<1>4. net'[m] \in Seq(Messages) /\ NetCalm(m)
  BY <1>2, <1>3, NetTail, Zenon
<1>5. net'[Other(m)] \in Seq(Messages) /\ NetCalm(Other(m))
  BY <1>1, <1>3, NetStays, Zenon
<1>6. net' \in [Members -> Seq(Messages)]
  BY <1>1, <1>3, <1>4, <1>5, Others, Zenon DEF TypeOK, Rest
<1> QED BY <1>4, <1>5, <1>6, NetBoth, Zenon

\* A message without a payload is taken and answered with a plain one.
LEMMA NetAnswered ==
  ASSUME TypeOK, NEW m \in Members, Take(m), Head(net[m]).op # "data", NEW x \in Messages, x.op \in Plain,
         net' = Answered(m, x), ws' = ws
  PROVE  NetStep
<1>1. CASE net' = Rest(m)
  BY <1>1, NetRest, Zenon
<1>2. CASE net' = [Rest(m) EXCEPT ![Other(m)] = Append(@, x)]
  <2>1. Other(m) \in Members /\ Other(m) # m
    BY Others, Zenon
  <2>2. net[m] # <<>>
    BY Zenon DEF Take
  <2>3. net'[Other(m)] = Append(net[Other(m)], x) /\ net'[m] = Tail(net[m])
    BY <1>2, <2>1, Zenon DEF TypeOK, Rest
  <2>4. net'[m] \in Seq(Messages) /\ NetCalm(m)
    BY <2>2, <2>3, NetTail, Zenon
  <2>5. net'[Other(m)] \in Seq(Messages) /\ NetCalm(Other(m))
    BY <2>1, <2>3, NetAppend, Zenon
  <2>6. net' \in [Members -> Seq(Messages)]
    BY <1>2, <2>1, <2>3, <2>4, <2>5, Others, Zenon DEF TypeOK, Rest
  <2> QED BY <2>4, <2>5, <2>6, NetBoth, Zenon
<1> QED BY <1>1, <1>2, Zenon DEF Answered

\* One end changes calmly, or none, or several of a member are aborted.
LEMMA OneEnd ==
  ASSUME IInv, NEW m \in Members, NEW o \in Objects, NEW f \in End, Own(f), Calm(ends[m][o], f), Update(m, o, f)
  PROVE  EndsStep /\ ends'[m][o] = f /\ \A n \in Members, q \in Objects : n # m \/ q # o => ends'[n][q] = ends[n][q]
<1>1. ends \in [Members -> [Objects -> End]] /\ OwnInv
  BY Zenon DEF IInv, TypeOK
<1>2. /\ ends' \in [Members -> [Objects -> End]] /\ ends'[m][o] = f
      /\ \A n \in Members, q \in Objects : n # m \/ q # o => ends'[n][q] = ends[n][q]
  BY <1>1, Updated, Zenon
<1>3. ASSUME NEW n \in Members, NEW q \in Objects
      PROVE  Own(ends'[n][q]) /\ Calm(ends[n][q], ends'[n][q])
  <2>1. CASE n = m /\ q = o
    BY <1>2, <2>1, Zenon
  <2>2. CASE n # m \/ q # o
    <3>1. ends'[n][q] = ends[n][q]
      BY <1>2, <2>2, Zenon
    <3>2. Own(ends[n][q]) /\ Calm(ends[n][q], ends[n][q])
      BY <1>1, CalmSelf, Zenon DEF OwnInv
    <3> QED BY <3>1, <3>2, Zenon
  <2> QED BY <2>1, <2>2, Zenon
<1> QED BY <1>2, <1>3, Zenon DEF EndsStep

\* No end changes.
LEMMA NoEnd ==
  ASSUME IInv, ends' = ends
  PROVE  EndsStep
BY CalmSelf, Zenon DEF IInv, TypeOK, OwnInv, EndsStep

\* Some started ends of one member are aborted together.
LEMMA Aborting ==
  ASSUME IInv, NEW m \in Members, NEW S, \A o \in Objects : o \in S => Started(ends[m][o]),
         ends' = [ends EXCEPT ![m] = [o \in Objects |-> IF o \in S THEN Abort(ends[m][o]) ELSE ends[m][o]]]
  PROVE  /\ EndsStep /\ \A n \in Members, q \in Objects : ends'[n][q].ready = ends[n][q].ready
         /\ \A o \in Objects : o \in S => ~ends'[m][o].listed
         /\ \A o \in Objects : o \notin S => ends'[m][o] = ends[m][o]
<1>1. ends \in [Members -> [Objects -> End]] /\ OwnInv
  BY Zenon DEF IInv, TypeOK
<1>2. /\ \A o \in Objects : ends'[m][o] = IF o \in S THEN Abort(ends[m][o]) ELSE ends[m][o]
      /\ \A n \in Members : n # m => ends'[n] = ends[n]
  BY <1>1, Zenon
<1>3. ASSUME NEW n \in Members, NEW q \in Objects
      PROVE  /\ ends'[n][q] \in End /\ Own(ends'[n][q]) /\ Calm(ends[n][q], ends'[n][q])
             /\ ends'[n][q].ready = ends[n][q].ready
             /\ n = m /\ q \in S => ~ends'[n][q].listed
  <2>1. ends[n][q] \in End /\ Own(ends[n][q])
    BY <1>1, Zenon DEF OwnInv
  <2>2. CASE n = m /\ q \in S
    <3>1. ends'[n][q] = Abort(ends[n][q])
      BY <1>2, <2>2, Zenon
    <3> HIDE DEF Calm, Own
    <3>2. /\ Abort(ends[n][q]) \in End /\ Own(Abort(ends[n][q])) /\ Calm(ends[n][q], Abort(ends[n][q]))
          /\ Abort(ends[n][q]).ready = ends[n][q].ready /\ ~Abort(ends[n][q]).listed
      <4>1. Started(ends[n][q])
        BY <2>2, Zenon
      <4> QED BY <2>1, <4>1, Aborts, Zenon
    <3> QED BY <3>1, <3>2, Zenon
  <2>3. CASE ~(n = m /\ q \in S)
    <3>1. ends'[n][q] = ends[n][q]
      BY <1>2, <2>3, Zenon
    <3>2. Calm(ends[n][q], ends[n][q])
      BY CalmSelf, Zenon
    <3> QED BY <2>1, <2>3, <3>1, <3>2, Zenon
  <2> QED BY <2>2, <2>3, Zenon
<1>4. ends' \in [Members -> [Objects -> End]]
  <2> DEFINE g == [o \in Objects |-> IF o \in S THEN Abort(ends[m][o]) ELSE ends[m][o]]
  <2>1. \A o \in Objects : ends'[m][o] = g[o]
    BY <1>2, Zenon
  <2>2. g \in [Objects -> End]
    BY <1>3, <2>1, Zenon
  <2> HIDE DEF g
  <2>3. ends' = [ends EXCEPT ![m] = g]
    BY Zenon DEF g
  <2> QED BY <1>1, <2>2, <2>3, Zenon
<1> QED BY <1>2, <1>3, <1>4, Zenon DEF EndsStep

\* The read loop does not change, or it goes on to something calm.
LEMMA ServeSame ==
  ASSUME IInv, serve' = serve, peers' = peers
  PROVE  serve' \in [Members -> Tasks] /\ \A n \in Members : PushSame(n) /\ DialStep(n)
BY Zenon DEF IInv, TypeOK, LifeInv, Taking, PushSame, DialStep, RemoteStep

\* The read loop goes on to a task that neither pushes nor dials.
LEMMA ServeMoves ==
  ASSUME IInv, peers' = peers, NEW m \in Members, NEW t \in Tasks, t.pc \notin {"push", "dial"}, serve[m].pc # "push",
         t.pc = "remote" => t.o \in Objects /\ Started(ends[m][t.o]), serve' = [serve EXCEPT ![m] = t]
  PROVE  serve' \in [Members -> Tasks] /\ \A n \in Members : PushSame(n) /\ DialStep(n)
<1>1. serve \in [Members -> Tasks] /\ LifeInv
  BY Zenon DEF IInv, TypeOK
<1>2. serve' \in [Members -> Tasks] /\ serve'[m] = t /\ \A n \in Members : n # m => serve'[n] = serve[n]
  BY <1>1, Zenon
<1>3. ASSUME NEW n \in Members
      PROVE  PushSame(n) /\ DialStep(n)
  <2>1. CASE n = m
    BY <1>2, <2>1, Zenon DEF PushSame, DialStep, RemoteStep
  <2>2. CASE n # m
    BY <1>1, <1>2, <2>2, Zenon DEF PushSame, DialStep, RemoteStep, LifeInv, Taking
  <2> QED BY <2>1, <2>2, Zenon
<1> QED BY <1>2, <1>3, Zenon

\* The handler does not change, or makes one of its calm moves.
LEMMA HandlerSame ==
  ASSUME IInv, handler' = handler
  PROVE  /\ handler' \in [Members -> {"idle", "wait", "attach", "reply", "hold", "done"}]
         /\ \A n \in Members : HandlerStep(n)
BY Zenon DEF IInv, TypeOK, HandlerStep

\* One of the calm moves of the handler.
LEMMA HandlerMoves ==
  ASSUME IInv, NEW m \in Members, NEW h \in {"attach", "hold", "done"}, handler' = [handler EXCEPT ![m] = h],
         \/ h = "done"
         \/ handler[m] = "wait" /\ ends[m]["out"].ready = "accepted" /\ h = "attach"
         \/ handler[m] = "reply" /\ h = "hold"
  PROVE  /\ handler' \in [Members -> {"idle", "wait", "attach", "reply", "hold", "done"}]
         /\ \A n \in Members : HandlerStep(n)
<1>1. handler \in [Members -> {"idle", "wait", "attach", "reply", "hold", "done"}]
  BY Zenon DEF IInv, TypeOK
<1>2. /\ handler' \in [Members -> {"idle", "wait", "attach", "reply", "hold", "done"}]
      /\ handler'[m] = h /\ \A n \in Members : n # m => handler'[n] = handler[n]
  BY <1>1, Zenon
<1> QED BY <1>2, Zenon DEF HandlerStep

\* The answers that wait for the openers are the same.
LEMMA ReadySame ==
  ASSUME NEW m \in Members, NEW o \in Objects, ends'[m][o].ready = ends[m][o].ready,
         \A n \in Members, q \in Objects : n # m \/ q # o => ends'[n][q] = ends[n][q]
  PROVE  \A n \in Members : ReadyStep(n)
<1>1. "out" \in Objects
  BY Zenon DEF Objects
<1>2. \A n \in Members : ends'[n]["out"].ready = ends[n]["out"].ready
  BY <1>1, Zenon
<1> QED BY <1>2, Zenon DEF ReadyStep

\* Listed streams of a member whose roster does not change.
LEMMA RosterSame ==
  ASSUME IInv, EndsStep, peers' = peers, plan' = plan, next' = next, allowed' = allowed, ws' = ws
  PROVE  /\ peers' \in [Members -> BOOLEAN] /\ next' \in [Members -> 0..MaxId] /\ ws' \in [Members -> {"up", "lost"}]
         /\ \A n \in Members : ~peers'[n] => ~peers[n] \/ \A o \in Objects : ~ends'[n][o].listed
BY Zenon DEF IInv, TypeOK

\* One end changes calmly and its answer stays.
LEMMA CalmEnd ==
  ASSUME IInv, NEW m \in Members, NEW o \in Objects, NEW f \in End, Own(f), Calm(ends[m][o], f), Update(m, o, f),
         f.ready = ends[m][o].ready, NetStep, UNCHANGED <<plan, next, ws, peers, allowed>>,
         handler' \in [Members -> {"idle", "wait", "attach", "reply", "hold", "done"}], \A n \in Members : HandlerStep(n),
         serve' \in [Members -> Tasks], \A n \in Members : PushSame(n) /\ DialStep(n)
  PROVE  IInv'
<1>1. EndsStep /\ ends'[m][o] = f /\ \A n \in Members, q \in Objects : n # m \/ q # o => ends'[n][q] = ends[n][q]
  BY OneEnd, Zenon
<1>2. ends'[m][o].ready = ends[m][o].ready
  BY <1>1, Zenon
<1>3. \A n \in Members : ReadyStep(n)
  BY <1>1, <1>2, ReadySame, Zenon
<1>4. plan' = plan /\ next' = next /\ ws' = ws /\ peers' = peers /\ allowed' = allowed
  BY Zenon
<1> QED BY <1>1, <1>3, <1>4, RosterSame, CalmStep, Zenon

\* No end changes.
LEMMA CalmNone ==
  ASSUME IInv, ends' = ends, NetStep, UNCHANGED <<plan, next, ws, peers, allowed>>,
         handler' \in [Members -> {"idle", "wait", "attach", "reply", "hold", "done"}], \A n \in Members : HandlerStep(n),
         serve' \in [Members -> Tasks], \A n \in Members : PushSame(n) /\ DialStep(n)
  PROVE  IInv'
<1>1. EndsStep
  BY NoEnd, Zenon
<1>2. \A n \in Members : ReadyStep(n)
  BY Zenon DEF ReadyStep
<1>3. plan' = plan /\ next' = next /\ ws' = ws /\ peers' = peers /\ allowed' = allowed
  BY Zenon
<1> QED BY <1>1, <1>2, <1>3, RosterSame, CalmStep, Zenon

\* The end of an opener that gives up after an abort.
LEMMA AbortsAndGivesUp ==
  ASSUME NEW e \in End, Own(e), Started(e)
  PROVE  LET f == GiveUp(Abort(e)) IN f \in End /\ Own(f) /\ Calm(e, f) /\ f.ready = e.ready
<1> DEFINE g == Abort(e)
<1>1. g \in End /\ Own(g) /\ Calm(e, g) /\ g.ready = e.ready
  BY Aborts, Zenon
<1> HIDE DEF g
<1>2. GiveUp(g) \in End /\ Own(GiveUp(g)) /\ Calm(g, GiveUp(g)) /\ GiveUp(g).ready = g.ready
  BY <1>1, GivesUp, Zenon
<1> QED BY <1>1, <1>2, CalmThen, Zenon DEF g

\* Messages about a stream.
LEMMA Controls ==
  ASSUME NEW op \in {"open", "accept", "refuse", "close", "reset"}, NEW id \in 0..MaxId
  PROVE  Msg(op, id) \in Messages /\ Msg(op, id).op = op /\ Msg(op, id).id = id
BY Zenon DEF Msg, Messages

\* A member's ends and what they keep.
LEMMA Ends ==
  ASSUME IInv, NEW m \in Members, NEW o \in Objects
  PROVE  ends[m][o] \in End /\ Own(ends[m][o]) /\ ends[m][o].id \in 0..MaxId
<1>1. ends[m][o] \in End /\ Own(ends[m][o])
  BY Zenon DEF IInv, TypeOK, OwnInv
<1> QED BY <1>1, Fields, Zenon

\* The two ends a member has and how they pair.
LEMMA OutIn == "out" \in Objects /\ "in" \in Objects /\ Peer("out") = "in" /\ Peer("in") = "out"
BY Zenon DEF Objects, Peer

\* The handler's steps that move no payload.
LEMMA HandlerCalm ==
  ASSUME IInv, NEW m \in Members,
         \/ OpenDenied(m) \/ OpenAccepted(m) \/ OpenRefused(m) \/ OpenTimeout(m) \/ OpenSessionOver(m)
         \/ Reply(m) \/ WaitEnds(m)
  PROVE  IInv'
<1> DEFINE e == ends[m]["out"]
<1>0. TypeOK /\ "out" \in Objects
  BY OutIn, Zenon DEF IInv
<1>1. e \in End /\ Own(e) /\ e.id \in 0..MaxId
  BY <1>0, Ends, Zenon
<1>2. GiveUp(e) \in End /\ Own(GiveUp(e)) /\ Calm(e, GiveUp(e)) /\ GiveUp(e).ready = e.ready
  BY <1>1, GivesUp, Zenon
<1>3. Started(e) => LET f == GiveUp(Abort(e)) IN f \in End /\ Own(f) /\ Calm(e, f) /\ f.ready = e.ready
  BY <1>1, AbortsAndGivesUp, Zenon
<1>w. handler[m] = "wait" => Started(e)
  BY Zenon DEF IInv, LifeInv, Opening
<1>4. Msg("reset", e.id) \in Messages /\ Msg("reset", e.id).op \in Plain
  BY <1>1, Controls, Zenon DEF Plain
<1>d. "done" \in {"attach", "hold", "done"} /\ "attach" \in {"attach", "hold", "done"} /\ "hold" \in {"attach", "hold", "done"}
  BY Zenon
<1> HIDE DEF e
<1> DEFINE Gone == handler' = [handler EXCEPT ![m] = "done"]
           Rest5 == UNCHANGED <<plan, next, serve, ws, peers, allowed>>
<1>5. ASSUME Gone, Rest5, NetStep, Update(m, "out", GiveUp(e))
      PROVE  IInv'
  <2>1. /\ handler' \in [Members -> {"idle", "wait", "attach", "reply", "hold", "done"}]
        /\ \A n \in Members : HandlerStep(n)
    BY <1>5, <1>d, HandlerMoves, Zenon
  <2>2. serve' \in [Members -> Tasks] /\ \A n \in Members : PushSame(n) /\ DialStep(n)
    BY <1>5, ServeSame, Zenon
  <2> QED BY <1>0, <1>2, <1>5, <2>1, <2>2, CalmEnd, Zenon DEF e
<1>6. ASSUME Gone, Rest5, NetStep, Update(m, "out", GiveUp(Abort(e))), handler[m] = "wait"
      PROVE  IInv'
  <2>1. /\ handler' \in [Members -> {"idle", "wait", "attach", "reply", "hold", "done"}]
        /\ \A n \in Members : HandlerStep(n)
    BY <1>6, <1>d, HandlerMoves, Zenon
  <2>2. serve' \in [Members -> Tasks] /\ \A n \in Members : PushSame(n) /\ DialStep(n)
    BY <1>6, ServeSame, Zenon
  <2>3. LET f == GiveUp(Abort(e)) IN f \in End /\ Own(f) /\ Calm(e, f) /\ f.ready = e.ready
    BY <1>3, <1>6, <1>w, Zenon
  <2> QED BY <1>0, <1>6, <2>1, <2>2, <2>3, CalmEnd, Zenon DEF e
<1>7. ASSUME NEW h \in {"attach", "hold", "done"}, handler' = [handler EXCEPT ![m] = h], Rest5, net' = net, ends' = ends,
             \/ handler[m] = "wait" /\ ends[m]["out"].ready = "accepted" /\ h = "attach"
             \/ handler[m] = "reply" /\ h = "hold"
      PROVE  IInv'
  <2>1. /\ handler' \in [Members -> {"idle", "wait", "attach", "reply", "hold", "done"}]
        /\ \A n \in Members : HandlerStep(n)
    BY <1>7, HandlerMoves, Zenon
  <2>2. serve' \in [Members -> Tasks] /\ \A n \in Members : PushSame(n) /\ DialStep(n)
    BY <1>7, ServeSame, Zenon
  <2>3. NetStep
    BY <1>0, <1>7, NetSame, Zenon
  <2> QED BY <1>7, <2>1, <2>2, <2>3, CalmNone, Zenon
<1>8. CASE OpenDenied(m)
  <2>1. Gone /\ Rest5 /\ net' = net /\ Update(m, "out", GiveUp(e))
    BY <1>8, Zenon DEF OpenDenied, e
  <2> QED BY <1>0, <1>5, <2>1, NetSame, Zenon
<1>9. CASE OpenSessionOver(m)
  <2>1. Gone /\ Rest5 /\ net' = net /\ Update(m, "out", GiveUp(e))
    BY <1>9, Zenon DEF OpenSessionOver, e
  <2> QED BY <1>0, <1>5, <2>1, NetSame, Zenon
<1>10. CASE WaitEnds(m)
  <2>1. Gone /\ Rest5 /\ net' = net /\ Update(m, "out", GiveUp(e))
    BY <1>10, Zenon DEF WaitEnds, e
  <2> QED BY <1>0, <1>5, <2>1, NetSame, Zenon
<1>11. CASE OpenRefused(m)
  <2>1. Gone /\ Rest5 /\ net' = net /\ Update(m, "out", GiveUp(Abort(e))) /\ handler[m] = "wait"
    BY <1>11, Zenon DEF OpenRefused, e
  <2> QED BY <1>0, <1>6, <2>1, NetSame, Zenon
<1>12. CASE OpenTimeout(m)
  <2>1. Gone /\ Rest5 /\ net' = Sent(m, Msg("reset", e.id)) /\ Update(m, "out", GiveUp(Abort(e))) /\ handler[m] = "wait"
    BY <1>12, Zenon DEF OpenTimeout, e
  <2>2. NetStep
    BY <1>0, <1>4, <2>1, NetSent, Zenon
  <2> QED BY <1>6, <2>1, <2>2, Zenon
<1>13. CASE OpenAccepted(m)
  BY <1>7, <1>13, <1>d, Zenon DEF OpenAccepted
<1>14. CASE Reply(m)
  <2>0. Rest5 /\ net' = net /\ handler[m] = "reply"
    BY <1>14, Zenon DEF Reply
  <2>1. CASE handler' = [handler EXCEPT ![m] = "hold"] /\ ends' = ends
    BY <1>7, <1>d, <2>0, <2>1, Zenon
  <2>2. CASE Gone /\ Update(m, "out", GiveUp(e))
    BY <1>0, <1>5, <2>0, <2>2, NetSame, Zenon
  <2> QED BY <1>14, <2>1, <2>2, Zenon DEF Reply, e
<1> QED BY <1>8, <1>9, <1>10, <1>11, <1>12, <1>13, <1>14, Zenon

\* The local application ends.
LEMMA AppCalm ==
  ASSUME IInv, NEW m \in Members, NEW o \in Objects, AppEnds(m, o)
  PROVE  IInv'
<1> DEFINE e == ends[m][o]
<1>0. TypeOK
  BY Zenon DEF IInv
<1>1. e \in End /\ Own(e)
  BY Ends, Zenon
<1>2. PICK how \in {"eof", "reset"} : Update(m, o, [e EXCEPT !.app = how])
  BY Zenon DEF AppEnds
<1>3. LET f == [e EXCEPT !.app = how] IN f \in End /\ Own(f) /\ Calm(e, f) /\ f.ready = e.ready
  BY <1>1, AppActs, Zenon
<1>4. UNCHANGED <<plan, next, handler, serve, ws, peers, allowed, net>>
  BY Zenon DEF AppEnds
<1>5. NetStep
  BY <1>0, <1>4, NetSame, Zenon
<1>6. /\ handler' \in [Members -> {"idle", "wait", "attach", "reply", "hold", "done"}]
      /\ \A n \in Members : HandlerStep(n)
  BY <1>4, HandlerSame, Zenon
<1>7. serve' \in [Members -> Tasks] /\ \A n \in Members : PushSame(n) /\ DialStep(n)
  BY <1>4, ServeSame, Zenon
<1> QED BY <1>2, <1>3, <1>4, <1>5, <1>6, <1>7, CalmEnd, Zenon

\* A member's WebSocket is lost.
LEMMA LossCalm ==
  ASSUME IInv, NEW m \in Members, CloseWebSocket(m)
  PROVE  IInv'
<1> DEFINE x == [op |-> "members", peer |-> FALSE]
           n == Other(m)
<1>0. TypeOK /\ n \in Members /\ n # m
  BY Others, Zenon DEF IInv
<1>1. UNCHANGED <<plan, ends, next, handler, serve, peers, allowed>> /\ ws[m] = "up"
  BY Zenon DEF CloseWebSocket
<1>2. ws' \in [Members -> {"up", "lost"}] /\ ws'[m] = "lost" /\ ws'[n] = ws[n]
  BY <1>0, Zenon DEF CloseWebSocket, TypeOK
<1>3. net'[m] = <<>> /\ DOMAIN net' = Members /\ net'[n] = IF ws[n] = "up" THEN Append(net[n], x) ELSE net[n]
  BY <1>0, Zenon DEF CloseWebSocket, TypeOK
<1>4. x \in Messages /\ x.op \in Plain
  BY Zenon DEF Messages, Plain
<1> HIDE DEF x
<1>5. net'[n] \in Seq(Messages) /\ NetCalm(n)
  BY <1>0, <1>2, <1>3, <1>4, NetAppend, NetStays, Zenon
<1>6. NetCalm(m)
  BY <1>2, <1>3, Zenon DEF NetCalm
<1>7. net' \in [Members -> Seq(Messages)]
  <2>1. net'[m] \in Seq(Messages)
    BY <1>3
  <2>2. \A k \in Members : net'[k] \in Seq(Messages)
    BY <1>5, <2>1, Others, Zenon
  <2>3. net' = [k \in Members |-> net'[k]]
    <3> DEFINE y == IF ws[n] = "up" THEN Append(net[n], x) ELSE net[n]
    <3>1. net' = [net EXCEPT ![m] = <<>>, ![n] = y]
      BY <1>0, Zenon DEF CloseWebSocket, TypeOK, x
    <3> HIDE DEF y
    <3> QED BY <1>0, <3>1, Zenon DEF TypeOK
  <2> QED BY <2>2, <2>3, Zenon
<1>8. NetStep
  BY <1>5, <1>6, <1>7, NetBoth, Zenon
<1>9. EndsStep
  BY <1>1, NoEnd, Zenon
<1>10. \A k \in Members : ReadyStep(k)
  BY <1>1, Zenon DEF ReadyStep
<1>11. /\ handler' \in [Members -> {"idle", "wait", "attach", "reply", "hold", "done"}]
       /\ \A k \in Members : HandlerStep(k)
  BY <1>1, HandlerSame, Zenon
<1>12. serve' \in [Members -> Tasks] /\ \A k \in Members : PushSame(k) /\ DialStep(k)
  BY <1>1, ServeSame, Zenon
<1>13. plan' = plan /\ next' \in [Members -> 0..MaxId] /\ allowed' = allowed /\ peers' \in [Members -> BOOLEAN] /\ peers' = peers
  BY <1>0, <1>1, Zenon DEF TypeOK
<1>14. \A k \in Members : ~peers'[k] => ~peers[k] \/ \A o \in Objects : ~ends'[k][o].listed
  BY <1>13, Zenon
<1> QED BY <1>2, <1>8, <1>9, <1>10, <1>11, <1>12, <1>13, <1>14, CalmStep, Zenon

\* The read loop's steps that move no payload.
LEMMA ReceiveOpenCalm ==
  ASSUME IInv, NEW m \in Members, ReceiveOpen(m)
  PROVE  IInv'
<1> DEFINE w == net[m]
           id == Head(w).id
<1>0. TypeOK /\ LifeInv
  BY Zenon DEF IInv
<1>1. /\ Take(m) /\ Head(w).op = "open" /\ UNCHANGED <<plan, ends, next, handler, ws, peers, allowed>>
      /\ serve[m].pc = "read"
  BY Zenon DEF ReceiveOpen, Take
<1>2. w \in Seq(Messages) /\ w # <<>>
  BY <1>0, <1>1, Zenon DEF TypeOK, Take
<1>3. Head(w) \in Messages /\ 1 \in DOMAIN w /\ w[1] = Head(w)
  BY <1>2
<1>4. id \in 0..MaxId
  BY <1>1, <1>3, Zenon DEF Messages
<1>5. /\ Msg("reset", id) \in Messages /\ Msg("reset", id).op \in Plain
      /\ Msg("refuse", id) \in Messages /\ Msg("refuse", id).op \in Plain
  BY <1>4, Controls, Zenon DEF Plain
<1>6. Head(w).op # "data"
  BY <1>1, Zenon
<1>7. NetStep
  <2>1. net' \in {Rest(m), Answered(m, Msg("reset", id)), Answered(m, Msg("refuse", id))}
    BY Zenon DEF ReceiveOpen
  <2>2. net' = Rest(m) \/ net' = Answered(m, Msg("reset", id)) \/ net' = Answered(m, Msg("refuse", id))
    BY <2>1, Zenon
  <2> QED BY <1>0, <1>1, <1>5, <1>6, <2>2, NetRest, NetAnswered, Zenon
<1>8. /\ handler' \in [Members -> {"idle", "wait", "attach", "reply", "hold", "done"}]
      /\ \A n \in Members : HandlerStep(n)
  BY <1>1, HandlerSame, Zenon
<1>9. serve' \in [Members -> Tasks] /\ \A n \in Members : PushSame(n) /\ DialStep(n)
  <2>1. CASE serve' = serve
    BY <1>1, <2>1, ServeSame, Zenon
  <2>2. CASE peers[m] /\ serve' = [serve EXCEPT ![m] = [pc |-> "dial", id |-> id]]
    <3> DEFINE t == [pc |-> "dial", id |-> id]
    <3>1. t \in Tasks /\ t.pc = "dial" /\ t.id = id
      BY <1>4, Zenon DEF Tasks
    <3> HIDE DEF t, w, id
    <3>2. serve' = [serve EXCEPT ![m] = t]
      BY <2>2, Zenon DEF t
    <3>3. serve' \in [Members -> Tasks] /\ serve'[m] = t /\ \A n \in Members : n # m => serve'[n] = serve[n]
      BY <1>0, <3>1, <3>2, Zenon DEF TypeOK
    <3>4. ASSUME NEW n \in Members PROVE PushSame(n) /\ DialStep(n)
      <4>1. CASE n = m
        <5>1. PushSame(n)
          BY <1>1, <3>1, <3>3, <4>1, Zenon DEF PushSame
        <5>2. \E j \in DOMAIN net[m] : net[m][j].op = "open" /\ net[m][j].id = serve'[m].id
          BY <1>1, <1>3, <3>1, <3>3, Zenon DEF w, id
        <5>r. serve'[m].pc # "remote"
          BY <3>1, <3>3, Zenon
        <5>3. DialStep(n)
          BY <1>1, <2>2, <4>1, <5>2, <5>r, Zenon DEF DialStep, RemoteStep
        <5> QED BY <5>1, <5>3, Zenon
      <4>2. CASE n # m
        BY <1>0, <1>1, <3>3, <4>2, Zenon DEF PushSame, DialStep, RemoteStep, LifeInv, Taking
      <4> QED BY <4>1, <4>2, Zenon
    <3> QED BY <3>3, <3>4, Zenon
  <2> QED BY <2>1, <2>2, Zenon DEF ReceiveOpen
<1> QED BY <1>1, <1>7, <1>8, <1>9, CalmNone, Zenon

\* handleOpen refuses when its dial fails.
LEMMA DialFailsCalm ==
  ASSUME IInv, NEW m \in Members, DialFails(m)
  PROVE  IInv'
<1>0. TypeOK
  BY Zenon DEF IInv
<1>1. /\ serve[m].pc = "dial" /\ UNCHANGED <<plan, ends, next, handler, ws, peers, allowed>>
      /\ net' = Sent(m, Msg("refuse", serve[m].id)) /\ serve' = [serve EXCEPT ![m] = Idle]
  BY Zenon DEF DialFails
<1>2. serve[m].id \in 0..MaxId
  BY <1>0, <1>1, Zenon DEF TypeOK, Tasks
<1>3. Msg("refuse", serve[m].id) \in Messages /\ Msg("refuse", serve[m].id).op \in Plain
  BY <1>2, Controls, Zenon DEF Plain
<1>4. NetStep
  BY <1>0, <1>1, <1>3, NetSent, Zenon
<1>5. Idle \in Tasks /\ Idle.pc \notin {"push", "dial", "remote"} /\ serve[m].pc # "push"
  BY <1>1, Zenon DEF Idle, Tasks
<1>6. serve' \in [Members -> Tasks] /\ \A n \in Members : PushSame(n) /\ DialStep(n)
  BY <1>1, <1>5, ServeMoves, Zenon
<1>7. /\ handler' \in [Members -> {"idle", "wait", "attach", "reply", "hold", "done"}]
      /\ \A n \in Members : HandlerStep(n)
  BY <1>1, HandlerSame, Zenon
<1> QED BY <1>1, <1>4, <1>6, <1>7, CalmNone, Zenon

\* ACCEPT or REFUSE goes to the ready channel, or nowhere.
LEMMA ReceiveAnswerCalm ==
  ASSUME IInv, NEW m \in Members, ReceiveAnswer(m)
  PROVE  IInv'
<1> DEFINE e == ends[m]["out"]
           c == IF Head(net[m]).op = "accept" THEN "accepted" ELSE "refused"
<1>0. TypeOK /\ "out" \in Objects
  BY OutIn, Zenon DEF IInv
<1>1. /\ Take(m) /\ Head(net[m]).op \in {"accept", "refuse"} /\ net' = Rest(m)
      /\ UNCHANGED <<plan, next, handler, serve, ws, peers, allowed>>
      /\ Update(m, "out", [e EXCEPT !.ready = c]) \/ ends' = ends
  BY Zenon DEF ReceiveAnswer
<1>2. Head(net[m]).op # "data"
  BY <1>1, Zenon
<1>3. NetStep
  BY <1>0, <1>1, <1>2, NetRest, Zenon
<1>4. serve' \in [Members -> Tasks] /\ \A n \in Members : PushSame(n) /\ DialStep(n)
  BY <1>1, ServeSame, Zenon
<1>5. /\ handler' \in [Members -> {"idle", "wait", "attach", "reply", "hold", "done"}]
      /\ \A n \in Members : HandlerStep(n)
  BY <1>1, HandlerSame, Zenon
<1>6. CASE ends' = ends
  BY <1>1, <1>3, <1>4, <1>5, <1>6, CalmNone, Zenon
<1>7. CASE Update(m, "out", [e EXCEPT !.ready = c])
  <2> DEFINE f == [e EXCEPT !.ready = c]
  <2>1. c \in {"accepted", "refused"} /\ (c = "accepted" => Head(net[m]).op = "accept")
    BY Zenon
  <2>2. e \in End /\ Own(e)
    BY <1>0, Ends, Zenon
  <2> HIDE DEF c
  <2>3. f \in End /\ Own(f) /\ Calm(e, f) /\ f.ready = c
    BY <2>1, <2>2, GetsAnswer, Zenon
  <2>4. Update(m, "out", f)
    BY <1>7, Zenon
  <2> HIDE DEF f
  <2>5. EndsStep /\ ends'[m]["out"] = f /\ \A n \in Members, q \in Objects : n # m \/ q # "out" => ends'[n][q] = ends[n][q]
    BY <1>0, <2>3, <2>4, OneEnd, Zenon
  <2>6. net[m] # <<>> /\ net[m] \in Seq(Messages)
    BY <1>0, <1>1, Zenon DEF Take, TypeOK
  <2>7. 1 \in DOMAIN net[m] /\ net[m][1] = Head(net[m])
    BY <2>6
  <2>8. ASSUME NEW n \in Members PROVE ReadyStep(n)
    <3>1. CASE n = m
      BY <2>1, <2>3, <2>5, <2>7, <3>1, Zenon DEF ReadyStep
    <3>2. CASE n # m
      BY <1>0, <2>5, <3>2, Zenon DEF ReadyStep
    <3> QED BY <3>1, <3>2, Zenon
  <2>9. plan' = plan /\ next' = next /\ ws' = ws /\ peers' = peers /\ allowed' = allowed
    BY <1>1, Zenon
  <2> QED BY <1>3, <1>4, <1>5, <2>5, <2>8, <2>9, RosterSame, CalmStep, Zenon
<1> QED BY <1>1, <1>6, <1>7, Zenon

\* CLOSE is noted and the read loop goes on to remoteClose, or it names no stream.
LEMMA ReceiveCloseCalm ==
  ASSUME IInv, NEW m \in Members, ReceiveClose(m)
  PROVE  IInv'
<1>0. TypeOK
  BY Zenon DEF IInv
<1>1. /\ Take(m) /\ Head(net[m]).op = "close" /\ net' = Rest(m) /\ serve[m].pc = "read"
      /\ UNCHANGED <<plan, next, handler, ws, peers, allowed>>
  BY Zenon DEF ReceiveClose, Take
<1>2. Head(net[m]).op # "data"
  BY <1>1, Zenon
<1>3. NetStep
  BY <1>0, <1>1, <1>2, NetRest, Zenon
<1>4. /\ handler' \in [Members -> {"idle", "wait", "attach", "reply", "hold", "done"}]
      /\ \A n \in Members : HandlerStep(n)
  BY <1>1, HandlerSame, Zenon
<1>5. CASE ends' = ends /\ serve' = serve
  <2>1. serve' \in [Members -> Tasks] /\ \A n \in Members : PushSame(n) /\ DialStep(n)
    BY <1>1, <1>5, ServeSame, Zenon
  <2> QED BY <1>1, <1>3, <1>4, <1>5, <2>1, CalmNone, Zenon
<1>6. CASE \E o \in Objects :
             /\ ends[m][o].listed /\ Update(m, o, [ends[m][o] EXCEPT !.remoteClosed = TRUE])
             /\ serve' = [serve EXCEPT ![m] = [pc |-> "remote", o |-> o, local |-> ends[m][o].local,
                                               closed |-> ends[m][o].localClosed]]
  <2>1. PICK o \in Objects :
             /\ ends[m][o].listed /\ Update(m, o, [ends[m][o] EXCEPT !.remoteClosed = TRUE])
             /\ serve' = [serve EXCEPT ![m] = [pc |-> "remote", o |-> o, local |-> ends[m][o].local,
                                               closed |-> ends[m][o].localClosed]]
    BY <1>6, Zenon
  <2> DEFINE e == ends[m][o]
             t == [pc |-> "remote", o |-> o, local |-> e.local, closed |-> e.localClosed]
  <2>2. e \in End /\ Own(e)
    BY Ends, Zenon
  <2>3. LET f == [e EXCEPT !.remoteClosed = TRUE] IN f \in End /\ Own(f) /\ Calm(e, f) /\ f.ready = e.ready
    BY <2>2, RemoteSet, Zenon
  <2>4. e.local \in BOOLEAN /\ e.localClosed \in BOOLEAN
    BY <2>2, Zenon DEF End
  <2>5. t \in Tasks /\ t.pc \notin {"push", "dial"} /\ t.o = o
    BY <2>4, Zenon DEF Tasks
  <2>r. Started(e)
    BY <2>1, <2>2, Zenon DEF Own
  <2>6. serve' \in [Members -> Tasks] /\ \A n \in Members : PushSame(n) /\ DialStep(n)
    <3>1. serve' = [serve EXCEPT ![m] = t] /\ serve[m].pc # "push"
      BY <1>1, <2>1, Zenon
    <3> HIDE DEF t
    <3>2. t.o \in Objects /\ Started(ends[m][t.o])
      BY <2>5, <2>r, Zenon
    <3> QED BY <1>1, <2>5, <3>1, <3>2, ServeMoves, Zenon
  <2> QED BY <1>1, <1>3, <1>4, <2>1, <2>3, <2>6, CalmEnd, Zenon
<1>7. \A o \in Listed(m, Head(net[m]).id) : o \in Objects /\ ends[m][o].listed
  BY Zenon DEF Listed
<1> QED BY <1>5, <1>6, <1>7, Zenon DEF ReceiveClose

\* remoteClose closes the queue and the writing half, and may abort the stream.
LEMMA RemoteCloseCalm ==
  ASSUME IInv, NEW m \in Members, RemoteClose(m)
  PROVE  IInv'
<1> DEFINE o == serve[m].o
           h == ends[m][o].half \/ serve[m].local
           g == [ends[m][o] EXCEPT !.qclosed = TRUE, !.half = h]
           f == IF serve[m].closed THEN Abort(g) ELSE g
<1>0. TypeOK
  BY Zenon DEF IInv
<1>1. /\ serve[m].pc = "remote" /\ UNCHANGED <<plan, next, handler, ws, peers, allowed, net>>
      /\ serve' = [serve EXCEPT ![m] = Idle]
  BY Zenon DEF RemoteClose
<1>2. o \in Objects /\ serve[m].local \in BOOLEAN
  BY <1>0, <1>1, Zenon DEF TypeOK, Tasks
<1>3. ends[m][o] \in End /\ Own(ends[m][o])
  BY <1>2, Ends, Zenon
<1>4. h \in BOOLEAN
  BY <1>2, <1>3, Zenon DEF End
<1>5. Update(m, o, f)
  <2>1. g = [ends[m][o] EXCEPT !.qclosed = TRUE, !.half = @ \/ serve[m].local]
    BY <1>3, Zenon DEF End
  <2> QED BY <2>1, Zenon DEF RemoteClose
<1> HIDE DEF h
<1>6. g \in End /\ Own(g) /\ Calm(ends[m][o], g) /\ g.ready = ends[m][o].ready
  BY <1>3, <1>4, HalfCloses, Zenon
<1> HIDE DEF g
<1>7. Abort(g) \in End /\ Own(Abort(g)) /\ Calm(g, Abort(g)) /\ Abort(g).ready = g.ready
  <2>1. Started(ends[m][o])
    BY <1>1, Zenon DEF IInv, LifeInv, Taking
  <2>2. Started(g)
    BY <1>6, <2>1, Zenon DEF Calm, Started
  <2> QED BY <1>6, <2>2, Aborts, Zenon
<1>8. f \in End /\ Own(f) /\ Calm(ends[m][o], f) /\ f.ready = ends[m][o].ready
  BY <1>6, <1>7, CalmThen, Zenon
<1> HIDE DEF f
<1>9. NetStep
  BY <1>0, <1>1, NetSame, Zenon
<1>10. Idle \in Tasks /\ Idle.pc \notin {"push", "dial", "remote"} /\ serve[m].pc # "push"
  BY <1>1, Zenon DEF Idle, Tasks
<1>11. serve' \in [Members -> Tasks] /\ \A n \in Members : PushSame(n) /\ DialStep(n)
  BY <1>1, <1>10, ServeMoves, Zenon
<1>12. /\ handler' \in [Members -> {"idle", "wait", "attach", "reply", "hold", "done"}]
       /\ \A n \in Members : HandlerStep(n)
  BY <1>1, HandlerSame, Zenon
<1> QED BY <1>1, <1>2, <1>5, <1>8, <1>9, <1>11, <1>12, CalmEnd, Zenon

\* serve returns when the connection is lost.
LEMMA ServeEndsCalm ==
  ASSUME IInv, NEW m \in Members, ServeEnds(m)
  PROVE  IInv'
<1> DEFINE e == ends[m]["out"]
           t == [pc |-> "abort"]
<1>0. TypeOK /\ "out" \in Objects
  BY OutIn, Zenon DEF IInv
<1>1. /\ serve[m].pc = "read" /\ UNCHANGED <<plan, next, handler, ws, peers, allowed, net>>
      /\ serve' = [serve EXCEPT ![m] = t] /\ Update(m, "out", GiveUp(e))
  BY Zenon DEF ServeEnds
<1>2. e \in End /\ Own(e)
  BY <1>0, Ends, Zenon
<1>3. GiveUp(e) \in End /\ Own(GiveUp(e)) /\ Calm(e, GiveUp(e)) /\ GiveUp(e).ready = e.ready
  BY <1>2, GivesUp, Zenon
<1>4. NetStep
  BY <1>0, <1>1, NetSame, Zenon
<1>5. t \in Tasks /\ t.pc \notin {"push", "dial", "remote"} /\ serve[m].pc # "push"
  BY <1>1, Zenon DEF Tasks
<1> HIDE DEF t
<1>6. serve' \in [Members -> Tasks] /\ \A n \in Members : PushSame(n) /\ DialStep(n)
  BY <1>1, <1>5, ServeMoves, Zenon
<1>7. /\ handler' \in [Members -> {"idle", "wait", "attach", "reply", "hold", "done"}]
      /\ \A n \in Members : HandlerStep(n)
  BY <1>1, HandlerSame, Zenon
<1> QED BY <1>0, <1>1, <1>3, <1>4, <1>6, <1>7, CalmEnd, Zenon

\* The streams that are listed when a session ends are aborted.
LEMMA AbortAllCalm ==
  ASSUME IInv, NEW m \in Members, AbortAll(m)
  PROVE  IInv'
<1> DEFINE S == {o \in Objects : ends[m][o].listed}
           t == [pc |-> "over"]
<1>0. TypeOK /\ "out" \in Objects
  BY OutIn, Zenon DEF IInv
<1>1. /\ serve[m].pc = "abort" /\ UNCHANGED <<plan, next, handler, ws, peers, allowed, net>>
      /\ serve' = [serve EXCEPT ![m] = t]
  BY Zenon DEF AbortAll
<1>2. ends' = [ends EXCEPT ![m] = [o \in Objects |-> IF o \in S THEN Abort(ends[m][o]) ELSE ends[m][o]]]
  BY <1>0, Zenon DEF AbortAll, TypeOK
<1>s. \A o \in Objects : o \in S => Started(ends[m][o])
  BY Zenon DEF IInv, OwnInv, Own, Listed
<1> HIDE DEF S
<1>3. EndsStep /\ \A n \in Members, q \in Objects : ends'[n][q].ready = ends[n][q].ready
  BY <1>2, <1>s, Aborting, Zenon
<1>4. NetStep
  BY <1>0, <1>1, NetSame, Zenon
<1>5. t \in Tasks /\ t.pc \notin {"push", "dial", "remote"} /\ serve[m].pc # "push"
  BY <1>1, Zenon DEF Tasks
<1> HIDE DEF t
<1>6. serve' \in [Members -> Tasks] /\ \A n \in Members : PushSame(n) /\ DialStep(n)
  BY <1>1, <1>5, ServeMoves, Zenon
<1>7. /\ handler' \in [Members -> {"idle", "wait", "attach", "reply", "hold", "done"}]
      /\ \A n \in Members : HandlerStep(n)
  BY <1>1, HandlerSame, Zenon
<1>8. \A n \in Members : ReadyStep(n)
  BY <1>0, <1>3, Zenon DEF ReadyStep
<1>9. plan' = plan /\ next' = next /\ ws' = ws /\ peers' = peers /\ allowed' = allowed
  BY <1>1, Zenon
<1> QED BY <1>3, <1>4, <1>6, <1>7, <1>8, <1>9, RosterSame, CalmStep, Zenon

\* RESET aborts the stream it names.
LEMMA ReceiveResetCalm ==
  ASSUME IInv, NEW m \in Members, ReceiveReset(m)
  PROVE  IInv'
<1> DEFINE S == Listed(m, Head(net[m]).id)
<1>0. TypeOK /\ "out" \in Objects
  BY OutIn, Zenon DEF IInv
<1>1. /\ Take(m) /\ Head(net[m]).op = "reset" /\ net' = Rest(m)
      /\ UNCHANGED <<plan, next, handler, serve, ws, peers, allowed>>
  BY Zenon DEF ReceiveReset
<1>2. ends' = [ends EXCEPT ![m] = [o \in Objects |-> IF o \in S THEN Abort(ends[m][o]) ELSE ends[m][o]]]
  BY <1>0, Zenon DEF ReceiveReset, TypeOK
<1>s. \A o \in Objects : o \in S => Started(ends[m][o])
  BY Zenon DEF IInv, OwnInv, Own, Listed
<1> HIDE DEF S
<1>3. EndsStep /\ \A n \in Members, q \in Objects : ends'[n][q].ready = ends[n][q].ready
  BY <1>2, <1>s, Aborting, Zenon
<1>4. Head(net[m]).op # "data"
  BY <1>1, Zenon
<1>5. NetStep
  BY <1>0, <1>1, <1>4, NetRest, Zenon
<1>6. serve' \in [Members -> Tasks] /\ \A n \in Members : PushSame(n) /\ DialStep(n)
  BY <1>1, ServeSame, Zenon
<1>7. /\ handler' \in [Members -> {"idle", "wait", "attach", "reply", "hold", "done"}]
      /\ \A n \in Members : HandlerStep(n)
  BY <1>1, HandlerSame, Zenon
<1>8. \A n \in Members : ReadyStep(n)
  BY <1>0, <1>3, Zenon DEF ReadyStep
<1>9. plan' = plan /\ next' = next /\ ws' = ws /\ peers' = peers /\ allowed' = allowed
  BY <1>1, Zenon
<1> QED BY <1>3, <1>5, <1>6, <1>7, <1>8, <1>9, RosterSame, CalmStep, Zenon

\* A roster; without the peer its streams are aborted.
LEMMA ReceiveMembersCalm ==
  ASSUME IInv, NEW m \in Members, ReceiveMembers(m)
  PROVE  IInv'
<1> DEFINE here == Head(net[m]).peer
           S == {o \in Objects : ends[m][o].listed /\ ~here}
<1>0. TypeOK /\ "out" \in Objects /\ LifeInv
  BY OutIn, Zenon DEF IInv
<1>1. /\ Take(m) /\ Head(net[m]).op = "members" /\ net' = Rest(m) /\ peers' = [peers EXCEPT ![m] = here]
      /\ UNCHANGED <<plan, next, handler, serve, ws, allowed>> /\ serve[m].pc = "read"
  BY Zenon DEF ReceiveMembers, Take
<1>2. ends' = [ends EXCEPT ![m] = [o \in Objects |-> IF o \in S THEN Abort(ends[m][o]) ELSE ends[m][o]]]
  BY <1>0, Zenon DEF ReceiveMembers, TypeOK
<1>3. \A o \in Objects : o \notin S /\ ~here => ~ends[m][o].listed
  BY Zenon
<1>s. \A o \in Objects : o \in S => Started(ends[m][o])
  BY Zenon DEF IInv, OwnInv, Own, Listed
<1> HIDE DEF S
<1>4. /\ EndsStep /\ \A n \in Members, q \in Objects : ends'[n][q].ready = ends[n][q].ready
      /\ \A o \in Objects : o \in S => ~ends'[m][o].listed
      /\ \A o \in Objects : o \notin S => ends'[m][o] = ends[m][o]
  BY <1>2, <1>s, Aborting, Zenon
<1>5. ~here => \A o \in Objects : ~ends'[m][o].listed
  BY <1>3, <1>4, Zenon
<1>6. Head(net[m]).op # "data"
  BY <1>1, Zenon
<1>7. NetStep
  BY <1>0, <1>1, <1>6, NetRest, Zenon
<1>8. here \in BOOLEAN
  <2>1. net[m] \in Seq(Messages) /\ net[m] # <<>>
    BY <1>0, <1>1, Zenon DEF TypeOK, Take
  <2>2. Head(net[m]) \in Messages
    BY <2>1
  <2> QED BY <1>1, <2>2, Zenon DEF Messages
<1> HIDE DEF here
<1>9. peers' \in [Members -> BOOLEAN] /\ peers'[m] = here /\ \A n \in Members : n # m => peers'[n] = peers[n]
  BY <1>0, <1>1, <1>8, Zenon DEF TypeOK
<1>10. \A n \in Members : ~peers'[n] => ~peers[n] \/ \A o \in Objects : ~ends'[n][o].listed
  BY <1>5, <1>9, Zenon
<1>11. \A n \in Members : PushSame(n) /\ DialStep(n)
  <2>1. SUFFICES ASSUME NEW n \in Members PROVE PushSame(n) /\ DialStep(n)
    BY Zenon
  <2>2. CASE n = m
    BY <1>1, <2>2, Zenon DEF PushSame, DialStep, RemoteStep
  <2>3. CASE n # m
    BY <1>0, <1>1, <1>9, <2>3, Zenon DEF PushSame, DialStep, RemoteStep, LifeInv, Taking
  <2> QED BY <2>2, <2>3, Zenon
<1>12. /\ handler' \in [Members -> {"idle", "wait", "attach", "reply", "hold", "done"}]
       /\ \A n \in Members : HandlerStep(n)
  BY <1>1, HandlerSame, Zenon
<1>13. \A n \in Members : ReadyStep(n)
  BY <1>0, <1>4, Zenon DEF ReadyStep
<1>14. /\ plan' = plan /\ next' \in [Members -> 0..MaxId] /\ ws' \in [Members -> {"up", "lost"}] /\ allowed' = allowed
       /\ serve' \in [Members -> Tasks]
  BY <1>0, <1>1, Zenon DEF TypeOK
<1> QED BY <1>4, <1>7, <1>9, <1>10, <1>11, <1>12, <1>13, <1>14, CalmStep, Zenon

-----------------------------------------------------------------------------
(* Steps of one end that move payloads.                                    *)

Flow(m, o, f) ==
  /\ f \in End /\ Own(f) /\ Update(m, o, f)
  /\ f.id = ends[m][o].id /\ f.ready = ends[m][o].ready
  /\ f.listed => ends[m][o].listed
  /\ f.conn = "none" => ends[m][o].conn = "none"
  /\ f.reader = "off" <=> ends[m][o].reader = "off"
  /\ f.writer = "off" <=> ends[m][o].writer = "off"
  /\ Len(f.queue) <= QueueLimit /\ SentUpTo(ends[m][o]) <= SentUpTo(f)
  /\ net' \in [Members -> Seq(Messages)] /\ \A n \in Members : Within(net[n], net'[n], {"open", "accept"})
  /\ serve' \in [Members -> Tasks] /\ \A n \in Members : DialStep(n)
  /\ UNCHANGED <<plan, next, handler, ws, peers, allowed>>

\* What every such step keeps.
LEMMA FlowKeeps ==
  ASSUME IInv, NEW m \in Members, NEW o \in Objects, NEW f, Flow(m, o, f)
  PROVE  /\ TypeOK' /\ OwnInv' /\ LifeInv' /\ Distinct' = Distinct
         /\ ends'[m][o] = f /\ \A n \in Members, q \in Objects : n # m \/ q # o => ends'[n][q] = ends[n][q]
         /\ \A n \in Members, q \in Objects : ends'[n][q].id = ends[n][q].id
         /\ \A n \in Members, q \in Objects : SentUpTo(ends[n][q]) <= SentUpTo(ends'[n][q])
<1>0. TypeOK /\ OwnInv /\ LifeInv
  BY Zenon DEF IInv
<1>f. /\ f \in End /\ Own(f) /\ Update(m, o, f)
      /\ f.id = ends[m][o].id /\ f.ready = ends[m][o].ready
      /\ f.listed => ends[m][o].listed
      /\ f.conn = "none" => ends[m][o].conn = "none"
      /\ f.reader = "off" <=> ends[m][o].reader = "off"
      /\ f.writer = "off" <=> ends[m][o].writer = "off"
      /\ Len(f.queue) <= QueueLimit /\ SentUpTo(ends[m][o]) <= SentUpTo(f)
      /\ net' \in [Members -> Seq(Messages)] /\ \A n \in Members : Within(net[n], net'[n], {"open", "accept"})
      /\ serve' \in [Members -> Tasks] /\ \A n \in Members : DialStep(n)
      /\ plan' = plan /\ next' = next /\ handler' = handler /\ ws' = ws /\ peers' = peers /\ allowed' = allowed
  BY Zenon DEF Flow
<1>1. /\ ends' \in [Members -> [Objects -> End]] /\ ends'[m][o] = f
      /\ \A n \in Members, q \in Objects : n # m \/ q # o => ends'[n][q] = ends[n][q]
  <2>1. ends \in [Members -> [Objects -> End]]
    BY <1>0, Zenon DEF TypeOK
  <2> QED BY <1>f, <2>1, Updated, Zenon
<1>2. ASSUME NEW n \in Members, NEW q \in Objects
      PROVE  /\ Own(ends'[n][q]) /\ Len(ends'[n][q].queue) <= QueueLimit /\ SentUpTo(ends[n][q]) <= SentUpTo(ends'[n][q])
             /\ ends'[n][q].id = ends[n][q].id /\ ends'[n][q].ready = ends[n][q].ready
             /\ ends'[n][q].listed => ends[n][q].listed
             /\ ends'[n][q].conn = "none" => ends[n][q].conn = "none"
             /\ ends'[n][q].reader = "off" <=> ends[n][q].reader = "off"
             /\ ends'[n][q].writer = "off" <=> ends[n][q].writer = "off"
  <2>1. CASE n = m /\ q = o
    BY <1>f, <1>1, <2>1, Zenon
  <2>2. CASE n # m \/ q # o
    <3>1. ends'[n][q] = ends[n][q]
      BY <1>1, <2>2, Zenon
    <3>2. ends[n][q] \in End /\ Own(ends[n][q]) /\ Len(ends[n][q].queue) <= QueueLimit
      BY <1>0, Zenon DEF TypeOK, OwnInv
    <3>3. SentUpTo(ends[n][q]) \in Nat
      BY <3>2, SentNat, Zenon
    <3>4. SentUpTo(ends[n][q]) <= SentUpTo(ends[n][q])
      BY <3>3
    <3> QED BY <3>1, <3>2, <3>4, Zenon
  <2> QED BY <2>1, <2>2, Zenon
<1>3. TypeOK'
  BY <1>0, <1>f, <1>1, <1>2, Zenon DEF TypeOK
<1>4. OwnInv'
  BY <1>2, Zenon DEF OwnInv
<1>5. ASSUME NEW n \in Members PROVE Opening(n)' /\ Taking(n)'
  <2>1. "out" \in Objects /\ "in" \in Objects
    BY OutIn, Zenon
  <2>2. HandlerStep(n) /\ ReadyStep(n)
    BY <1>f, <1>2, <2>1, Zenon DEF HandlerStep, ReadyStep
  <2>3. ~peers'[n] => \A q \in Objects : ~ends'[n][q].listed
    BY <1>0, <1>f, <1>2, Zenon DEF LifeInv, Taking
  <2>4. /\ ends'[n]["in"].conn = "none" => ends[n]["in"].conn = "none"
        /\ ends'[n]["out"].reader = "off" <=> ends[n]["out"].reader = "off"
        /\ ends'[n]["out"].writer = "off" <=> ends[n]["out"].writer = "off"
    BY <1>2, <2>1, Zenon
  <2>5. \A k \in Members, q \in Objects : ends'[k][q].id = ends[k][q].id
    BY <1>2, Zenon
  <2>6. DialStep(n) /\ Within(net[n], net'[n], {"open", "accept"})
    BY <1>f, Zenon
  <2> QED BY <1>0, <2>2, <2>3, <2>4, <2>5, <2>6, LifeKept, Zenon
<1>6. Distinct' = Distinct
  BY <1>2, DistinctKept, Zenon
<1> QED BY <1>1, <1>2, <1>3, <1>4, <1>5, <1>6, Zenon DEF LifeInv

\* The data under way, if none is sent.
LEMMA FlowCarries ==
  ASSUME IInv, NEW m \in Members, NEW o \in Objects, NEW f, Flow(m, o, f), NEW n \in Members,
         Within(net[n], net'[n], {"data"}), serve'[n].pc = "push" => serve'[n] = serve[n]
  PROVE  Carrying(n)'
<1>1. /\ TypeOK' /\ OwnInv' /\ Distinct' = Distinct
      /\ \A k \in Members, q \in Objects : ends'[k][q].id = ends[k][q].id
      /\ \A k \in Members, q \in Objects : SentUpTo(ends[k][q]) <= SentUpTo(ends'[k][q])
  BY FlowKeeps, Zenon
<1>2. TypeOK /\ OwnInv /\ CarryInv
  BY Zenon DEF IInv
<1>3. \A i \in DOMAIN net'[n] : net'[n][i].op = "data" => \E j \in DOMAIN net[n] : net[n][j] = net'[n][i]
  BY Zenon DEF Within
<1> QED BY <1>1, <1>2, <1>3, CarryKept, Zenon

\* The two directions that the end belongs to decide.
LEMMA FlowOrder ==
  ASSUME IInv, NEW m \in Members, NEW o \in Objects, NEW f, Flow(m, o, f),
         \A n \in Members : Carrying(n)',
         Distinct => \A n \in Members, q \in Objects : (n # m \/ q # o) /\ (n # Other(m) \/ q # Peer(o)) =>
           PushKept(n, q) /\ (ws[n] = "up" => Skips(net[n], net'[n], Peer(q))),
         Distinct => Follows(m, o)' /\ Follows(Other(m), Peer(o))'
  PROVE  IInv'
<1>1. /\ TypeOK' /\ OwnInv' /\ LifeInv' /\ Distinct' = Distinct
      /\ ends'[m][o] = f /\ \A n \in Members, q \in Objects : n # m \/ q # o => ends'[n][q] = ends[n][q]
  BY FlowKeeps, Zenon
<1>2. TypeOK /\ OwnInv /\ OrderInv /\ ws' = ws
  BY Zenon DEF IInv, Flow
<1>3. ASSUME Distinct', NEW n \in Members, NEW q \in Objects PROVE Follows(n, q)'
  <2>0. Distinct
    BY <1>1, <1>3, Zenon
  <2>1. CASE (n = m /\ q = o) \/ (n = Other(m) /\ q = Peer(o))
    BY <2>0, <2>1, Zenon
  <2>2. CASE (n # m \/ q # o) /\ (n # Other(m) \/ q # Peer(o))
    <3>1. Other(n) \in Members /\ Peer(q) \in Objects /\ Other(Other(n)) = n /\ Peer(Peer(q)) = q
      BY Others, Peers, Zenon
    <3>2. Other(n) # m \/ Peer(q) # o
      BY <2>2, <3>1, Zenon
    <3>3. ends'[n][q] = ends[n][q] /\ ends'[Other(n)][Peer(q)] = ends[Other(n)][Peer(q)]
      BY <1>1, <2>2, <3>1, <3>2, Zenon
    <3>4. ReceivesSame(ends[n][q], ends'[n][q])
      BY <3>3, Zenon DEF ReceivesSame
    <3>5. SendsSame(ends[Other(n)][Peer(q)], ends'[Other(n)][Peer(q)])
      <4>1. ends[Other(n)][Peer(q)] \in End /\ Own(ends[Other(n)][Peer(q)])
        BY <1>2, <3>1, Zenon DEF TypeOK, OwnInv
      <4>2. SentUpTo(ends[Other(n)][Peer(q)]) \in Nat
        BY <4>1, SentNat, Zenon
      <4>3. SentUpTo(ends[Other(n)][Peer(q)]) <= SentUpTo(ends[Other(n)][Peer(q)])
        BY <4>2
      <4> QED BY <3>3, <4>3, Zenon DEF SendsSame
    <3>6. PushKept(n, q) /\ (ws'[n] = "up" => ws[n] = "up" /\ Skips(net[n], net'[n], Peer(q)))
      BY <1>2, <2>0, <2>2, Zenon
    <3>7. Follows(n, q)
      BY <1>2, <2>0, Zenon DEF OrderInv
    <3> QED BY <1>1, <1>2, <3>4, <3>5, <3>6, <3>7, FollowsKept, Zenon
  <2> QED BY <2>1, <2>2, Zenon
<1>4. OrderInv'
  BY <1>3, Zenon DEF OrderInv
<1> QED BY <1>1, <1>4, Zenon DEF IInv, CarryInv

\* The network under such a step.
LEMMA NetFlows ==
  ASSUME NetStep, ws' = ws
  PROVE  /\ net' \in [Members -> Seq(Messages)]
         /\ \A n \in Members : Within(net[n], net'[n], {"open", "accept"}) /\ Within(net[n], net'[n], {"data"})
         /\ \A n \in Members, q \in Objects : ws[n] = "up" => Skips(net[n], net'[n], q)
<1>1. ASSUME NEW n \in Members
      PROVE  Within(net[n], net'[n], {"open", "accept", "data"})
  <2>1. CASE net'[n] = <<>>
    BY <2>1 DEF Within
  <2> QED BY <2>1, Zenon DEF NetStep, NetCalm
<1>2. \A n \in Members : Within(net[n], net'[n], {"open", "accept"}) /\ Within(net[n], net'[n], {"data"})
  BY <1>1, Zenon DEF Within
<1>3. \A n \in Members, q \in Objects : ws[n] = "up" => Skips(net[n], net'[n], q)
  BY Zenon DEF NetStep, NetCalm
<1> QED BY <1>2, <1>3, Zenon DEF NetStep

\* A step of one end that sends no data.
LEMMA EndFlows ==
  ASSUME IInv, NEW m \in Members, NEW o \in Objects, NEW f, Flow(m, o, f), NetStep, serve' = serve,
         Distinct => Follows(m, o)' /\ Follows(Other(m), Peer(o))'
  PROVE  IInv'
<1>0. ws' = ws
  BY Zenon DEF Flow
<1>1. /\ \A n \in Members : Within(net[n], net'[n], {"data"})
      /\ \A n \in Members, q \in Objects : ws[n] = "up" => Skips(net[n], net'[n], q)
  BY <1>0, NetFlows, Zenon
<1>2. \A n \in Members : Carrying(n)'
  BY <1>1, FlowCarries, Zenon
<1>3. \A n \in Members, q \in Objects : PushKept(n, q)
  BY Zenon DEF PushKept, Pushing
<1>4. \A n \in Members, q \in Objects : ws[n] = "up" => Skips(net[n], net'[n], Peer(q))
  BY <1>1, Peers, Zenon
<1> QED BY <1>2, <1>3, <1>4, FlowOrder, Zenon

\* One of its two directions, seen from the end that is not touched or from
\* the end that is.
LEMMA SenderFlows ==
  ASSUME IInv, NEW m \in Members, NEW o \in Objects, NEW f, Flow(m, o, f), NetStep, serve' = serve,
         Distinct, SendsSame(ends[m][o], f)
  PROVE  Follows(Other(m), Peer(o))'
<1> DEFINE n == Other(m)
           q == Peer(o)
<1>0. n \in Members /\ q \in Objects /\ n # m /\ q # o /\ Other(n) = m /\ Peer(q) = o
  BY Others, Peers, Zenon
<1>1. /\ TypeOK' /\ OwnInv' /\ ends'[m][o] = f
      /\ \A k \in Members, l \in Objects : k # m \/ l # o => ends'[k][l] = ends[k][l]
  BY FlowKeeps, Zenon
<1>2. TypeOK /\ OwnInv /\ Follows(n, q) /\ ws' = ws
  BY <1>0, Zenon DEF IInv, OrderInv, Flow
<1>3. ReceivesSame(ends[n][q], ends'[n][q])
  BY <1>0, <1>1, Zenon DEF ReceivesSame
<1>4. SendsSame(ends[Other(n)][Peer(q)], ends'[Other(n)][Peer(q)])
  BY <1>0, <1>1, Zenon
<1>5. PushKept(n, q)
  BY Zenon DEF PushKept, Pushing
<1>6. ws'[n] = "up" => ws[n] = "up" /\ Skips(net[n], net'[n], Peer(q))
  BY <1>0, <1>2, Peers, NetFlows, Zenon
<1> HIDE DEF n, q
<1>7. Follows(n, q)'
  BY <1>0, <1>1, <1>2, <1>3, <1>4, <1>5, <1>6, FollowsKept, Zenon
<1> QED BY <1>7, Zenon DEF n, q

\* Only the end that receives a direction changes.
LEMMA ReceiverFlows ==
  ASSUME IInv, NEW m \in Members, NEW o \in Objects, NEW f, Flow(m, o, f), NetStep, serve' = serve,
         Distinct, ReceivesSame(ends[m][o], f)
  PROVE  Follows(m, o)'
<1>0. Other(m) \in Members /\ Peer(o) \in Objects /\ Other(m) # m
  BY Others, Peers, Zenon
<1>1. /\ TypeOK' /\ OwnInv' /\ ends'[m][o] = f
      /\ \A k \in Members, l \in Objects : k # m \/ l # o => ends'[k][l] = ends[k][l]
  BY FlowKeeps, Zenon
<1>2. TypeOK /\ OwnInv /\ Follows(m, o) /\ ws' = ws
  BY <1>0, Zenon DEF IInv, OrderInv, Flow
<1>3. ReceivesSame(ends[m][o], ends'[m][o])
  BY <1>1, Zenon
<1>4. SendsSame(ends[Other(m)][Peer(o)], ends'[Other(m)][Peer(o)])
  <2>1. ends'[Other(m)][Peer(o)] = ends[Other(m)][Peer(o)]
    BY <1>0, <1>1, Zenon
  <2>2. ends[Other(m)][Peer(o)] \in End /\ Own(ends[Other(m)][Peer(o)])
    BY <1>0, Ends, Zenon
  <2>3. SentUpTo(ends[Other(m)][Peer(o)]) \in Nat
    BY <2>2, SentNat, Zenon
  <2>4. SentUpTo(ends[Other(m)][Peer(o)]) <= SentUpTo(ends[Other(m)][Peer(o)])
    BY <2>3
  <2> QED BY <2>1, <2>4, Zenon DEF SendsSame
<1>5. PushKept(m, o)
  BY Zenon DEF PushKept, Pushing
<1>6. ws'[m] = "up" => ws[m] = "up" /\ Skips(net[m], net'[m], Peer(o))
  BY <1>0, <1>2, NetFlows, Zenon
<1> QED BY <1>0, <1>1, <1>2, <1>3, <1>4, <1>5, <1>6, FollowsKept, Zenon

\* A reader that turns and sends no data.
LEMMA ReaderFlows ==
  ASSUME IInv, NEW m \in Members, NEW o \in Objects, NEW f, Flow(m, o, f), NetStep, serve' = serve,
         ReceivesSame(ends[m][o], f), SendsSame(ends[m][o], f)
  PROVE  IInv'
BY SenderFlows, ReceiverFlows, EndFlows, Zenon

\* A reader's turn keeps what its end keeps to itself.
LEMMA ReaderOwn ==
  ASSUME NEW e, NEW f, Own(e), e.reader # "off", f.reader # "off", f.reader = "send" => f.read > 0,
         f.id = e.id, f.listed = e.listed, f.done = e.done, f.finished = e.finished, f.qclosed = e.qclosed,
         f.writer = e.writer, f.chunk = e.chunk, f.queue = e.queue, f.got = e.got
  PROVE  Own(f)
BY Zenon DEF Own, Started

\* The frame of Flow that does not depend on the end.
LEMMA FlowFrame ==
  ASSUME IInv, NetStep, UNCHANGED <<plan, next, handler, serve, ws, peers, allowed>>
  PROVE  /\ net' \in [Members -> Seq(Messages)] /\ \A n \in Members : Within(net[n], net'[n], {"open", "accept"})
         /\ serve' \in [Members -> Tasks] /\ \A n \in Members : DialStep(n)
         /\ UNCHANGED <<plan, next, handler, ws, peers, allowed>>
<1>1. ws' = ws /\ serve' = serve /\ peers' = peers
  BY Zenon
<1> QED BY <1>1, NetFlows, ServeSame, Zenon

\* readLoop reads a payload from its connection.
LEMMA ReaderGetsFlows ==
  ASSUME IInv, NEW m \in Members, NEW o \in Objects, ReaderGets(m, o)
  PROVE  IInv'
<1> DEFINE e == ends[m][o]
           k == e.read + 1
           f == [e EXCEPT !.read = k, !.reader = "send"]
<1>0. TypeOK
  BY Zenon DEF IInv
<1>1. e \in End /\ Own(e) /\ Len(e.queue) <= QueueLimit
  BY <1>0, Ends, Zenon DEF TypeOK
<1>2. e.reader = "read" /\ UNCHANGED <<plan, next, handler, serve, ws, peers, allowed, net>>
  BY Zenon DEF ReaderGets
<1>3. Update(m, o, f)
  BY <1>1, Zenon DEF ReaderGets, End
<1>4. k \in Nat /\ k > 0 /\ k - 1 = e.read /\ e.read <= e.read /\ e.read \in Nat
  <2>1. e.read \in Nat
    BY <1>1, Fields, Zenon
  <2>2. \A i \in Nat : i + 1 \in Nat /\ i + 1 > 0 /\ (i + 1) - 1 = i /\ i <= i
    OBVIOUS
  <2> QED BY <2>1, <2>2, Zenon
<1> HIDE DEF k
<1>5. f \in End
  BY <1>1, <1>4, Zenon DEF End
<1>6. /\ f.reader = "send" /\ f.read = k
      /\ f.id = e.id /\ f.listed = e.listed /\ f.done = e.done /\ f.finished = e.finished /\ f.qclosed = e.qclosed
      /\ f.writer = e.writer /\ f.chunk = e.chunk /\ f.queue = e.queue /\ f.got = e.got
      /\ f.ready = e.ready /\ f.conn = e.conn
  BY <1>1, Zenon DEF End
<1> HIDE DEF f, e
<1>7. Own(f)
  BY <1>1, <1>2, <1>4, <1>6, ReaderOwn, Zenon
<1>8. SentUpTo(e) = e.read /\ SentUpTo(f) = k - 1
  BY <1>2, <1>6, Zenon DEF SentUpTo
<1>9. SendsSame(e, f) /\ ReceivesSame(e, f) /\ SentUpTo(e) <= SentUpTo(f)
  BY <1>2, <1>4, <1>6, <1>8, Zenon DEF SendsSame, ReceivesSame
<1>10. NetStep
  BY <1>0, <1>2, NetSame, Zenon
<1>11. f.reader # "off" /\ e.reader # "off"
  BY <1>2, <1>6, Zenon
<1>12. Flow(m, o, f)
  BY <1>1, <1>2, <1>3, <1>5, <1>6, <1>7, <1>9, <1>10, <1>11, FlowFrame, Zenon DEF Flow, e
<1> QED BY <1>2, <1>9, <1>10, <1>12, ReaderFlows, Zenon DEF e

\* readLoop meets the end of its connection.
LEMMA ReaderEndsFlows ==
  ASSUME IInv, NEW m \in Members, NEW o \in Objects, ReaderEnds(m, o)
  PROVE  IInv'
<1> DEFINE e == ends[m][o]
           r == IF e.conn = "open" /\ e.app = "eof" THEN "close" ELSE "reset"
           f == [e EXCEPT !.localClosed = TRUE, !.closed = e.remoteClosed, !.reader = r]
<1>0. TypeOK
  BY Zenon DEF IInv
<1>1. e \in End /\ Own(e) /\ Len(e.queue) <= QueueLimit
  BY <1>0, Ends, Zenon DEF TypeOK
<1>2. e.reader = "read" /\ UNCHANGED <<plan, next, handler, serve, ws, peers, allowed, net>> /\ Update(m, o, f)
  BY Zenon DEF ReaderEnds
<1>4. e.read <= e.read /\ e.read \in Nat
  BY <1>1 DEF End
<1>r. r \in {"close", "reset"}
  BY Zenon
<1> HIDE DEF r
<1>5. f \in End
  BY <1>1, <1>r, Zenon DEF End
<1>6. /\ f.reader = r /\ f.read = e.read
      /\ f.id = e.id /\ f.listed = e.listed /\ f.done = e.done /\ f.finished = e.finished /\ f.qclosed = e.qclosed
      /\ f.writer = e.writer /\ f.chunk = e.chunk /\ f.queue = e.queue /\ f.got = e.got
      /\ f.ready = e.ready /\ f.conn = e.conn
  BY <1>1, Zenon DEF End
<1> HIDE DEF f, e
<1>7. f.reader \notin {"read", "send", "off"} /\ e.reader # "off" /\ e.reader # "send"
  BY <1>2, <1>r, <1>6, Zenon
<1>8. Own(f)
  BY <1>1, <1>6, <1>7, ReaderOwn, Zenon
<1>9. SentUpTo(e) = e.read /\ SentUpTo(f) = e.read
  BY <1>2, <1>6, <1>7, Zenon DEF SentUpTo
<1>10. SendsSame(e, f) /\ ReceivesSame(e, f) /\ SentUpTo(e) <= SentUpTo(f)
  BY <1>4, <1>6, <1>7, <1>9, Zenon DEF SendsSame, ReceivesSame
<1>11. NetStep
  BY <1>0, <1>2, NetSame, Zenon
<1>12. f.reader # "off"
  BY <1>7, Zenon
<1>13. Flow(m, o, f)
  BY <1>1, <1>2, <1>5, <1>6, <1>7, <1>8, <1>10, <1>11, <1>12, FlowFrame, Zenon DEF Flow, e
<1> QED BY <1>2, <1>10, <1>11, <1>13, ReaderFlows, Zenon DEF e

\* A reader stops, after an abort or without one.
LEMMA StopFlows ==
  ASSUME IInv, NEW m \in Members, NEW o \in Objects, NEW g \in End, Own(g), Calm(ends[m][o], g),
         g.ready = ends[m][o].ready, ends[m][o].reader \in {"send", "close", "reset"},
         Update(m, o, [g EXCEPT !.reader = "end"]), NetStep,
         UNCHANGED <<plan, next, handler, serve, ws, peers, allowed>>
  PROVE  IInv'
<1> DEFINE e == ends[m][o]
           f == [g EXCEPT !.reader = "end"]
<1>0. TypeOK
  BY Zenon DEF IInv
<1>1. e \in End /\ Own(e) /\ Len(e.queue) <= QueueLimit
  BY <1>0, Ends, Zenon DEF TypeOK
<1>2. Calm(e, g) /\ g.ready = e.ready /\ e.reader \in {"send", "close", "reset"} /\ Update(m, o, f)
  BY Zenon
<1>3. f \in End
  BY Zenon DEF End
<1>4. /\ f.reader = "end" /\ f.read = g.read
      /\ f.id = g.id /\ f.listed = g.listed /\ f.done = g.done /\ f.finished = g.finished /\ f.qclosed = g.qclosed
      /\ f.writer = g.writer /\ f.chunk = g.chunk /\ f.queue = g.queue /\ f.got = g.got
      /\ f.ready = g.ready /\ f.conn = g.conn
  BY Zenon DEF End
<1> HIDE DEF f, e
<1>5. f.reader \notin {"read", "send", "off"} /\ e.reader # "off"
  BY <1>2, <1>4, Zenon
<1>6. g.reader # "off" /\ f.reader # "off" /\ f.reader # "send"
  BY <1>2, <1>5, Zenon DEF Calm
<1>7. Own(f)
  BY <1>4, <1>6, ReaderOwn, Zenon
<1>8. SentUpTo(f) = e.read
  BY <1>2, <1>4, <1>6, Zenon DEF SentUpTo, Calm
<1>9. SentUpTo(e) <= SentUpTo(f)
  <2>1. e.read \in Nat
    BY <1>1, Fields, Zenon
  <2>2. \A i \in Nat : i <= i /\ i - 1 <= i
    OBVIOUS
  <2> QED BY <1>8, <2>1, <2>2, Zenon DEF SentUpTo
<1>10. ReceivesSame(e, f) /\ f.id = e.id /\ f.ready = e.ready /\ (f.listed => e.listed)
       /\ (f.conn = "none" => e.conn = "none") /\ f.writer = e.writer /\ f.queue = e.queue
  BY <1>2, <1>4, Zenon DEF ReceivesSame, Calm
<1>11. SendsSame(e, f)
  BY <1>5, <1>9, Zenon DEF SendsSame
<1>12. Flow(m, o, f)
  BY <1>1, <1>2, <1>3, <1>5, <1>6, <1>7, <1>9, <1>10, FlowFrame, Zenon DEF Flow, e
<1> QED BY <1>10, <1>11, <1>12, ReaderFlows, Zenon DEF e

\* readLoop tells its peer how it ended.
LEMMA ReaderTellsFlows ==
  ASSUME IInv, NEW m \in Members, NEW o \in Objects, ReaderTells(m, o)
  PROVE  IInv'
<1> DEFINE e == ends[m][o]
           g == IF e.reader = "reset" \/ e.closed THEN Abort(e) ELSE e
<1>0. TypeOK
  BY Zenon DEF IInv
<1>1. e \in End /\ Own(e) /\ e.id \in 0..MaxId
  BY Ends, Zenon
<1>2. /\ e.reader \in {"close", "reset"} /\ UNCHANGED <<plan, next, handler, serve, ws, peers, allowed>>
      /\ net' = Sent(m, Msg(e.reader, e.id)) /\ Update(m, o, [g EXCEPT !.reader = "end"])
  BY Zenon DEF ReaderTells
<1>3. g \in End /\ Own(g) /\ Calm(e, g) /\ g.ready = e.ready
  <2>1. Started(e)
    BY <1>1, <1>2, Zenon DEF Own
  <2> QED BY <1>1, <2>1, Aborts, CalmSelf, Zenon
<1> HIDE DEF g
<1>4. Msg(e.reader, e.id) \in Messages /\ Msg(e.reader, e.id).op \in Plain
  <2>1. e.reader \in {"open", "accept", "refuse", "close", "reset"} /\ e.reader \in Plain
    BY <1>2, Zenon DEF Plain
  <2>2. Msg(e.reader, e.id) \in Messages /\ Msg(e.reader, e.id).op = e.reader
    <3> HIDE DEF e
    <3> QED BY <1>1, <2>1, Controls
  <2> QED BY <2>1, <2>2, Zenon
<1>5. NetStep
  BY <1>0, <1>2, <1>4, NetSent, Zenon
<1>6. e.reader \in {"send", "close", "reset"}
  BY <1>2, Zenon
<1> QED BY <1>2, <1>3, <1>5, <1>6, StopFlows, Zenon

\* A payload that cannot be sent.
LEMMA SendFailsFlows ==
  ASSUME IInv, NEW m \in Members, NEW o \in Objects, ends[m][o].reader = "send",
         Update(m, o, [Abort(ends[m][o]) EXCEPT !.reader = "end"]),
         UNCHANGED <<plan, next, handler, serve, ws, peers, allowed, net>>
  PROVE  IInv'
<1> DEFINE e == ends[m][o]
           g == Abort(e)
<1>0. TypeOK
  BY Zenon DEF IInv
<1>1. e \in End /\ Own(e) /\ e.id \in 0..MaxId
  BY Ends, Zenon
<1>2. g \in End /\ Own(g) /\ Calm(e, g) /\ g.ready = e.ready
  <2>1. Started(e)
    BY <1>1, Zenon DEF Own
  <2> QED BY <1>1, <2>1, Aborts, Zenon
<1>3. Update(m, o, [g EXCEPT !.reader = "end"]) /\ e.reader \in {"send", "close", "reset"}
  BY Zenon
<1> HIDE DEF g
<1>4. NetStep /\ UNCHANGED <<plan, next, handler, serve, ws, peers, allowed>>
  BY <1>0, NetSame, Zenon
<1> QED BY <1>2, <1>3, <1>4, StopFlows, Zenon

\* The payload is sent.
LEMMA SendFlows ==
  ASSUME IInv, NEW m \in Members, NEW o \in Objects, ends[m][o].reader = "send",
         net' = Sent(m, [op |-> "data", id |-> ends[m][o].id, payload |-> <<m, o, ends[m][o].read>>]),
         Update(m, o, [ends[m][o] EXCEPT !.reader = "read"]), ws[m] = "up",
         UNCHANGED <<plan, next, handler, serve, ws, peers, allowed>>
  PROVE  IInv'
<1> DEFINE e == ends[m][o]
           f == [e EXCEPT !.reader = "read"]
           n == Other(m)
           q == Peer(o)
           p == <<m, o, e.read>>
           x == [op |-> "data", id |-> e.id, payload |-> p]
<1>0. TypeOK /\ OwnInv /\ CarryInv
  BY Zenon DEF IInv
<1>n. n \in Members /\ q \in Objects /\ n # m /\ q # o /\ Other(n) = m /\ Peer(q) = o /\ Members = {m, n} /\ Objects = {o, q}
  BY Others, Peers, Zenon
<1>1. e \in End /\ Own(e) /\ e.id \in 0..MaxId /\ e.read \in Nat /\ Len(e.queue) <= QueueLimit /\ e.reader = "send"
  BY <1>0, Ends, Fields, Zenon DEF TypeOK
<1>2. p \in Payloads /\ p[1] = m /\ p[2] = o /\ p[3] = e.read
  BY <1>1, Zenon DEF Payloads
<1>3. x.op = "data" /\ x.id = e.id /\ x.payload = p
  BY Zenon
<1>4. x \in Messages
  <2> HIDE DEF p, e
  <2> QED BY <1>1, <1>2, Zenon DEF Messages
<1>5. f \in End
  BY <1>1, Zenon DEF End
<1>6. /\ f.reader = "read" /\ f.read = e.read
      /\ f.id = e.id /\ f.listed = e.listed /\ f.done = e.done /\ f.finished = e.finished /\ f.qclosed = e.qclosed
      /\ f.writer = e.writer /\ f.chunk = e.chunk /\ f.queue = e.queue /\ f.got = e.got
      /\ f.ready = e.ready /\ f.conn = e.conn
  BY <1>1, Zenon DEF End
<1>u. Update(m, o, f) /\ net' = Sent(m, x) /\ ws' = ws /\ serve' = serve
  BY Zenon
<1> HIDE DEF f, x, p
<1>7. f.reader # "off" /\ f.reader # "send" /\ e.reader # "off" /\ e.read > 0
  BY <1>1, <1>6, Zenon DEF Own
<1> HIDE DEF e
<1>8. Own(f)
  BY <1>1, <1>6, <1>7, ReaderOwn, Zenon
<1>9. SentUpTo(f) = e.read /\ SentUpTo(e) = e.read - 1
  BY <1>1, <1>6, <1>7, Zenon DEF SentUpTo
<1>10. SentUpTo(e) <= SentUpTo(f) /\ ReceivesSame(e, f)
  BY <1>1, <1>6, <1>9 DEF ReceivesSame
<1>11. net'[m] = net[m] /\ net'[n] = IF ws[n] = "up" THEN Append(net[n], x) ELSE net[n]
  BY <1>0, <1>n, <1>u, Zenon DEF Sent, TypeOK
<1>12. net[n] \in Seq(Messages) /\ net[m] \in Seq(Messages)
  BY <1>0, <1>n, Zenon DEF TypeOK
<1>13. net' \in [Members -> Seq(Messages)]
  <2>1. \A w \in Seq(Messages) : Append(w, x) \in Seq(Messages)
    BY <1>4
  <2> QED BY <1>0, <1>n, <1>u, <1>12, <2>1 DEF Sent, TypeOK
<1>14. /\ \A i \in DOMAIN net'[m] : \E j \in DOMAIN net[m] : net[m][j] = net'[m][i]
       /\ \A i \in DOMAIN net'[n] : net'[n][i] = x \/ \E j \in DOMAIN net[n] : net[n][j] = net'[n][i]
  <2>1. CASE ws[n] = "up"
    <3> DEFINE w == net[n]
               v == net'[n]
    <3>1. w \in Seq(Messages) /\ v = Append(w, x)
      BY <1>11, <1>12, <2>1, Zenon
    <3> HIDE DEF v, w
    <3>2. \A i \in DOMAIN v : v[i] = x \/ \E j \in DOMAIN w : w[j] = v[i]
      BY <1>4, <3>1, AppendFrom
    <3> QED BY <1>11, <3>2, Zenon DEF v, w
  <2>2. CASE ws[n] # "up"
    BY <1>11, <2>2, Zenon
  <2> QED BY <2>1, <2>2, Zenon
<1>15. \A k \in Members : Within(net[k], net'[k], {"open", "accept"})
  <2>1. Within(net[m], net'[m], {"open", "accept"})
    BY <1>14, Zenon DEF Within
  <2>2. Within(net[n], net'[n], {"open", "accept"})
    BY <1>3, <1>14, Zenon DEF Within
  <2> QED BY <1>n, <2>1, <2>2, Zenon
<1>16. serve' \in [Members -> Tasks] /\ \A k \in Members : DialStep(k)
  BY <1>u, ServeSame, Zenon
<1>17. Flow(m, o, f)
  BY <1>1, <1>5, <1>6, <1>7, <1>8, <1>10, <1>13, <1>15, <1>16, <1>u, Zenon DEF Flow, e
<1>18. /\ TypeOK' /\ OwnInv' /\ Distinct' = Distinct /\ ends'[m][o] = f
       /\ \A k \in Members, l \in Objects : k # m \/ l # o => ends'[k][l] = ends[k][l]
       /\ \A k \in Members, l \in Objects : ends'[k][l].id = ends[k][l].id
       /\ \A k \in Members, l \in Objects : SentUpTo(ends[k][l]) <= SentUpTo(ends'[k][l])
  BY <1>17, FlowKeeps, Zenon
<1>19. Carrying(m)'
  <2>1. Within(net[m], net'[m], {"data"})
    BY <1>14, Zenon DEF Within
  <2> QED BY <1>17, <1>u, <2>1, FlowCarries, Zenon
<1>20. Carrying(n)'
  <2> DEFINE Good(y) == y.op = "data" => Comes(n, y.payload, ends'[Other(n)]) /\ y.id = ends'[Other(n)][y.payload[2]].id
  <2>1. Good(x)
    <3>1. Comes(n, p, ends'[m])
      <4>1. 1 <= e.read /\ e.read <= e.read
        BY <1>1, <1>7
      <4> QED BY <1>n, <1>2, <1>9, <1>18, <4>1, Zenon DEF Comes
    <3>2. x.payload[2] = o /\ ends'[m][o].id = x.id /\ Other(n) = m
      BY <1>n, <1>2, <1>3, <1>6, <1>18
    <3> QED BY <1>3, <3>1, <3>2, Zenon
  <2>2. ASSUME NEW j \in DOMAIN net[n], net[n][j].op = "data"
        PROVE  Good(net[n][j])
    <3> DEFINE y == net[n][j]
    <3>1. y.payload \in Payloads
      BY <1>12, <2>2, Numbers, Zenon
    <3>2. y.payload[2] \in Objects /\ y.payload[3] \in Nat
      BY <3>1, Zenon DEF Payloads
    <3>3. Comes(n, y.payload, ends[m]) /\ y.id = ends[m][y.payload[2]].id
      BY <1>0, <1>n, <2>2, Zenon DEF CarryInv, Carrying
    <3> DEFINE i == y.payload[3]
               a == SentUpTo(ends[m][y.payload[2]])
               b == SentUpTo(ends'[m][y.payload[2]])
    <3>4. ends[m][y.payload[2]] \in End /\ Own(ends[m][y.payload[2]]) /\ ends'[m][y.payload[2]] \in End /\ Own(ends'[m][y.payload[2]])
      BY <1>0, <1>18, <3>2 DEF TypeOK, OwnInv
    <3>5. a \in Nat /\ b \in Nat /\ a <= b /\ i <= a /\ 1 <= i /\ i \in Nat /\ y.payload[1] = m
      BY <1>n, <1>18, <3>2, <3>3, <3>4, SentNat, Zenon DEF Comes
    <3>6. i <= b
      <4> HIDE DEF i, a, b
      <4> QED BY <3>5
    <3>7. Comes(n, y.payload, ends'[m])
      BY <1>n, <3>5, <3>6, Zenon DEF Comes
    <3> QED BY <1>n, <1>18, <3>2, <3>3, <3>7, Zenon
  <2>3. ASSUME NEW i \in DOMAIN net'[n], net'[n][i].op = "data"
        PROVE  Comes(n, net'[n][i].payload, ends'[Other(n)]) /\ net'[n][i].id = ends'[Other(n)][net'[n][i].payload[2]].id
    <3> HIDE DEF Good
    <3>1. Good(net'[n][i])
      <4>1. CASE net'[n][i] = x
        BY <2>1, <4>1, Zenon
      <4>2. CASE \E j \in DOMAIN net[n] : net[n][j] = net'[n][i]
        <5>1. PICK j \in DOMAIN net[n] : net[n][j] = net'[n][i]
          BY <4>2, Zenon
        <5>2. net[n][j].op = "data"
          BY <2>3, <5>1, Zenon
        <5>3. Good(net[n][j])
          BY <2>2, <5>2, Zenon
        <5> QED BY <5>1, <5>3, Zenon
      <4> QED BY <1>14, <4>1, <4>2, Zenon
    <3> QED BY <2>3, <3>1, Zenon DEF Good
  <2>4. ASSUME serve'[n].pc = "push"
        PROVE  /\ Comes(n, serve'[n].payload, ends'[Other(n)]) /\ Started(ends'[n][serve'[n].o])
               /\ Distinct' => serve'[n].o = Peer(serve'[n].payload[2])
    <3> DEFINE y == serve[n]
    <3>1. y \in Tasks /\ y.pc = "push" /\ serve'[n] = y
      BY <1>0, <1>n, <1>u, <2>4, Zenon DEF TypeOK
    <3>2. y.o \in Objects /\ y.payload \in Payloads
      BY <3>1, Zenon DEF Tasks
    <3>3. y.payload[2] \in Objects /\ y.payload[3] \in Nat
      BY <3>2, Zenon DEF Payloads
    <3>4. Comes(n, y.payload, ends[m]) /\ Started(ends[n][y.o]) /\ (Distinct => y.o = Peer(y.payload[2]))
      BY <1>0, <1>n, <3>1, Zenon DEF CarryInv, Carrying
    <3> DEFINE i == y.payload[3]
               a == SentUpTo(ends[m][y.payload[2]])
               b == SentUpTo(ends'[m][y.payload[2]])
    <3>5. ends[m][y.payload[2]] \in End /\ Own(ends[m][y.payload[2]]) /\ ends'[m][y.payload[2]] \in End /\ Own(ends'[m][y.payload[2]])
      BY <1>0, <1>18, <3>3 DEF TypeOK, OwnInv
    <3>6. a \in Nat /\ b \in Nat /\ a <= b /\ i <= a /\ 1 <= i /\ i \in Nat /\ y.payload[1] = m
      BY <1>n, <1>18, <3>3, <3>4, <3>5, SentNat, Zenon DEF Comes
    <3>7. i <= b
      <4> HIDE DEF i, a, b
      <4> QED BY <3>6
    <3>8. Comes(n, y.payload, ends'[m])
      BY <1>n, <3>6, <3>7, Zenon DEF Comes
    <3>9. Started(ends'[n][y.o])
      BY <1>n, <1>18, <3>2, <3>4, Zenon DEF Started
    <3> QED BY <1>n, <1>18, <3>1, <3>4, <3>8, <3>9, Zenon
  <2> QED BY <2>3, <2>4, Zenon DEF Carrying
<1>21. \A k \in Members : Carrying(k)'
  BY <1>n, <1>19, <1>20, Zenon
<1>22. \A k \in Members, l \in Objects : PushKept(k, l)
  BY <1>u, Zenon DEF PushKept, Pushing
<1>23. Skips(net[n], net'[n], q)
  <2>1. x.payload[2] # q
    BY <1>n, <1>2, <1>3, Zenon
  <2> QED BY <1>4, <1>11, <1>12, <2>1, SkipsAppend, SkipsSelf, Zenon
<1>24. \A l \in Objects : Skips(net[m], net'[m], l)
  BY <1>11, <1>12, SkipsSelf, Zenon
<1>25. \A k \in Members, l \in Objects : (k # m \/ l # o) /\ (k # n \/ l # q) =>
         PushKept(k, l) /\ (ws[k] = "up" => Skips(net[k], net'[k], Peer(l)))
  <2>1. SUFFICES ASSUME NEW k \in Members, NEW l \in Objects, (k # m \/ l # o) /\ (k # n \/ l # q)
                 PROVE  Skips(net[k], net'[k], Peer(l))
    BY <1>22, Zenon
  <2>2. CASE k = m
    BY <1>24, <2>2, Peers, Zenon
  <2>3. CASE k = n
    <3>1. l = o
      BY <1>n, <2>1, <2>3, Zenon
    <3> QED BY <1>23, <2>3, <3>1, Zenon
  <2> QED BY <1>n, <2>2, <2>3, Zenon
<1>26. ASSUME Distinct PROVE Follows(m, o)'
  <2>1. TypeOK /\ OwnInv /\ Follows(m, o)
    BY <1>0, <1>26, Zenon DEF IInv, OrderInv
  <2>2. ReceivesSame(ends[m][o], ends'[m][o])
    BY <1>10, <1>18, Zenon DEF e
  <2>3. SendsSame(ends[Other(m)][Peer(o)], ends'[Other(m)][Peer(o)])
    <3>1. ends'[n][q] = ends[n][q]
      BY <1>n, <1>18, Zenon
    <3>2. ends[n][q] \in End /\ Own(ends[n][q])
      BY <1>n, Ends, Zenon
    <3>3. SentUpTo(ends[n][q]) \in Nat
      BY <3>2, SentNat, Zenon
    <3>4. SentUpTo(ends[n][q]) <= SentUpTo(ends[n][q])
      BY <3>3
    <3> QED BY <3>1, <3>4, Zenon DEF SendsSame
  <2>4. PushKept(m, o) /\ (ws'[m] = "up" => ws[m] = "up" /\ Skips(net[m], net'[m], Peer(o)))
    BY <1>n, <1>22, <1>24, <1>u, Zenon
  <2> QED BY <1>18, <2>1, <2>2, <2>3, <2>4, FollowsKept, Zenon
<1>27. ASSUME Distinct PROVE Follows(n, q)'
  <2> DEFINE d == ends[n][q]
             t == Taken(n, q)
             k == e.read
  <2>1. Follows(n, q) /\ ends[m][o] = e
    BY <1>n, <1>27, Zenon DEF IInv, OrderInv, e
  <2>2. d \in End /\ Own(d) /\ ends'[n][q] = d /\ Held(d) \in Nat /\ Len(d.got) \in Nat
    BY <1>n, <1>18, Ends, Lengths, Zenon
  <2>3. Ordered(m, o, d, e)
    BY <1>n, <2>1, Zenon DEF Follows
  <2>4. Ordered(m, o, d, f)
    <3>1. \A i \in Nat : i <= SentUpTo(e) => i <= SentUpTo(f)
      BY <1>1, <1>9
    <3> QED BY <2>2, <2>3, <3>1, Zenon DEF Ordered
  <2>5. (Pushing(n, q)' <=> Pushing(n, q)) /\ Taken(n, q)' = t /\ serve' = serve
    BY <1>u, <2>2, Zenon DEF Pushing, Taken
  <2>6. ~d.qclosed /\ Pushing(n, q)' => serve'[n].payload[3] = Held(d) + 1
    BY <2>1, <2>5, Zenon DEF Follows
  <2>7. ASSUME ~d.qclosed, ws'[n] = "up"
        PROVE  Linked(net'[n], o, t) /\ Has(net'[n], o, SentUpTo(f))
    <3>1. ws[n] = "up" /\ net'[n] = Append(net[n], x)
      BY <1>11, <1>u, <2>7, Zenon
    <3>2. Linked(net[n], o, t) /\ (SentUpTo(e) = t \/ Has(net[n], o, SentUpTo(e)))
      BY <1>n, <1>1, <2>1, <2>7, <3>1, Zenon DEF Follows
    <3>3. t \in Nat /\ t <= SentUpTo(e)
      <4>1. d.writer # "end"
        BY <2>2, <2>7, Zenon DEF Own
      <4>2. Held(d) <= SentUpTo(e)
        BY <2>3, <4>1, Zenon DEF Ordered
      <4>3. CASE Pushing(n, q)
        <5>1. serve[n].payload[3] = Held(d) + 1
          BY <2>1, <2>7, <4>3, Zenon DEF Follows
        <5>2. Comes(n, serve[n].payload, ends[m]) /\ serve[n].o = Peer(serve[n].payload[2])
          BY <1>0, <1>n, <1>27, <4>3, Zenon DEF CarryInv, Carrying, Pushing
        <5>3. serve[n].payload[2] \in Objects /\ serve[n].o = q
          <6>1. serve[n] \in Tasks /\ serve[n].pc = "push" /\ serve[n].o = q
            BY <1>0, <1>n, <4>3, Zenon DEF TypeOK, Pushing
          <6>2. serve[n].payload \in Payloads
            BY <6>1, Zenon DEF Tasks
          <6> QED BY <6>1, <6>2, Zenon DEF Payloads
        <5>4. serve[n].payload[2] = o
          BY <1>n, <5>2, <5>3, Peers, Zenon
        <5>5. Held(d) + 1 <= SentUpTo(e)
          BY <2>1, <5>1, <5>2, <5>4, Zenon DEF Comes
        <5>6. t = Held(d) + 1
          BY <4>3, Zenon DEF Taken
        <5>7. Held(d) + 1 \in Nat
          BY <2>2
        <5> QED BY <5>5, <5>6, <5>7, Zenon
      <4>4. CASE ~Pushing(n, q)
        BY <2>2, <4>2, <4>4, Zenon DEF Taken
      <4> QED BY <4>3, <4>4, Zenon
    <3> HIDE DEF t, d
    <3>4. t < k /\ k \in Nat /\ (k # t + 1 => Has(net[n], o, k - 1))
      BY <1>1, <1>9, <3>2, <3>3
    <3>5. ASSUME NEW i \in DOMAIN net[n], Carries(net[n], i, o)
          PROVE  Number(net[n][i]) < k
      <4>1. net[n][i].op = "data" /\ net[n][i].payload[2] = o
        BY <3>5, Zenon DEF Carries
      <4>2. Comes(n, net[n][i].payload, ends[m])
        BY <1>0, <1>n, <4>1, Zenon DEF CarryInv, Carrying
      <4>3. Number(net[n][i]) <= SentUpTo(e)
        BY <2>1, <4>1, <4>2, Zenon DEF Comes, Number
      <4>4. Number(net[n][i]) \in Nat
        BY <1>12, <4>1, Numbers, Zenon
      <4> QED BY <1>1, <1>9, <4>3, <4>4
    <3>6. Number(x) = k /\ x.payload[2] = o
      BY <1>2, <1>3, Zenon DEF Number
    <3> HIDE DEF k
    <3>7. Linked(Append(net[n], x), o, t) /\ Has(Append(net[n], x), o, k)
      BY <1>3, <1>4, <1>12, <3>2, <3>3, <3>4, <3>5, <3>6, LinkedSend, Zenon
    <3> QED BY <1>9, <3>1, <3>7, Zenon DEF k
  <2> QED BY <1>n, <1>18, <2>2, <2>4, <2>5, <2>6, <2>7, Zenon DEF Follows
<1> QED BY <1>17, <1>21, <1>25, <1>26, <1>27, FlowOrder, Zenon

\* readLoop sends its payload, or aborts the stream.
LEMMA ReaderSendsFlows ==
  ASSUME IInv, NEW m \in Members, NEW o \in Objects, ReaderSends(m, o)
  PROVE  IInv'
BY SendFlows, SendFailsFlows, Zenon DEF ReaderSends

-----------------------------------------------------------------------------
(* The writer.                                                             *)

\* A writer's turn that keeps what the end holds, or leaves its queue closed.
LEMMA WriterFlows ==
  ASSUME IInv, NEW m \in Members, NEW o \in Objects, NEW f, Flow(m, o, f), NetStep, serve' = serve,
         f.read = ends[m][o].read, f.reader = ends[m][o].reader, ends[m][o].qclosed => f.qclosed,
         f.qclosed \/ Held(f) = Held(ends[m][o]),
         Ordered(Other(m), Peer(o), ends[m][o], ends[Other(m)][Peer(o)])
           => Ordered(Other(m), Peer(o), f, ends[Other(m)][Peer(o)])
  PROVE  IInv'
<1> DEFINE e == ends[m][o]
           n == Other(m)
           q == Peer(o)
           p == ends[n][q]
<1>0. n \in Members /\ q \in Objects /\ n # m
  BY Others, Peers, Zenon
<1>1. e \in End /\ Own(e) /\ e.read \in Nat
  BY Ends, Fields, Zenon
<1>2. SendsSame(e, f)
  <2>1. SentUpTo(f) = SentUpTo(e) /\ SentUpTo(e) \in Nat
    BY <1>1, SentNat, Zenon DEF SentUpTo
  <2>2. SentUpTo(e) <= SentUpTo(e)
    BY <2>1, Reflexive, Zenon
  <2> QED BY <2>1, <2>2, Zenon DEF SendsSame
<1>3. ASSUME Distinct PROVE Follows(m, o)'
  <2>1. /\ ends'[m][o] = f
        /\ \A k \in Members, l \in Objects : k # m \/ l # o => ends'[k][l] = ends[k][l]
    BY FlowKeeps, Zenon
  <2>2. ends'[n][q] = p /\ ws' = ws /\ Follows(m, o)
    BY <1>0, <1>3, <2>1, Zenon DEF IInv, OrderInv, Flow
  <2>3. Ordered(n, q, f, p)
    BY <2>2, Zenon DEF Follows
  <2>4. Pushing(m, o)' <=> Pushing(m, o)
    BY Zenon DEF Pushing
  <2>5. ASSUME ~f.qclosed
        PROVE  /\ ~e.qclosed /\ Held(f) = Held(e) /\ Taken(m, o)' = Taken(m, o)
               /\ Pushing(m, o) => serve[m].payload[3] = Held(f) + 1
    <3>1. ~e.qclosed /\ Held(f) = Held(e)
      BY <2>5, Zenon
    <3>2. Pushing(m, o) => serve[m].payload[3] = Held(f) + 1
      BY <2>2, <3>1, Zenon DEF Follows
    <3>3. Taken(m, o)' = Taken(m, o)
      BY <2>1, <2>4, <3>1, Zenon DEF Taken
    <3> QED BY <3>1, <3>2, <3>3, Zenon
  <2>6. ASSUME ~f.qclosed, ws'[m] = "up"
        PROVE  /\ Linked(net'[m], q, Taken(m, o)')
               /\ p.reader \in {"read", "send"} => SentUpTo(p) = Taken(m, o)' \/ Has(net'[m], q, SentUpTo(p))
    <3>1. ws[m] = "up" /\ ws' = ws
      BY <2>2, <2>6, Zenon
    <3>2. Skips(net[m], net'[m], q) /\ net' \in [Members -> Seq(Messages)]
      BY <1>0, <3>1, NetFlows, Zenon
    <3>3. net[m] \in Seq(Messages) /\ net'[m] \in Seq(Messages)
      BY <3>2, Zenon DEF IInv, TypeOK
    <3>4. /\ \A k : Has(net[m], q, k) => Has(net'[m], q, k)
          /\ \A k : Linked(net[m], q, k) => Linked(net'[m], q, k)
      BY <3>2, <3>3, SkipsKeeps, Zenon
    <3>5. /\ Linked(net[m], q, Taken(m, o))
          /\ p.reader \in {"read", "send"} => SentUpTo(p) = Taken(m, o) \/ Has(net[m], q, SentUpTo(p))
      BY <2>2, <2>5, <2>6, <3>1, Zenon DEF Follows
    <3> QED BY <2>5, <2>6, <3>4, <3>5, Zenon
  <2> QED BY <2>1, <2>2, <2>3, <2>4, <2>5, <2>6, Zenon DEF Follows
<1> QED BY <1>2, <1>3, SenderFlows, EndFlows, Zenon

\* The head of a queue becomes the chunk.
LEMMA PopOrdered ==
  ASSUME NEW e \in End, NEW f, NEW n, NEW q, NEW p, Own(e), e.writer = "pop", e.queue # <<>>,
         f.writer = "write", f.chunk = <<Head(e.queue)>>, f.queue = Tail(e.queue), f.got = e.got
  PROVE  /\ Held(f) = Held(e) /\ Len(f.queue) <= Len(e.queue) /\ f.queue \in Seq(Payloads) /\ f.chunk \in Seq(Payloads)
         /\ Ordered(n, q, e, p) => Ordered(n, q, f, p)
<1> DEFINE w == e.queue
           k == Len(e.got)
<1>1. w \in Seq(Payloads) /\ w # <<>> /\ k \in Nat /\ Len(e.chunk) = 0 /\ f.queue = Tail(w) /\ f.chunk = <<Head(w)>>
  <2>1. e.chunk = <<>>
    BY Zenon DEF Own
  <2> QED BY <2>1, Fields, Lengths, Zenon
<1> HIDE DEF w, k
<1>2. /\ Len(f.chunk) = 1 /\ f.chunk[1] = w[1] /\ 1 \in DOMAIN w /\ Len(w) \in Nat /\ Len(f.queue) = Len(w) - 1
      /\ f.queue \in Seq(Payloads) /\ f.chunk \in Seq(Payloads)
      /\ \A i \in DOMAIN f.queue : i \in Nat /\ i + 1 \in DOMAIN w /\ f.queue[i] = w[i + 1]
  <2> DEFINE v == f.queue
             c == f.chunk
  <2>1. v = Tail(w) /\ c = <<Head(w)>>
    BY <1>1, Zenon
  <2> HIDE DEF v, c
  <2>2. /\ Len(c) = 1 /\ c[1] = w[1] /\ 1 \in DOMAIN w /\ Len(w) \in Nat /\ Len(v) = Len(w) - 1
        /\ v \in Seq(Payloads) /\ c \in Seq(Payloads)
    BY <1>1, <2>1
  <2>3. \A i \in DOMAIN v : i \in Nat /\ i + 1 \in DOMAIN w /\ v[i] = w[i + 1]
    BY <1>1, <2>1
  <2> QED BY <2>2, <2>3, Zenon DEF v, c
<1>3. Held(f) = Held(e) /\ Len(f.queue) <= Len(w)
  <2>1. Held(e) = k + Len(e.chunk) + Len(w) /\ Held(f) = k + Len(f.chunk) + Len(f.queue)
    BY Zenon DEF Held, w, k
  <2> QED BY <1>1, <1>2, <2>1
<1>4. ASSUME Ordered(n, q, e, p)
      PROVE  Ordered(n, q, f, p)
  <2>1. /\ \A i \in DOMAIN e.got : e.got[i] = <<n, q, i>>
        /\ k <= SentUpTo(p) /\ Held(e) <= SentUpTo(p)
        /\ \A i \in DOMAIN w : w[i] = <<n, q, k + Len(e.chunk) + i>>
    BY <1>4, Zenon DEF Ordered, w, k
  <2>2. f.chunk[1] = <<n, q, k + 1>>
    BY <1>1, <1>2, <2>1
  <2>3. ASSUME NEW i \in DOMAIN f.queue
        PROVE  f.queue[i] = <<n, q, k + Len(f.chunk) + i>>
    <3>1. i \in Nat /\ i + 1 \in DOMAIN w /\ f.queue[i] = w[i + 1]
      BY <1>2, <2>3, Zenon
    <3>2. w[i + 1] = <<n, q, k + Len(e.chunk) + (i + 1)>>
      BY <2>1, <3>1, Zenon
    <3>3. k + Len(e.chunk) + (i + 1) = k + Len(f.chunk) + i
      BY <1>1, <1>2, <3>1
    <3> QED BY <3>1, <3>2, <3>3, Zenon
  <2> QED BY <1>3, <2>1, <2>2, <2>3, Zenon DEF Ordered, k
<1> QED BY <1>2, <1>3, <1>4, Zenon DEF w

\* The chunk is written.
LEMMA WriteOrdered ==
  ASSUME NEW e \in End, NEW f, NEW n, NEW q, NEW p, Own(e), e.writer = "write",
         f.writer = "pop", f.chunk = <<>>, f.queue = e.queue, f.got = e.got \o e.chunk
  PROVE  /\ Held(f) = Held(e) /\ f.got \in Seq(Payloads) /\ f.chunk \in Seq(Payloads)
         /\ SentUpTo(p) \in Nat /\ Ordered(n, q, e, p) => Ordered(n, q, f, p)
<1> DEFINE w == e.got
           c == e.chunk
           k == Len(e.queue)
<1>1. w \in Seq(Payloads) /\ c \in Seq(Payloads) /\ k \in Nat /\ Len(c) = 1 /\ f.got = w \o c /\ f.chunk = <<>> /\ Len(f.queue) = k
  BY Fields, Lengths, Zenon DEF Own
<1> HIDE DEF w, c, k
<1>2. /\ Len(w) \in Nat /\ Len(f.got) = Len(w) + 1 /\ Len(f.chunk) = 0 /\ f.got \in Seq(Payloads) /\ f.chunk \in Seq(Payloads)
      /\ \A i \in DOMAIN f.got : (i \in DOMAIN w /\ f.got[i] = w[i]) \/ (i = Len(w) + 1 /\ f.got[i] = c[1])
  <2> DEFINE v == f.got
             b == f.chunk
  <2>1. v = w \o c /\ b = <<>>
    BY <1>1, Zenon
  <2> HIDE DEF v, b
  <2>2. Len(w) \in Nat /\ Len(v) = Len(w) + 1 /\ Len(b) = 0 /\ v \in Seq(Payloads) /\ b \in Seq(Payloads)
    <3>1. w \o c \in Seq(Payloads) /\ Len(w \o c) = Len(w) + Len(c)
      BY <1>1, Joined, Zenon
    <3>2. Len(w) \in Nat
      BY <1>1
    <3> QED BY <1>1, <2>1, <3>1, <3>2
  <2>3. \A i \in DOMAIN v : (i \in DOMAIN w /\ v[i] = w[i]) \/ (i = Len(w) + 1 /\ v[i] = c[1])
    <3>1. DOMAIN v = 1..(Len(w) + 1) /\ DOMAIN w = 1..Len(w)
      BY <1>1, <2>2
    <3>2. \A i \in 1..(Len(w) + Len(c)) : (w \o c)[i] = IF i <= Len(w) THEN w[i] ELSE c[i - Len(w)]
      BY <1>1, Joined, Zenon
    <3>3. \A i \in 1..(Len(w) + 1) : v[i] = IF i <= Len(w) THEN w[i] ELSE c[i - Len(w)]
      BY <1>1, <2>1, <3>2, Zenon
    <3> QED BY <2>2, <3>1, <3>3
  <2> QED BY <2>2, <2>3, Zenon DEF v, b
<1>3. Held(f) = Held(e)
  <2>1. Held(e) = Len(w) + Len(c) + k /\ Held(f) = Len(f.got) + Len(f.chunk) + Len(f.queue)
    BY Zenon DEF Held, w, c, k
  <2> QED BY <1>1, <1>2, <2>1
<1>4. ASSUME Ordered(n, q, e, p), SentUpTo(p) \in Nat
      PROVE  Ordered(n, q, f, p)
  <2>1. /\ \A i \in DOMAIN w : w[i] = <<n, q, i>>
        /\ c[1] = <<n, q, Len(w) + 1>> /\ Len(w) + Len(c) + k <= SentUpTo(p)
        /\ \A i \in DOMAIN e.queue : e.queue[i] = <<n, q, Len(w) + Len(c) + i>>
    BY <1>4, Zenon DEF Ordered, Held, w, c, k
  <2>2. \A i \in DOMAIN f.got : f.got[i] = <<n, q, i>>
    BY <1>2, <2>1, Zenon
  <2>3. Len(f.got) <= SentUpTo(p)
    BY <1>1, <1>2, <1>4, <2>1
  <2>4. Len(f.got) + Len(f.chunk) = Len(w) + Len(c)
    BY <1>1, <1>2
  <2>5. Held(f) <= SentUpTo(p)
    BY <1>3, <2>1, Zenon DEF Held, w, c, k
  <2>6. f.writer # "write"
    BY Zenon
  <2> QED BY <2>1, <2>2, <2>3, <2>4, <2>5, <2>6, Zenon DEF Ordered
<1> QED BY <1>2, <1>3, <1>4, Zenon

\* A writer that ends, with its chunk dropped, and what it has written stays.
LEMMA EndOrdered ==
  ASSUME NEW e, NEW f, NEW n, NEW q, NEW p, f.writer = "end", f.got = e.got, Ordered(n, q, e, p)
  PROVE  Ordered(n, q, f, p)
<1>1. f.writer # "write"
  BY Zenon
<1> QED BY <1>1, Zenon DEF Ordered

\* writeLoop takes a payload off the queue, or ends with it.
LEMMA WriterPopsFlows ==
  ASSUME IInv, NEW m \in Members, NEW o \in Objects, WriterPops(m, o)
  PROVE  IInv'
<1> DEFINE e == ends[m][o]
           c == <<Head(e.queue)>>
           v == Tail(e.queue)
           n == Other(m)
           q == Peer(o)
           p == ends[n][q]
<1>0. TypeOK
  BY Zenon DEF IInv
<1>1. e \in End /\ Own(e) /\ Len(e.queue) <= QueueLimit /\ SentUpTo(e) \in Nat /\ Len(e.queue) \in Nat /\ QueueLimit \in Nat
  BY <1>0, Ends, SentNat, Lengths, ZoneStreamsAssumption, Zenon DEF TypeOK
<1>2. e.writer = "pop" /\ UNCHANGED <<plan, next, handler, serve, ws, peers, allowed, net>>
  BY Zenon DEF WriterPops
<1>3. NetStep
  BY <1>0, <1>2, NetSame, Zenon
<1>4. SentUpTo(e) <= SentUpTo(e)
  BY <1>1, Reflexive, Zenon
<1>5. CASE e.queue # <<>>
  <2> DEFINE f == [e EXCEPT !.writer = "write", !.chunk = c, !.queue = v]
  <2>1. Update(m, o, f)
    BY <1>1, <1>5, Zenon DEF WriterPops, End
  <2>2. c \in Seq(Payloads) /\ v \in Seq(Payloads) /\ Len(c) = 1
    <3> DEFINE w == e.queue
    <3>1. w \in Seq(Payloads) /\ w # <<>>
      BY <1>1, <1>5, Fields, Zenon
    <3> HIDE DEF w
    <3>2. <<Head(w)>> \in Seq(Payloads) /\ Tail(w) \in Seq(Payloads) /\ Len(<<Head(w)>>) = 1
      BY <3>1
    <3> QED BY <3>2, Zenon DEF w
  <2> HIDE DEF c, v
  <2>3. f \in End
    BY <1>1, <2>2, Zenon DEF End
  <2>4. /\ f.reader = e.reader /\ f.read = e.read
        /\ f.id = e.id /\ f.listed = e.listed /\ f.done = e.done /\ f.finished = e.finished /\ f.qclosed = e.qclosed
        /\ f.writer = "write" /\ f.chunk = c /\ f.queue = v /\ f.got = e.got
        /\ f.ready = e.ready /\ f.conn = e.conn
    BY <1>1, Zenon DEF End
  <2> HIDE DEF f
  <2>5. /\ Held(f) = Held(e) /\ Len(f.queue) <= Len(e.queue)
        /\ Ordered(n, q, e, p) => Ordered(n, q, f, p)
    <3>1. f.chunk = <<Head(e.queue)>> /\ f.queue = Tail(e.queue)
      BY <2>4, Zenon DEF c, v
    <3> HIDE DEF e, p
    <3> QED BY <1>1, <1>2, <1>5, <2>4, <3>1, PopOrdered, Zenon
  <2> HIDE DEF e
  <2>6. f.writer # "end" /\ f.writer # "off" /\ e.writer # "off" /\ Started(e)
    BY <1>1, <1>2, <2>4, Zenon DEF Own
  <2>7. Own(f)
    BY <1>1, <2>2, <2>4, <2>6, Zenon DEF Own, Started
  <2>8. Len(f.queue) <= QueueLimit
    <3>1. Len(f.queue) \in Nat
      BY <2>3, Lengths, Zenon
    <3> QED BY <1>1, <2>5, <3>1
  <2>9. SentUpTo(f) = SentUpTo(e)
    BY <2>4, Zenon DEF SentUpTo
  <2>10. Flow(m, o, f)
    BY <1>2, <1>3, <1>4, <2>1, <2>3, <2>4, <2>6, <2>7, <2>8, <2>9, FlowFrame, Zenon DEF Flow, e
  <2> QED BY <1>2, <1>3, <2>4, <2>5, <2>10, WriterFlows, Zenon DEF e
<1>6. CASE e.queue = <<>>
  <2> DEFINE f == [e EXCEPT !.writer = "end"]
  <2>1. Update(m, o, f) /\ e.qclosed
    BY <1>6, Zenon DEF WriterPops
  <2>2. f \in End
    BY <1>1, Zenon DEF End
  <2>3. /\ f.reader = e.reader /\ f.read = e.read
        /\ f.id = e.id /\ f.listed = e.listed /\ f.done = e.done /\ f.finished = e.finished /\ f.qclosed = e.qclosed
        /\ f.writer = "end" /\ f.chunk = e.chunk /\ f.queue = e.queue /\ f.got = e.got
        /\ f.ready = e.ready /\ f.conn = e.conn
    BY <1>1, Zenon DEF End
  <2> HIDE DEF f
  <2>4. Ordered(n, q, e, p) => Ordered(n, q, f, p)
    BY <2>3, EndOrdered, Zenon
  <2> HIDE DEF e
  <2>5. f.writer # "write" /\ f.writer # "off" /\ e.writer # "off" /\ e.writer # "write" /\ Started(e)
    BY <1>1, <1>2, <2>3, Zenon DEF Own
  <2>6. Own(f)
    BY <1>1, <2>1, <2>3, <2>5, Zenon DEF Own, Started
  <2>7. SentUpTo(f) = SentUpTo(e)
    BY <2>3, Zenon DEF SentUpTo
  <2>8. Flow(m, o, f)
    BY <1>1, <1>2, <1>3, <1>4, <2>1, <2>2, <2>3, <2>5, <2>6, <2>7, FlowFrame, Zenon DEF Flow, e
  <2> QED BY <1>2, <1>3, <2>1, <2>3, <2>4, <2>8, WriterFlows, Zenon DEF e
<1> QED BY <1>5, <1>6, Zenon

\* writeLoop writes its payload.
LEMMA WriterWritesFlows ==
  ASSUME IInv, NEW m \in Members, NEW o \in Objects, WriterWrites(m, o)
  PROVE  IInv'
<1> DEFINE e == ends[m][o]
           v == e.got \o e.chunk
           n == Other(m)
           q == Peer(o)
           p == ends[n][q]
           f == [e EXCEPT !.writer = "pop", !.chunk = <<>>, !.got = v]
<1>0. TypeOK /\ n \in Members /\ q \in Objects
  BY Others, Peers, Zenon DEF IInv
<1>1. e \in End /\ Own(e) /\ Len(e.queue) <= QueueLimit /\ SentUpTo(e) \in Nat
  BY <1>0, Ends, SentNat, Zenon DEF TypeOK
<1>2. e.writer = "write" /\ UNCHANGED <<plan, next, handler, serve, ws, peers, allowed, net>>
  BY Zenon DEF WriterWrites
<1>3. NetStep
  BY <1>0, <1>2, NetSame, Zenon
<1>4. SentUpTo(e) <= SentUpTo(e)
  BY <1>1, Reflexive, Zenon
<1>5. Update(m, o, f)
  BY <1>1, Zenon DEF WriterWrites, End
<1>6. v \in Seq(Payloads) /\ <<>> \in Seq(Payloads)
  <2>1. e.got \in Seq(Payloads) /\ e.chunk \in Seq(Payloads)
    BY <1>1, Fields, Zenon
  <2>2. v \in Seq(Payloads)
    BY <2>1, Joined, Zenon
  <2> QED BY <2>2
<1>7. f \in End
  <2> HIDE DEF v
  <2> QED BY <1>1, <1>6, Zenon DEF End
<1>8. /\ f.reader = e.reader /\ f.read = e.read
      /\ f.id = e.id /\ f.listed = e.listed /\ f.done = e.done /\ f.finished = e.finished /\ f.qclosed = e.qclosed
      /\ f.writer = "pop" /\ f.chunk = <<>> /\ f.queue = e.queue /\ f.got = v
      /\ f.ready = e.ready /\ f.conn = e.conn
  <2> HIDE DEF v
  <2> QED BY <1>1, Zenon DEF End
<1> HIDE DEF f
<1>9. SentUpTo(p) \in Nat
  BY <1>0, Ends, SentNat, Zenon
<1>10. Held(f) = Held(e) /\ (Ordered(n, q, e, p) => Ordered(n, q, f, p))
  <2>1. f.got = e.got \o e.chunk
    BY <1>8, Zenon
  <2> HIDE DEF e, p
  <2> QED BY <1>1, <1>2, <1>8, <1>9, <2>1, WriteOrdered, Zenon
<1> HIDE DEF e
<1>11. f.writer # "write" /\ f.writer # "end" /\ f.writer # "off" /\ e.writer # "off" /\ Started(e)
  BY <1>1, <1>2, <1>8, Zenon DEF Own
<1>12. Own(f)
  BY <1>1, <1>8, <1>11, Zenon DEF Own, Started
<1>13. SentUpTo(f) = SentUpTo(e)
  BY <1>8, Zenon DEF SentUpTo
<1>14. Flow(m, o, f)
  BY <1>1, <1>2, <1>3, <1>4, <1>5, <1>7, <1>8, <1>11, <1>12, <1>13, FlowFrame, Zenon DEF Flow, e
<1> QED BY <1>2, <1>3, <1>8, <1>10, <1>14, WriterFlows, Zenon DEF e

\* writeLoop cannot write and aborts the stream.
LEMMA WriterFailsFlows ==
  ASSUME IInv, NEW m \in Members, NEW o \in Objects, WriterFails(m, o)
  PROVE  IInv'
<1> DEFINE e == ends[m][o]
           g == Abort(e)
           n == Other(m)
           q == Peer(o)
           p == ends[n][q]
           f == [g EXCEPT !.writer = "end", !.chunk = <<>>]
<1>0. TypeOK
  BY Zenon DEF IInv
<1>1. e \in End /\ Own(e) /\ e.id \in 0..MaxId /\ Len(e.queue) <= QueueLimit /\ SentUpTo(e) \in Nat
  BY <1>0, Ends, SentNat, Zenon DEF TypeOK
<1>2. /\ e.writer = "write" /\ UNCHANGED <<plan, next, handler, serve, ws, peers, allowed>>
      /\ net' = Sent(m, Msg("reset", e.id)) /\ Update(m, o, f)
  BY Zenon DEF WriterFails
<1>3. NetStep
  <2>1. "reset" \in {"open", "accept", "refuse", "close", "reset"} /\ "reset" \in Plain
    BY Zenon DEF Plain
  <2>2. Msg("reset", e.id) \in Messages /\ Msg("reset", e.id).op = "reset"
    BY <1>1, <2>1, Controls, Zenon
  <2>3. Msg("reset", e.id).op \in Plain
    BY <2>1, <2>2, Zenon
  <2> QED BY <1>0, <1>2, <2>2, <2>3, NetSent, Zenon
<1>4. SentUpTo(e) <= SentUpTo(e)
  BY <1>1, Reflexive, Zenon
<1>5. g \in End /\ Own(g) /\ Calm(e, g) /\ g.ready = e.ready /\ g.qclosed
  <2>1. Started(e)
    BY <1>1, <1>2, Zenon DEF Own
  <2> QED BY <1>1, <2>1, Aborts, Zenon
<1> HIDE DEF g
<1>6. f \in End
  <2> DEFINE c == <<>>
  <2>1. c \in Seq(Payloads)
    OBVIOUS
  <2> HIDE DEF c
  <2>2. [g EXCEPT !.writer = "end", !.chunk = c] \in End
    BY <1>5, <2>1, Zenon DEF End
  <2> QED BY <2>2, Zenon DEF c
<1>7. /\ f.reader = g.reader /\ f.read = g.read
      /\ f.id = g.id /\ f.listed = g.listed /\ f.done = g.done /\ f.finished = g.finished /\ f.qclosed = g.qclosed
      /\ f.writer = "end" /\ f.chunk = <<>> /\ f.queue = g.queue /\ f.got = g.got
      /\ f.ready = g.ready /\ f.conn = g.conn
  BY <1>5, Zenon DEF End
<1> HIDE DEF f
<1>8. /\ f.reader = e.reader /\ f.read = e.read /\ f.id = e.id /\ (f.listed => e.listed) /\ f.qclosed
      /\ f.queue = e.queue /\ f.got = e.got /\ f.ready = e.ready /\ (f.conn = "none" => e.conn = "none")
      /\ g.writer = e.writer
  BY <1>5, <1>7, Zenon DEF Calm
<1>9. Ordered(n, q, e, p) => Ordered(n, q, f, p)
  BY <1>7, <1>8, EndOrdered, Zenon
<1> HIDE DEF e
<1>10. f.writer # "write" /\ f.writer # "off" /\ e.writer # "off" /\ Started(e)
  BY <1>1, <1>2, <1>7, Zenon DEF Own
<1>11. Own(f)
  BY <1>5, <1>7, <1>8, <1>10, Zenon DEF Own, Started
<1>12. SentUpTo(f) = SentUpTo(e)
  BY <1>8, Zenon DEF SentUpTo
<1>13. Flow(m, o, f)
  BY <1>1, <1>2, <1>3, <1>4, <1>6, <1>7, <1>8, <1>10, <1>11, <1>12, FlowFrame, Zenon DEF Flow, e
<1> QED BY <1>2, <1>3, <1>8, <1>9, <1>13, WriterFlows, Zenon DEF e

-----------------------------------------------------------------------------
(* The read loop hands on data.                                            *)

\* What the read loop holds for a queue.
LEMMA Holding ==
  ASSUME IInv, NEW m \in Members, serve[m].pc = "push"
  PROVE  /\ serve[m].o \in Objects /\ serve[m].payload \in Payloads
         /\ serve[m].payload[2] \in Objects /\ serve[m].payload[3] \in Nat
         /\ serve[m].payload = <<serve[m].payload[1], serve[m].payload[2], serve[m].payload[3]>>
         /\ Comes(m, serve[m].payload, ends[Other(m)]) /\ Started(ends[m][serve[m].o])
         /\ Distinct => serve[m].o = Peer(serve[m].payload[2])
<1>1. serve[m] \in Tasks
  BY Zenon DEF IInv, TypeOK
<1>2. serve[m].o \in Objects /\ serve[m].payload \in Payloads
  BY <1>1, Zenon DEF Tasks
<1>3. /\ serve[m].payload[2] \in Objects /\ serve[m].payload[3] \in Nat
      /\ serve[m].payload = <<serve[m].payload[1], serve[m].payload[2], serve[m].payload[3]>>
  BY <1>2 DEF Payloads
<1> QED BY <1>2, <1>3, Zenon DEF IInv, CarryInv, Carrying

\* A payload with the next number is queued.
LEMMA PushOrdered ==
  ASSUME NEW e \in End, NEW f, NEW x \in Payloads, NEW n, NEW q, NEW p,
         f.queue = Append(e.queue, x), f.got = e.got, f.chunk = e.chunk, f.writer = e.writer
  PROVE  /\ Held(f) = Held(e) + 1 /\ Len(f.queue) = Len(e.queue) + 1 /\ f.queue \in Seq(Payloads)
         /\ x = <<n, q, Held(e) + 1>> /\ Held(e) + 1 <= SentUpTo(p) /\ Ordered(n, q, e, p) /\ e.writer # "end"
            => Ordered(n, q, f, p)
<1> DEFINE w == e.queue
           v == f.queue
           k == Len(e.got)
           c == Len(e.chunk)
<1>1. w \in Seq(Payloads) /\ k \in Nat /\ c \in Nat /\ v = Append(w, x)
  BY Fields, Lengths, Zenon
<1>2. Held(e) = k + c + Len(w) /\ Held(f) = k + c + Len(v) /\ Len(f.got) = k /\ Len(f.chunk) = c
  BY Zenon DEF Held
<1> HIDE DEF w, v, k, c
<1>3. /\ Len(w) \in Nat /\ Len(v) = Len(w) + 1 /\ v \in Seq(Payloads)
      /\ \A i \in DOMAIN v : (i \in DOMAIN w /\ v[i] = w[i]) \/ (i = Len(w) + 1 /\ v[i] = x)
  BY <1>1
<1>4. Held(f) = Held(e) + 1 /\ k + c + (Len(w) + 1) = Held(e) + 1
  BY <1>1, <1>2, <1>3
<1>5. ASSUME x = <<n, q, Held(e) + 1>>, Held(e) + 1 <= SentUpTo(p), Ordered(n, q, e, p), e.writer # "end"
      PROVE  Ordered(n, q, f, p)
  <2>1. /\ \A i \in DOMAIN e.got : e.got[i] = <<n, q, i>>
        /\ e.writer = "write" => e.chunk[1] = <<n, q, k + 1>>
        /\ k <= SentUpTo(p)
        /\ \A i \in DOMAIN w : w[i] = <<n, q, k + c + i>>
    BY <1>5, Zenon DEF Ordered, w, k, c
  <2>2. \A i \in DOMAIN v : v[i] = <<n, q, k + c + i>>
    BY <1>3, <1>4, <1>5, <2>1, Zenon
  <2> QED BY <1>2, <1>4, <1>5, <2>1, <2>2, Zenon DEF Ordered, v
<1> QED BY <1>3, <1>4, <1>5, Zenon DEF w, v

\* push, for the end o and the payload x that the read loop holds.
LEMMA PushesFlows ==
  ASSUME IInv, NEW m \in Members, Push(m), NEW o \in Objects, o = serve[m].o, NEW x, x = serve[m].payload
  PROVE  IInv'
<1> DEFINE e == ends[m][o]
           n == Other(m)
           q == Peer(o)
           p == ends[n][q]
           v == Append(e.queue, x)
           f == IF e.qclosed THEN e ELSE [e EXCEPT !.queue = v]
<1>0. TypeOK /\ OwnInv
  BY Zenon DEF IInv
<1>a. serve[m].pc = "push" /\ serve' = [serve EXCEPT ![m] = Idle] /\ UNCHANGED <<plan, next, handler, ws, peers, allowed, net>>
  BY Zenon DEF Push
<1>b. /\ o \in Objects /\ x \in Payloads /\ x[2] \in Objects /\ x[3] \in Nat /\ x = <<x[1], x[2], x[3]>>
      /\ Comes(m, x, ends[n]) /\ (Distinct => o = Peer(x[2]))
  BY <1>a, Holding, Zenon
<1>n. n \in Members /\ q \in Objects /\ n # m /\ q # o /\ Other(n) = m /\ Peer(q) = o /\ Members = {m, n} /\ Objects = {o, q}
  BY <1>b, Others, Peers, Zenon
<1>1. e \in End /\ Own(e) /\ Len(e.queue) <= QueueLimit /\ SentUpTo(e) \in Nat
  BY <1>0, <1>b, Ends, SentNat, Zenon DEF TypeOK
<1>2. Idle \in Tasks /\ Idle.pc = "read" /\ "read" \notin {"push", "dial"}
  BY Zenon DEF Idle, Tasks
<1>3. serve' \in [Members -> Tasks] /\ serve'[m] = Idle /\ serve'[n] = serve[n]
  BY <1>0, <1>2, <1>a, <1>n, Zenon DEF TypeOK
<1>4. \A k \in Members : DialStep(k) /\ (serve'[k].pc = "push" => serve'[k] = serve[k])
  <2>1. DialStep(m) /\ (serve'[m].pc = "push" => serve'[m] = serve[m])
    BY <1>2, <1>3, Zenon DEF DialStep, RemoteStep
  <2>2. DialStep(n) /\ (serve'[n].pc = "push" => serve'[n] = serve[n])
    <3>1. Taking(n)
      BY <1>n, Zenon DEF IInv, LifeInv
    <3> QED BY <1>3, <1>a, <3>1, Zenon DEF DialStep, RemoteStep, Taking
  <2> QED BY <1>n, <2>1, <2>2, Zenon
<1>5. Update(m, o, f)
  <2>1. CASE e.qclosed
    <3>1. ends' = ends
      BY <1>b, <2>1, Zenon DEF Push
    <3> QED BY <1>0, <1>b, <2>1, <3>1, Zenon DEF Update, TypeOK
  <2>2. CASE ~e.qclosed
    <3>1. Update(m, o, [e EXCEPT !.queue = Append(@, x)])
      BY <2>2, Zenon DEF Push
    <3> QED BY <1>1, <2>2, <3>1, Zenon DEF End
  <2> QED BY <2>1, <2>2, Zenon
<1>6. v \in Seq(Payloads)
  <2>1. e.queue \in Seq(Payloads)
    BY <1>1, Fields, Zenon
  <2> HIDE DEF e
  <2> QED BY <1>b, <2>1
<1>7. f \in End
  <2> HIDE DEF v, e
  <2>1. [e EXCEPT !.queue = v] \in End
    BY <1>1, <1>6, Zenon DEF End
  <2> QED BY <1>1, <2>1, Zenon
<1>8. /\ f.reader = e.reader /\ f.read = e.read
      /\ f.id = e.id /\ f.listed = e.listed /\ f.done = e.done /\ f.finished = e.finished /\ f.qclosed = e.qclosed
      /\ f.writer = e.writer /\ f.chunk = e.chunk /\ f.got = e.got
      /\ f.queue = (IF e.qclosed THEN e.queue ELSE v)
      /\ f.ready = e.ready /\ f.conn = e.conn
  <2> HIDE DEF v, e
  <2> QED BY <1>1, Zenon DEF End
<1>9. Started(e)
  BY <1>a, Holding, Zenon
<1>10. e.qclosed \/ Len(e.queue) < QueueLimit
  BY Zenon DEF Push
<1> HIDE DEF f
<1>11. e.qclosed => Held(f) = Held(e) /\ f.queue = e.queue
  BY <1>8, Zenon DEF Held
<1>12. ASSUME ~e.qclosed
       PROVE  /\ Held(f) = Held(e) + 1 /\ Len(f.queue) = Len(e.queue) + 1 /\ Len(e.queue) \in Nat
              /\ x = <<n, q, Held(e) + 1>> /\ Held(e) + 1 <= SentUpTo(p) /\ Ordered(n, q, e, p) /\ e.writer # "end"
                 => Ordered(n, q, f, p)
  <2>1. f.queue = Append(e.queue, x)
    BY <1>8, <1>12, Zenon
  <2>2. Len(e.queue) \in Nat
    BY <1>1, Lengths, Zenon
  <2> HIDE DEF e, p
  <2>3. /\ Held(f) = Held(e) + 1 /\ Len(f.queue) = Len(e.queue) + 1
        /\ x = <<n, q, Held(e) + 1>> /\ Held(e) + 1 <= SentUpTo(p) /\ Ordered(n, q, e, p) /\ e.writer # "end"
           => Ordered(n, q, f, p)
    BY <1>1, <1>8, <1>b, <2>1, PushOrdered, Zenon
  <2> QED BY <2>2, <2>3, Zenon
<1>13. Len(f.queue) <= QueueLimit
  <2>1. CASE e.qclosed
    BY <1>1, <1>11, <2>1, Zenon
  <2>2. CASE ~e.qclosed
    <3>1. Len(e.queue) < QueueLimit /\ Len(e.queue) \in Nat /\ Len(f.queue) = Len(e.queue) + 1
      BY <1>10, <1>12, <2>2, Zenon
    <3>2. QueueLimit \in Nat
      BY ZoneStreamsAssumption, Zenon
    <3> HIDE DEF e
    <3> QED BY <3>1, <3>2
  <2> QED BY <2>1, <2>2, Zenon
<1> HIDE DEF e, v
<1>14. Own(f)
  BY <1>1, <1>8, <1>9, Zenon DEF Own, Started
<1>15. SentUpTo(f) = SentUpTo(e) /\ SentUpTo(e) <= SentUpTo(e)
  BY <1>1, <1>8 DEF SentUpTo
<1>16. net' \in [Members -> Seq(Messages)] /\ \A k \in Members : net[k] \in Seq(Messages) /\ net'[k] = net[k]
  BY <1>0, <1>a, Zenon DEF TypeOK
<1>17. \A k \in Members : Within(net[k], net'[k], {"open", "accept"}) /\ Within(net[k], net'[k], {"data"})
  BY <1>16, Zenon DEF Within
<1>18. Flow(m, o, f)
  BY <1>3, <1>4, <1>5, <1>7, <1>8, <1>13, <1>14, <1>15, <1>16, <1>17, <1>a, Zenon DEF Flow, e
<1>19. \A k \in Members : Carrying(k)'
  BY <1>4, <1>17, <1>18, <1>b, FlowCarries, Zenon
<1>20. /\ TypeOK' /\ OwnInv' /\ ends'[m][o] = f
       /\ \A k \in Members, l \in Objects : k # m \/ l # o => ends'[k][l] = ends[k][l]
  BY <1>18, FlowKeeps, ZenonT(40)
<1>21. \A k \in Members, l \in Objects : Skips(net[k], net'[k], l)
  BY <1>16, SkipsSelf, Zenon
<1>22. \A l \in Objects : PushKept(n, l)
  BY <1>3, Zenon DEF PushKept, Pushing
<1>23. PushKept(m, q) /\ ~Pushing(m, o)'
  BY <1>2, <1>3, <1>n, Zenon DEF PushKept, Pushing
<1>24. \A k \in Members, l \in Objects : (k # m \/ l # o) /\ (k # n \/ l # q) =>
         PushKept(k, l) /\ (ws[k] = "up" => Skips(net[k], net'[k], Peer(l)))
  <2>1. \A l \in Objects : Peer(l) \in Objects
    BY Peers, Zenon
  <2>2. \A l \in Objects : l # o => PushKept(m, l)
    BY <1>23, <1>n, Zenon
  <2> QED BY <1>21, <1>22, <1>n, <2>1, <2>2, Zenon
<1>25. ASSUME Distinct PROVE Follows(n, q)'
  <2>1. Follows(n, q)
    BY <1>25, <1>n, Zenon DEF IInv, OrderInv
  <2>2. ReceivesSame(ends[n][q], ends'[n][q])
    BY <1>20, <1>n, Zenon DEF ReceivesSame
  <2>3. SendsSame(ends[Other(n)][Peer(q)], ends'[Other(n)][Peer(q)])
    BY <1>8, <1>15, <1>20, <1>n, Zenon DEF SendsSame, e
  <2>4. ws'[n] = "up" => ws[n] = "up" /\ Skips(net[n], net'[n], Peer(q))
    BY <1>21, <1>a, <1>b, <1>n, Zenon
  <2> QED BY <1>0, <1>20, <1>22, <1>n, <2>1, <2>2, <2>3, <2>4, FollowsKept, Zenon
<1>26. ASSUME Distinct PROVE Follows(m, o)'
  <2>1. Follows(m, o) /\ ends'[n][q] = p /\ ws' = ws /\ net' = net
    BY <1>20, <1>26, <1>a, <1>b, <1>n, Zenon DEF IInv, OrderInv
  <2>2. Ordered(n, q, e, p)
    BY <2>1, Zenon DEF Follows, e
  <2>3. CASE e.qclosed
    <3>1. Ordered(n, q, f, p)
      BY <1>8, <1>11, <2>2, <2>3, Zenon DEF Ordered
    <3>2. f.qclosed
      BY <1>8, <2>3, Zenon
    <3> QED BY <1>20, <1>n, <2>1, <3>1, <3>2, Zenon DEF Follows
  <2>4. CASE ~e.qclosed
    <3>1. e.writer # "end"
      BY <1>1, <2>4, Zenon DEF Own
    <3>2. Pushing(m, o) /\ x[3] = Held(e) + 1
      BY <1>a, <2>1, <2>4, Zenon DEF Follows, Pushing, e
    <3>3. x[2] = q /\ x[1] = n /\ x[3] <= SentUpTo(p)
      BY <1>26, <1>b, <1>n, Peers, Zenon DEF Comes
    <3>4. x = <<n, q, Held(e) + 1>>
      BY <1>b, <3>2, <3>3, Zenon
    <3>5. Ordered(n, q, f, p) /\ Held(f) = Held(e) + 1
      BY <1>12, <2>2, <2>4, <3>1, <3>2, <3>3, <3>4, Zenon
    <3>6. Taken(m, o)' = Held(f) /\ Taken(m, o) = Held(f)
      BY <1>20, <1>23, <3>2, <3>5, Zenon DEF Taken, e
    <3>7. ASSUME ws'[m] = "up"
          PROVE  /\ Linked(net'[m], q, Taken(m, o)')
                 /\ p.reader \in {"read", "send"} => SentUpTo(p) = Taken(m, o)' \/ Has(net'[m], q, SentUpTo(p))
      BY <2>1, <2>4, <3>6, <3>7, Zenon DEF Follows, e
    <3> QED BY <1>20, <1>23, <1>n, <2>1, <3>5, <3>7, Zenon DEF Follows
  <2> QED BY <2>3, <2>4, Zenon
<1> QED BY <1>18, <1>19, <1>24, <1>25, <1>26, <1>b, FlowOrder, Zenon

\* The read loop enqueues the payload it holds, or drops it.
LEMMA PushFlows ==
  ASSUME IInv, NEW m \in Members, Push(m)
  PROVE  IInv'
<1>1. serve[m].pc = "push"
  BY Zenon DEF Push
<1>2. serve[m].o \in Objects
  BY <1>1, Holding, Zenon
<1> QED BY <1>2, PushesFlows, Zenon

\* The end that a payload is meant for has started, under the sender's ID.
LEMMA Addressee ==
  ASSUME IInv, NEW m \in Members, NEW x, x[2] \in Objects, x[3] \in Nat, Comes(m, x, ends[Other(m)])
  PROVE  Started(ends[m][Peer(x[2])]) /\ ends[m][Peer(x[2])].id = ends[Other(m)][x[2]].id
<1> DEFINE n == Other(m)
           p == ends[n][x[2]]
<1>0. n \in Members /\ Other(n) = m /\ "out" \in Objects /\ "in" \in Objects
  BY Others, Zenon DEF Objects
<1>1. p \in End /\ Own(p)
  BY <1>0, Ends, Zenon
<1>2. SentUpTo(p) \in Nat /\ (SentUpTo(p) > 0 => Started(p)) /\ p.read \in Nat
  BY <1>1, SentNat, Fields, Zenon
<1>3. 1 <= x[3] /\ x[3] <= SentUpTo(p)
  BY Zenon DEF Comes
<1>4. Started(p) /\ p.reader # "off"
  <2> HIDE DEF p
  <2>1. SentUpTo(p) > 0
    BY <1>2, <1>3
  <2>2. p.reader = "off" => p.read = 0 /\ SentUpTo(p) = 0
    BY <1>1, Zenon DEF Own, SentUpTo
  <2> QED BY <1>2, <2>1, <2>2
<1>5. Opening(n) /\ Taking(n) /\ Taking(m)
  BY <1>0, Zenon DEF IInv, LifeInv
<1>6. CASE x[2] = "out"
  <2>1. Peer(x[2]) = "in"
    BY <1>6, Zenon DEF Peer
  <2>2. Started(ends[m]["in"])
    BY <1>0, <1>4, <1>5, <1>6, Zenon DEF Opening
  <2>3. ends[m]["in"].id = ends[n]["out"].id
    BY <1>5, <2>2, Zenon DEF Taking, Names
  <2> QED BY <1>6, <2>1, <2>2, <2>3, Zenon
<1>7. CASE x[2] = "in"
  <2>1. Peer(x[2]) = "out"
    BY <1>7, Zenon DEF Peer
  <2>2. p.id # 0 /\ p.id = ends[m]["out"].id
    BY <1>0, <1>4, <1>5, <1>7, Zenon DEF Taking, Names
  <2> QED BY <2>1, <2>2, Zenon DEF Started
<1> QED BY <1>6, <1>7, Zenon DEF Objects

\* Two streams with their own IDs are not mistaken for one another.
LEMMA Addressed ==
  ASSUME IInv, Distinct, NEW m \in Members, NEW o \in Objects, NEW r \in Objects,
         Started(ends[m][o]), ends[m][o].id = ends[Other(m)][r].id
  PROVE  o = Peer(r)
<1> DEFINE n == Other(m)
<1>0. n \in Members /\ Other(n) = m
  BY Others, Zenon
<1>1. ends[m]["out"].id # ends[n]["out"].id /\ Taking(m) /\ Taking(n)
  BY <1>0, Zenon DEF IInv, LifeInv, Distinct
<1>2. o # r
  <2>1. CASE o = "out"
    BY <1>1, <2>1, Zenon
  <2>2. CASE o = "in"
    <3>1. ends[m]["in"].id = ends[n]["out"].id
      BY <1>1, <2>2, Zenon DEF Taking, Names
    <3>2. Started(ends[n]["in"]) => ends[n]["in"].id = ends[m]["out"].id
      BY <1>0, <1>1, Zenon DEF Taking, Names
    <3>3. ASSUME r = "in" PROVE FALSE
      <4>1. Started(ends[n]["in"]) /\ ends[m]["in"].id = ends[n]["in"].id
        BY <2>2, <3>3, Zenon DEF Started
      <4> QED BY <1>1, <3>1, <3>2, <4>1, Zenon
    <3> QED BY <2>2, <3>3, Zenon
  <2> QED BY <2>1, <2>2, Zenon DEF Objects
<1> QED BY <1>2, Peers, Zenon

\* DATA is taken: x is the message and r the end that has read its payload.
LEMMA TakesFlows ==
  ASSUME IInv, NEW m \in Members, ReceiveData(m), NEW x, x = Head(net[m]), NEW r \in Objects, r = x.payload[2]
  PROVE  IInv'
<1> DEFINE o == Peer(r)
           e == ends[m][o]
           n == Other(m)
           p == ends[n][r]
           y == x.payload
<1>0. TypeOK /\ OwnInv /\ CarryInv
  BY Zenon DEF IInv
<1>n. n \in Members /\ o \in Objects /\ n # m /\ r # o /\ Other(n) = m /\ Peer(o) = r /\ Members = {m, n} /\ Objects = {o, r}
  BY Others, Peers, Zenon
<1>1. /\ serve[m].pc = "read" /\ ws[m] = "up" /\ net[m] # <<>> /\ x.op = "data" /\ net' = Rest(m)
      /\ UNCHANGED <<plan, ends, next, handler, ws, peers, allowed>>
  BY Zenon DEF ReceiveData, Take
<1>2. net[m] \in Seq(Messages) /\ net[n] \in Seq(Messages) /\ net'[m] = Tail(net[m]) /\ net'[n] = net[n]
  BY <1>0, <1>1, <1>n, Zenon DEF TypeOK, Rest
<1>3. /\ net'[m] \in Seq(Messages) /\ 1 \in DOMAIN net[m] /\ net[m][1] = x
      /\ \A i \in DOMAIN net'[m] : \E j \in DOMAIN net[m] : net[m][j] = net'[m][i]
  BY <1>1, <1>2, TailFrom, Zenon
<1>4. net' \in [Members -> Seq(Messages)]
  <2>1. Tail(net[m]) \in Seq(Messages)
    BY <1>2, <1>3, Zenon
  <2> QED BY <1>0, <1>1, <2>1, Zenon DEF TypeOK, Rest
<1>5. \A k \in Members : Within(net[k], net'[k], {"open", "accept"}) /\ Within(net[k], net'[k], {"data"})
  <2>1. Within(net[m], net'[m], {"open", "accept"}) /\ Within(net[m], net'[m], {"data"})
    BY <1>3, Zenon DEF Within
  <2>2. Within(net[n], net'[n], {"open", "accept"}) /\ Within(net[n], net'[n], {"data"})
    BY <1>2, Zenon DEF Within
  <2> QED BY <1>n, <2>1, <2>2, Zenon
<1>6. y \in Payloads /\ x.id \in 0..MaxId /\ Number(x) \in Nat
  BY <1>1, <1>2, <1>3, Numbers, Zenon
<1>7. y[2] = r /\ y[3] \in Nat /\ Comes(m, y, ends[n]) /\ x.id = p.id
  <2>1. Comes(m, y, ends[n]) /\ x.id = ends[n][y[2]].id
    BY <1>0, <1>1, <1>3, Zenon DEF CarryInv, Carrying
  <2> QED BY <1>6, <2>1, Zenon DEF Number
<1>8. Started(e) /\ e.id = x.id
  BY <1>7, Addressee, Zenon
<1>9. \/ serve' = serve /\ (Listed(m, x.id) = {} \/ ~peers[m])
      \/ \E l \in Listed(m, x.id) : serve' = [serve EXCEPT ![m] = [pc |-> "push", o |-> l, payload |-> y]]
  BY <1>1, Zenon DEF ReceiveData
<1>10. \A l \in Listed(m, x.id) :
         /\ l \in Objects /\ Started(ends[m][l]) /\ ends[m][l].id = p.id /\ (Distinct => l = o)
         /\ [pc |-> "push", o |-> l, payload |-> y] \in Tasks
  <2> SUFFICES ASSUME NEW l \in Listed(m, x.id)
               PROVE  /\ l \in Objects /\ Started(ends[m][l]) /\ ends[m][l].id = p.id /\ (Distinct => l = o)
                      /\ [pc |-> "push", o |-> l, payload |-> y] \in Tasks
    BY Zenon
  <2>1. l \in Objects /\ ends[m][l].listed /\ ends[m][l].id = p.id
    BY <1>7, Zenon DEF Listed
  <2>2. Started(ends[m][l])
    BY <1>0, <2>1, Zenon DEF OwnInv, Own
  <2>3. Distinct => l = o
    BY <2>1, <2>2, Addressed, Zenon
  <2>4. [pc |-> "push", o |-> l, payload |-> y] \in Tasks
    <3> HIDE DEF y
    <3> QED BY <1>6, <2>1, Zenon DEF Tasks
  <2> QED BY <2>1, <2>2, <2>3, <2>4, Zenon
<1>11. /\ serve' \in [Members -> Tasks] /\ serve'[n] = serve[n]
       /\ \/ serve'[m] = serve[m] /\ (Listed(m, x.id) = {} \/ ~peers[m])
          \/ serve'[m].pc = "push" /\ serve'[m].o \in Listed(m, x.id) /\ serve'[m].payload = y
  <2>1. CASE serve' = serve /\ (Listed(m, x.id) = {} \/ ~peers[m])
    BY <1>0, <2>1, Zenon DEF TypeOK
  <2>2. ASSUME NEW l \in Listed(m, x.id), serve' = [serve EXCEPT ![m] = [pc |-> "push", o |-> l, payload |-> y]]
        PROVE  /\ serve' \in [Members -> Tasks] /\ serve'[n] = serve[n]
               /\ serve'[m].pc = "push" /\ serve'[m].o = l /\ serve'[m].payload = y
    <3> DEFINE t == [pc |-> "push", o |-> l, payload |-> y]
    <3>1. t \in Tasks /\ t.pc = "push" /\ t.o = l /\ t.payload = y
      BY <1>10, Zenon
    <3> HIDE DEF t
    <3>2. serve' \in [Members -> Tasks] /\ serve'[n] = serve[n] /\ serve'[m] = t
      BY <1>0, <1>n, <2>2, <3>1, Zenon DEF TypeOK, t
    <3> QED BY <3>1, <3>2, Zenon
  <2> QED BY <1>9, <2>1, <2>2, Zenon
<1>12. \A k \in Members : DialStep(k)
  <2>1. Taking(n) /\ Taking(m)
    BY <1>n, Zenon DEF IInv, LifeInv
  <2>2. DialStep(n)
    BY <1>1, <1>11, <2>1, Zenon DEF DialStep, RemoteStep, Taking
  <2>3. DialStep(m)
    <3>1. serve'[m].pc # "dial" /\ serve'[m].pc # "remote"
      BY <1>1, <1>11, Zenon
    <3> QED BY <3>1, Zenon DEF DialStep, RemoteStep
  <2> QED BY <1>n, <2>2, <2>3, Zenon
<1>13. e \in End /\ Own(e) /\ Len(e.queue) <= QueueLimit /\ SentUpTo(e) \in Nat /\ Held(e) \in Nat
  BY <1>0, <1>n, Ends, SentNat, Lengths, Zenon DEF TypeOK
<1>14. SentUpTo(e) <= SentUpTo(e)
  BY <1>13, Reflexive, Zenon
<1>15. Update(m, o, e)
  BY <1>0, <1>1, <1>n, Zenon DEF Update, TypeOK
<1>16. Flow(m, o, e)
  BY <1>1, <1>4, <1>5, <1>11, <1>12, <1>13, <1>14, <1>15, Zenon DEF Flow
<1>17. /\ TypeOK' /\ OwnInv' /\ Distinct' = Distinct
  BY <1>16, <1>n, FlowKeeps, Zenon
<1>18. Carrying(n)'
  BY <1>5, <1>11, <1>16, <1>n, FlowCarries, Zenon
<1>19. Carrying(m)'
  <2>1. ASSUME NEW i \in DOMAIN net'[m], net'[m][i].op = "data"
        PROVE  Comes(m, net'[m][i].payload, ends'[n]) /\ net'[m][i].id = ends'[n][net'[m][i].payload[2]].id
    <3>1. PICK j \in DOMAIN net[m] : net[m][j] = net'[m][i]
      BY <1>3, <2>1, Zenon
    <3>2. net[m][j].op = "data"
      BY <2>1, <3>1, Zenon
    <3>3. Comes(m, net[m][j].payload, ends[n]) /\ net[m][j].id = ends[n][net[m][j].payload[2]].id
      BY <1>0, <3>2, Zenon DEF CarryInv, Carrying
    <3> QED BY <1>1, <3>1, <3>3, Zenon
  <2>2. ASSUME serve'[m].pc = "push"
        PROVE  /\ Comes(m, serve'[m].payload, ends'[n]) /\ Started(ends'[m][serve'[m].o])
               /\ Distinct' => serve'[m].o = Peer(serve'[m].payload[2])
    <3>1. serve'[m].o \in Listed(m, x.id) /\ serve'[m].payload = y
      BY <1>1, <1>11, <2>2, Zenon
    <3> QED BY <1>1, <1>7, <1>10, <1>17, <3>1, Zenon
  <2> QED BY <2>1, <2>2, Zenon DEF Carrying
<1>20. \A l \in Objects : PushKept(n, l)
  BY <1>11, Zenon DEF PushKept, Pushing
<1>21. Skips(net[m], net'[m], o) /\ \A l \in Objects : Skips(net[n], net'[n], l)
  <2>1. Head(net[m]).payload[2] # o
    BY <1>7, <1>n, Zenon
  <2>2. Skips(net[m], Tail(net[m]), o)
    BY <1>1, <1>2, <2>1, SkipsTail, Zenon
  <2> QED BY <1>2, <2>2, SkipsSelf, Zenon
<1>22. Distinct => PushKept(m, r)
  <2>1. ASSUME Distinct PROVE ~Pushing(m, r) /\ ~Pushing(m, r)'
    BY <1>1, <1>10, <1>11, <1>n, <2>1, Zenon DEF Pushing
  <2> QED BY <2>1, Zenon DEF PushKept
<1>23. Distinct => \A k \in Members, l \in Objects : (k # m \/ l # o) /\ (k # n \/ l # r) =>
         PushKept(k, l) /\ (ws[k] = "up" => Skips(net[k], net'[k], Peer(l)))
  <2> SUFFICES ASSUME Distinct, NEW k \in Members, NEW l \in Objects, (k # m \/ l # o) /\ (k # n \/ l # r)
               PROVE  PushKept(k, l) /\ Skips(net[k], net'[k], Peer(l))
    BY Zenon
  <2>1. (k = m /\ l = r) \/ (k = n /\ l = o)
    BY <1>n, Zenon
  <2> QED BY <1>20, <1>21, <1>22, <1>n, <2>1, Zenon
<1>24. ASSUME Distinct PROVE Follows(n, r)'
  <2>1. Follows(n, r)
    BY <1>24, <1>n, Zenon DEF IInv, OrderInv
  <2>2. ReceivesSame(ends[n][r], ends'[n][r])
    BY <1>1, Zenon DEF ReceivesSame
  <2>3. SendsSame(ends[Other(n)][Peer(r)], ends'[Other(n)][Peer(r)])
    BY <1>1, <1>14, <1>n, Zenon DEF SendsSame
  <2>4. ws'[n] = "up" => ws[n] = "up" /\ Skips(net[n], net'[n], Peer(r))
    BY <1>1, <1>21, <1>n, Zenon
  <2> QED BY <1>0, <1>17, <1>20, <1>n, <2>1, <2>2, <2>3, <2>4, FollowsKept, Zenon
<1>25. ASSUME Distinct PROVE Follows(m, o)'
  <2>1. Follows(m, o) /\ ~Pushing(m, o)
    BY <1>1, <1>25, <1>n, Zenon DEF IInv, OrderInv, Pushing
  <2>2. Ordered(n, r, e, p) /\ ends'[m][o] = e /\ ends'[n][r] = p /\ ws' = ws
    BY <1>1, <1>n, <2>1, Zenon DEF Follows
  <2>3. CASE e.qclosed
    BY <1>n, <2>2, <2>3, Zenon DEF Follows
  <2>4. CASE ~e.qclosed
    <3>1. e.listed /\ peers[m]
      <4>1. e.listed
        BY <1>8, <1>13, <2>4, Zenon DEF Own
      <4>2. Taking(m)
        BY Zenon DEF IInv, LifeInv
      <4> QED BY <1>n, <4>1, <4>2, Zenon DEF Taking
    <3>2. o \in Listed(m, x.id)
      BY <1>8, <1>n, <3>1, Zenon DEF Listed
    <3>3. serve'[m].pc = "push" /\ serve'[m].o = o /\ serve'[m].payload = y
      BY <1>10, <1>11, <1>25, <3>1, <3>2, Zenon
    <3>4. Pushing(m, o)' /\ Taken(m, o)' = Held(e) + 1 /\ Taken(m, o) = Held(e)
      BY <2>1, <2>2, <3>3, Zenon DEF Pushing, Taken
    <3>5. Linked(net[m], r, Held(e)) /\ (p.reader \in {"read", "send"} => SentUpTo(p) = Held(e) \/ Has(net[m], r, SentUpTo(p)))
      BY <1>1, <1>n, <2>1, <2>4, <3>4, Zenon DEF Follows
    <3>6. Carries(net[m], 1, r)
      BY <1>1, <1>3, <1>7, Zenon DEF Carries
    <3>7. /\ Number(net[m][1]) = Held(e) + 1 /\ Linked(Tail(net[m]), r, Held(e) + 1)
          /\ \A k : k # Held(e) + 1 /\ Has(net[m], r, k) => Has(Tail(net[m]), r, k)
      BY <1>1, <1>2, <1>13, <3>5, <3>6, LinkedTaken, Zenon
    <3>8. y[3] = Held(e) + 1
      BY <1>3, <3>7, Zenon DEF Number
    <3>9. SentUpTo(p) # Held(e)
      <4>1. Held(e) + 1 <= SentUpTo(p)
        BY <1>7, <3>8, Zenon DEF Comes
      <4>2. \A i \in Nat : ~(i + 1 <= i)
        OBVIOUS
      <4> QED BY <1>13, <4>1, <4>2, Zenon
    <3>10. p.reader \in {"read", "send"} => SentUpTo(p) = Held(e) + 1 \/ Has(net'[m], r, SentUpTo(p))
      BY <1>2, <3>5, <3>7, <3>9, Zenon
    <3> QED BY <1>2, <1>n, <2>2, <3>3, <3>4, <3>7, <3>8, <3>10, Zenon DEF Follows
  <2> QED BY <2>3, <2>4, Zenon
<1>26. \A k \in Members : Carrying(k)'
  BY <1>18, <1>19, <1>n, Zenon
<1>27. Distinct => Follows(m, o)' /\ Follows(Other(m), Peer(o))'
  BY <1>24, <1>25, <1>n, Zenon
<1>28. Distinct => \A k \in Members, l \in Objects : (k # m \/ l # o) /\ (k # Other(m) \/ l # Peer(o)) =>
         PushKept(k, l) /\ (ws[k] = "up" => Skips(net[k], net'[k], Peer(l)))
  BY <1>23, <1>n, Zenon
<1>29. o \in Objects
  BY <1>n, Zenon
<1> HIDE DEF o, e
<1> QED BY <1>16, <1>26, <1>27, <1>28, <1>29, FlowOrder, Zenon

\* DATA is taken for the stream it names, or dropped.
LEMMA ReceiveDataFlows ==
  ASSUME IInv, NEW m \in Members, ReceiveData(m)
  PROVE  IInv'
<1> DEFINE w == net[m]
<1>1. w \in Seq(Messages) /\ w # <<>> /\ Head(w).op = "data"
  BY Zenon DEF IInv, TypeOK, ReceiveData, Take
<1>2. 1 \in DOMAIN w /\ w[1] = Head(w)
  <2> HIDE DEF w
  <2> QED BY <1>1
<1>3. Head(w).payload \in Payloads
  BY <1>1, <1>2, Numbers, Zenon
<1>4. Head(w).payload[2] \in Objects
  BY <1>3, Zenon DEF Payloads
<1> QED BY <1>4, TakesFlows, Zenon

-----------------------------------------------------------------------------
(* Streams begin: an end gets its ID, or its loops start.                  *)

Begins(e, f) ==
  /\ Started(e) => f.id = e.id
  /\ f.read = e.read /\ f.got = e.got /\ f.chunk = e.chunk /\ f.queue = e.queue /\ (e.qclosed => f.qclosed)
  /\ f.writer = e.writer \/ (e.writer = "off" /\ f.writer = "pop")
  /\ f.reader = e.reader \/ (e.reader = "off" /\ f.reader = "read")

\* It has sent nothing more.
LEMMA BeginSent ==
  ASSUME NEW e, NEW f, Begins(e, f)
  PROVE  SentUpTo(f) = SentUpTo(e) /\ Held(f) = Held(e)
<1>1. f.reader = "send" <=> e.reader = "send"
  BY Zenon DEF Begins
<1> QED BY <1>1, Zenon DEF Begins, SentUpTo, Held

\* The directions stay in order.
LEMMA BeginFollows ==
  ASSUME IInv, TypeOK', OwnInv', Distinct, ws' = ws, NEW m \in Members, NEW o \in Objects, NEW f, Begins(ends[m][o], f),
         ends'[m][o] = f, \A k \in Members, l \in Objects : k # m \/ l # o => ends'[k][l] = ends[k][l],
         \A k \in Members, l \in Objects : PushKept(k, l) /\ (ws[k] = "up" => Skips(net[k], net'[k], Peer(l))),
         NEW k \in Members, NEW l \in Objects
  PROVE  Follows(k, l)'
<1> DEFINE e == ends[k][l]
           g == ends'[k][l]
           n == Other(k)
           q == Peer(l)
           p == ends[n][q]
           r == ends'[n][q]
<1>0. TypeOK /\ OwnInv /\ Follows(k, l)
  BY Zenon DEF IInv, OrderInv
<1>n. n \in Members /\ q \in Objects /\ n # k /\ q # l /\ Other(n) = k /\ Peer(q) = l
  BY Others, Peers, Zenon
<1>1. e \in End /\ Own(e) /\ p \in End /\ Own(p) /\ Held(e) \in Nat /\ SentUpTo(p) \in Nat
  BY <1>n, Ends, Lengths, SentNat, Zenon
<1>2. Begins(e, g) /\ Begins(p, r)
  <2>1. \A x : Begins(x, x)
    BY Zenon DEF Begins
  <2>2. Begins(e, g)
    BY <2>1, Zenon
  <2>3. Begins(p, r)
    BY <1>n, <2>1, Zenon
  <2> QED BY <2>2, <2>3, Zenon
<1>3. Held(g) = Held(e) /\ SentUpTo(r) = SentUpTo(p)
  BY <1>2, BeginSent, Zenon
<1> HIDE DEF e, g, p, r
<1>4. Ordered(n, q, e, p)
  BY <1>0, Zenon DEF Follows, e, p
<1>5. Ordered(n, q, g, r)
  <2>1. /\ g.writer = "write" => e.writer = "write"
        /\ g.writer # "end" => e.writer # "end"
    BY <1>2, Zenon DEF Begins
  <2>2. g.got = e.got /\ g.chunk = e.chunk /\ g.queue = e.queue
    BY <1>2, Zenon DEF Begins
  <2> QED BY <1>3, <1>4, <2>1, <2>2, Zenon DEF Ordered
<1>6. (Pushing(k, l)' <=> Pushing(k, l)) /\ (Pushing(k, l) => serve'[k] = serve[k])
  BY Zenon DEF PushKept
<1>7. Taken(k, l)' = Taken(k, l)
  BY <1>3, <1>6, Zenon DEF Taken, e, g
<1>8. ~g.qclosed => ~e.qclosed
  BY <1>2, Zenon DEF Begins
<1>9. ~g.qclosed /\ Pushing(k, l)' => serve'[k].payload[3] = Held(g) + 1
  BY <1>0, <1>3, <1>6, <1>8, Zenon DEF Follows, e
<1>10. ASSUME ~g.qclosed, ws'[k] = "up"
       PROVE  /\ Linked(net'[k], q, Taken(k, l)')
              /\ r.reader \in {"read", "send"} => SentUpTo(r) = Taken(k, l)' \/ Has(net'[k], q, SentUpTo(r))
  <2>1. net[k] \in Seq(Messages) /\ net'[k] \in Seq(Messages) /\ ws[k] = "up"
    BY <1>0, <1>10, Zenon DEF TypeOK
  <2>2. /\ \A i : Has(net[k], q, i) => Has(net'[k], q, i)
        /\ \A i : Linked(net[k], q, i) => Linked(net'[k], q, i)
    <3>1. Skips(net[k], net'[k], q)
      BY <2>1, Zenon
    <3> QED BY <2>1, <3>1, SkipsKeeps, Zenon
  <2>3. /\ Linked(net[k], q, Taken(k, l))
        /\ p.reader \in {"read", "send"} => SentUpTo(p) = Taken(k, l) \/ Has(net[k], q, SentUpTo(p))
    BY <1>0, <1>8, <1>10, <2>1, Zenon DEF Follows, e, p
  <2>4. ASSUME p.reader = "off" PROVE SentUpTo(p) = Taken(k, l)
    <3>1. SentUpTo(p) = 0
      BY <1>1, <2>4, Zenon DEF Own, SentUpTo
    <3>2. e.writer # "end"
      BY <1>1, <1>8, <1>10, Zenon DEF Own
    <3>3. Held(e) <= SentUpTo(p)
      BY <1>4, <3>2, Zenon DEF Ordered
    <3>4. Held(e) = 0
      BY <1>1, <3>1, <3>3
    <3>5. ~Pushing(k, l)
      <4>1. SUFFICES ASSUME Pushing(k, l) PROVE FALSE
        BY Zenon
      <4>2. serve[k].pc = "push" /\ serve[k].o = l
        BY <4>1, Zenon DEF Pushing
      <4>3. serve[k].payload[2] \in Objects /\ Comes(k, serve[k].payload, ends[n]) /\ l = Peer(serve[k].payload[2]) /\ serve[k].payload[3] \in Nat
        BY <4>2, Holding, Zenon
      <4>4. serve[k].payload[2] = q
        BY <4>3, Peers, Zenon
      <4>5. 1 <= serve[k].payload[3] /\ serve[k].payload[3] <= SentUpTo(p)
        BY <4>3, <4>4, Zenon DEF Comes, p
      <4> QED BY <3>1, <4>3, <4>5
    <3> QED BY <3>1, <3>4, <3>5, Zenon DEF Taken, e
  <2>5. r.reader \in {"read", "send"} => p.reader \in {"read", "send"} \/ p.reader = "off"
    BY <1>2, Zenon DEF Begins
  <2> QED BY <1>3, <1>7, <2>2, <2>3, <2>4, <2>5, Zenon
<1> QED BY <1>5, <1>9, <1>10, Zenon DEF Follows, g, r

\* If nothing has started there is nothing to order.
LEMMA BlankFollows ==
  ASSUME IInv, TypeOK', OwnInv', CarryInv', NEW k \in Members, NEW l \in Objects, PushKept(k, l),
         \A n \in Members, q \in Objects : ~Started(ends[n][q]),
         \A n \in Members, q \in Objects :
           /\ ends'[n][q].got = ends[n][q].got /\ ends'[n][q].chunk = ends[n][q].chunk
           /\ ends'[n][q].queue = ends[n][q].queue /\ ends'[n][q].reader = "off" /\ ends'[n][q].writer # "write"
  PROVE  Follows(k, l)'
<1> DEFINE g == ends'[k][l]
           n == Other(k)
           q == Peer(l)
           r == ends'[n][q]
<1>n. n \in Members /\ q \in Objects
  BY Others, Peers, Zenon
<1>1. \A i \in Members, j \in Objects : SentUpTo(ends'[i][j]) = 0
  <2> SUFFICES ASSUME NEW i \in Members, NEW j \in Objects PROVE SentUpTo(ends'[i][j]) = 0
    BY Zenon
  <2> DEFINE x == ends'[i][j]
  <2>1. Own(x) /\ x.reader = "off"
    BY Zenon DEF OwnInv
  <2> HIDE DEF x
  <2>2. SentUpTo(x) = 0
    BY <2>1, Zenon DEF Own, SentUpTo
  <2> QED BY <2>2, Zenon DEF x
<1>2. g.got = <<>> /\ g.chunk = <<>> /\ g.queue = <<>> /\ g.writer # "write"
  <2> DEFINE x == ends[k][l]
  <2>1. Own(x) /\ ~Started(x)
    BY Zenon DEF IInv, OwnInv
  <2>2. g.got = x.got /\ g.chunk = x.chunk /\ g.queue = x.queue /\ g.writer # "write"
    BY Zenon
  <2> HIDE DEF x, g
  <2>3. x.got = <<>> /\ x.chunk = <<>> /\ x.queue = <<>>
    BY <2>1, Zenon DEF Own
  <2> QED BY <2>2, <2>3, Zenon
<1>3. Held(g) = 0 /\ Len(g.got) = 0 /\ DOMAIN g.got = {} /\ DOMAIN g.queue = {}
  <2> HIDE DEF g
  <2> QED BY <1>2 DEF Held
<1>4. Ordered(n, q, g, r)
  <2>1. SentUpTo(r) = 0 /\ 0 <= 0
    BY <1>1, <1>n
  <2> QED BY <1>2, <1>3, <2>1, Zenon DEF Ordered
<1>5. ~Pushing(k, l)'
  <2>1. SUFFICES ASSUME Pushing(k, l) PROVE FALSE
    BY Zenon DEF PushKept
  <2>2. serve[k].pc = "push"
    BY <2>1, Zenon DEF Pushing
  <2>3. serve[k].o \in Objects /\ Started(ends[k][serve[k].o])
    BY <2>2, Holding, Zenon
  <2> QED BY <2>3, Zenon
<1>6. Taken(k, l)' = 0
  BY <1>3, <1>5, Zenon DEF Taken
<1>7. \A i \in DOMAIN net'[k] : ~Carries(net'[k], i, q)
  <2> SUFFICES ASSUME NEW i \in DOMAIN net'[k], Carries(net'[k], i, q) PROVE FALSE
    BY Zenon
  <2> DEFINE x == net'[k][i].payload
  <2>1. net'[k][i].op = "data" /\ x[2] = q
    BY Zenon DEF Carries
  <2>2. Comes(k, x, ends'[n])
    BY <2>1, Zenon DEF CarryInv, Carrying
  <2>3. 1 <= x[3] /\ x[3] <= 0
    BY <1>1, <1>n, <2>1, <2>2, Zenon DEF Comes
  <2>4. x[3] \in Nat
    <3>1. net'[k] \in Seq(Messages)
      BY Zenon DEF TypeOK
    <3> QED BY <2>1, <3>1, Numbers, Zenon DEF Number
  <2> HIDE DEF x
  <2> QED BY <2>3, <2>4
<1>8. Linked(net'[k], q, 0)
  BY <1>7, Zenon DEF Linked
<1>9. r.reader \notin {"read", "send"}
  <2>1. r.reader = "off"
    BY <1>n, Zenon
  <2> QED BY <2>1, Zenon
<1> QED BY <1>4, <1>5, <1>6, <1>8, <1>9, Zenon DEF Follows

\* A stream begins, or its loops start; its life is looked at for each action.
LEMMA BeginStep ==
  ASSUME IInv, NEW m \in Members, NEW o \in Objects, NEW f \in End, Own(f), Begins(ends[m][o], f), Update(m, o, f),
         UNCHANGED <<plan, ws, peers, allowed>>, next' \in [Members -> 0..MaxId],
         handler' \in [Members -> {"idle", "wait", "attach", "reply", "hold", "done"}], serve' \in [Members -> Tasks],
         \A k \in Members : PushSame(k),
         net' \in [Members -> Seq(Messages)], \A k \in Members : Within(net[k], net'[k], {"data"}),
         \A k \in Members, l \in Objects : ws[k] = "up" => Skips(net[k], net'[k], l),
         LifeInv', Distinct' => Distinct \/ (f.reader = "off" /\ \A k \in Members, l \in Objects : ~Started(ends[k][l]))
  PROVE  IInv'
<1>0. TypeOK /\ OwnInv /\ CarryInv
  BY Zenon DEF IInv
<1>1. /\ ends' \in [Members -> [Objects -> End]] /\ ends'[m][o] = f
      /\ \A k \in Members, l \in Objects : k # m \/ l # o => ends'[k][l] = ends[k][l]
  <2>1. ends \in [Members -> [Objects -> End]]
    BY <1>0, Zenon DEF TypeOK
  <2> QED BY <2>1, Updated, Zenon
<1>2. TypeOK'
  <2>1. \A k \in Members, l \in Objects : Len(ends'[k][l].queue) <= QueueLimit
    BY <1>0, <1>1, Zenon DEF TypeOK, Begins
  <2> QED BY <1>0, <1>1, <2>1, Zenon DEF TypeOK
<1>3. OwnInv'
  BY <1>0, <1>1, Zenon DEF OwnInv
<1>4. \A k \in Members, l \in Objects : PushKept(k, l) /\ (serve'[k].pc = "push" => serve'[k] = serve[k])
  BY Zenon DEF PushKept, PushSame, Pushing
<1>5. CarryInv'
  <2>1. \A k \in Members, l \in Objects : Started(ends[k][l]) => ends'[k][l].id = ends[k][l].id
    BY <1>1, Zenon DEF Begins
  <2>2. \A k \in Members, l \in Objects : SentUpTo(ends[k][l]) <= SentUpTo(ends'[k][l])
    <3> SUFFICES ASSUME NEW k \in Members, NEW l \in Objects PROVE SentUpTo(ends[k][l]) <= SentUpTo(ends'[k][l])
      BY Zenon
    <3>1. SentUpTo(ends'[k][l]) = SentUpTo(ends[k][l])
      BY <1>1, BeginSent, Zenon
    <3>2. SentUpTo(ends[k][l]) \in Nat
      BY Ends, SentNat, Zenon
    <3>3. SentUpTo(ends[k][l]) <= SentUpTo(ends[k][l])
      BY <3>2
    <3> QED BY <3>1, <3>3, Zenon
  <2>3. Distinct' => Distinct \/ \A k \in Members, l \in Objects : ~Started(ends[k][l])
    BY Zenon
  <2>4. \A k \in Members : \A i \in DOMAIN net'[k] : net'[k][i].op = "data" => \E j \in DOMAIN net[k] : net[k][j] = net'[k][i]
    BY Zenon DEF Within
  <2>5. ASSUME NEW k \in Members PROVE Carrying(k)'
    <3>1. serve'[k].pc = "push" => serve'[k] = serve[k]
      BY Zenon DEF PushSame
    <3> QED BY <1>0, <1>2, <1>3, <2>1, <2>2, <2>3, <2>4, <3>1, CarryKept, Zenon
  <2> QED BY <2>5, Zenon DEF CarryInv
<1>6. ASSUME Distinct', NEW k \in Members, NEW l \in Objects PROVE Follows(k, l)'
  <2>1. CASE Distinct
    <3>1. \A i \in Members, j \in Objects : PushKept(i, j) /\ (ws[i] = "up" => Skips(net[i], net'[i], Peer(j)))
      BY <1>4, Peers, Zenon
    <3> QED BY <1>1, <1>2, <1>3, <2>1, <3>1, BeginFollows, Zenon
  <2>2. CASE f.reader = "off" /\ \A i \in Members, j \in Objects : ~Started(ends[i][j])
    <3>1. ASSUME NEW i \in Members, NEW j \in Objects
          PROVE  /\ ends'[i][j].got = ends[i][j].got /\ ends'[i][j].chunk = ends[i][j].chunk
                 /\ ends'[i][j].queue = ends[i][j].queue /\ ends'[i][j].reader = "off" /\ ends'[i][j].writer # "write"
      <4>1. ends[i][j].reader = "off" /\ ends[i][j].writer # "write"
        <5>1. Own(ends[i][j]) /\ ~Started(ends[i][j])
          BY <1>0, <2>2, Zenon DEF OwnInv
        <5> QED BY <5>1, Zenon DEF Own
      <4>2. CASE i = m /\ j = o
        <5>1. f.writer # "write"
          BY <4>1, <4>2, Zenon DEF Begins
        <5> QED BY <1>1, <2>2, <4>2, <5>1, Zenon DEF Begins
      <4>3. CASE i # m \/ j # o
        BY <1>1, <4>1, <4>3, Zenon
      <4> QED BY <4>2, <4>3, Zenon
    <3> QED BY <1>2, <1>3, <1>4, <1>5, <2>2, <3>1, BlankFollows, Zenon
  <2> QED BY <1>6, <2>1, <2>2, Zenon
<1> QED BY <1>2, <1>3, <1>5, <1>6, Zenon DEF IInv, OrderInv

\* A message of a member goes out: nobody's data changes.
LEMMA SentOther ==
  ASSUME TypeOK, NEW m \in Members, NEW x \in Messages, x.op # "data", net' = Sent(m, x) \/ net' = net
  PROVE  /\ net' \in [Members -> Seq(Messages)] /\ net'[m] = net[m]
         /\ \A k \in Members : Within(net[k], net'[k], {"data"})
         /\ \A k \in Members, l \in Objects : Skips(net[k], net'[k], l)
         /\ \A i \in DOMAIN net'[Other(m)] : net'[Other(m)][i] = x \/ \E j \in DOMAIN net[Other(m)] : net[Other(m)][j] = net'[Other(m)][i]
<1> DEFINE n == Other(m)
<1>n. n \in Members /\ n # m /\ Members = {m, n}
  BY Others, Zenon
<1>1. net[m] \in Seq(Messages) /\ net[n] \in Seq(Messages) /\ Append(net[n], x) \in Seq(Messages)
  BY <1>n DEF TypeOK
<1>2. /\ net' \in [Members -> Seq(Messages)] /\ net'[m] = net[m]
      /\ net'[n] = net[n] \/ net'[n] = Append(net[n], x)
  <2>1. net \in [Members -> Seq(Messages)]
    BY Zenon DEF TypeOK
  <2>2. net' = net \/ net' = [net EXCEPT ![n] = Append(net[n], x)]
    BY Zenon DEF Sent
  <2>3. CASE net' = net
    BY <2>1, <2>3, Zenon
  <2>4. CASE net' = [net EXCEPT ![n] = Append(net[n], x)]
    BY <1>1, <1>n, <2>1, <2>4, Zenon
  <2> QED BY <2>2, <2>3, <2>4, Zenon
<1>3. \A i \in DOMAIN net'[n] : net'[n][i] = x \/ \E j \in DOMAIN net[n] : net[n][j] = net'[n][i]
  <2>1. CASE net'[n] = net[n]
    BY <2>1, Zenon
  <2>2. CASE net'[n] = Append(net[n], x)
    BY <1>1, <2>2, AppendFrom
  <2> QED BY <1>2, <2>1, <2>2, Zenon
<1>4. \A l \in Objects : Skips(net[n], net'[n], l) /\ Skips(net[m], net'[m], l)
  BY <1>1, <1>2, SkipsSelf, SkipsAppend, Zenon
<1>5. Within(net[m], net'[m], {"data"}) /\ Within(net[n], net'[n], {"data"})
  <2>1. Within(net[m], net'[m], {"data"})
    BY <1>2, Zenon DEF Within
  <2>2. Within(net[n], net'[n], {"data"})
    BY <1>3, Zenon DEF Within
  <2> QED BY <2>1, <2>2, Zenon
<1> QED BY <1>2, <1>3, <1>4, <1>5, <1>n, Zenon

\* attach, when an accepted stream gets its client.
LEMMA AttachBegins ==
  ASSUME IInv, NEW m \in Members, Attach(m)
  PROVE  IInv'
<1> DEFINE e == ends[m]["out"]
           f == Attached(e)
           n == Other(m)
<1>0. TypeOK /\ LifeInv /\ "out" \in Objects /\ "in" \in Objects
  BY OutIn, Zenon DEF IInv
<1>n. n \in Members /\ n # m /\ Other(n) = m /\ Members = {m, n}
  BY Others, Zenon
<1>1. e \in End /\ Own(e)
  BY <1>0, Ends, Zenon
<1>2. handler[m] = "attach" /\ Update(m, "out", f) /\ UNCHANGED <<plan, next, serve, ws, peers, allowed, net>>
  BY Zenon DEF Attach
<1>3. Started(e) /\ e.reader = "off" /\ e.writer = "off" /\ Started(ends[n]["in"])
  BY <1>0, <1>2, Zenon DEF LifeInv, Opening
<1>4. f \in End
  BY <1>1, Zenon DEF End, Attached
<1>5. /\ f.reader = "read" /\ f.read = e.read
      /\ f.id = e.id /\ f.listed = e.listed /\ f.done = e.done /\ f.finished = e.finished /\ f.qclosed = e.qclosed
      /\ f.writer = "pop" /\ f.chunk = e.chunk /\ f.queue = e.queue /\ f.got = e.got
      /\ f.ready = e.ready /\ f.conn = e.conn
  BY <1>1, Zenon DEF End, Attached
<1> HIDE DEF f, e
<1>6. f.writer # "write" /\ f.writer # "end" /\ f.reader # "off" /\ f.reader # "send" /\ e.writer # "write"
  BY <1>3, <1>5, Zenon
<1>7. Own(f)
  BY <1>1, <1>3, <1>5, <1>6, Zenon DEF Own, Started
<1>8. Begins(e, f)
  BY <1>3, <1>5, Zenon DEF Begins
<1>9. /\ handler' \in [Members -> {"idle", "wait", "attach", "reply", "hold", "done"}]
      /\ handler'[m] = "reply" /\ handler'[n] = handler[n]
  BY <1>0, <1>n, Zenon DEF Attach, TypeOK
<1>10. /\ ends'[m]["out"] = f
       /\ \A k \in Members, l \in Objects : k # m \/ l # "out" => ends'[k][l] = ends[k][l]
  BY <1>0, <1>2, <1>4, Updated, Zenon DEF TypeOK
<1>11. ends'[m]["in"] = ends[m]["in"] /\ ends'[n]["in"] = ends[n]["in"] /\ ends'[n]["out"] = ends[n]["out"]
  <2>1. "in" # "out"
    BY Zenon
  <2> QED BY <1>0, <1>10, <1>n, <2>1, Zenon
<1>12. Opening(m)'
  <2>1. handler'[m] \notin {"idle", "wait", "attach"}
    BY <1>9, Zenon
  <2>2. Started(ends'[m]["out"]) /\ Started(ends'[n]["in"])
    BY <1>3, <1>5, <1>10, <1>11, Zenon DEF Started
  <2> QED BY <2>1, <2>2, Zenon DEF Opening
<1>13. \A k \in Members : Taking(k)'
  <2>1. \A k \in Members, l \in Objects : ends'[k][l].id = ends[k][l].id /\ ends'[k][l].listed = ends[k][l].listed
    BY <1>5, <1>10, Zenon DEF e
  <2>2. \A k \in Members : ends'[k]["in"] = ends[k]["in"]
    BY <1>11, <1>n, Zenon
  <2>3. \A k \in Members, l \in Objects : Started(ends'[k][l]) <=> Started(ends[k][l])
    BY <2>1, Zenon DEF Started
  <2>4. \A k \in Members : \A id : Names(k, id)' <=> Names(k, id)
    BY <1>0, <2>1, Others, Zenon DEF Names
  <2> SUFFICES ASSUME NEW k \in Members PROVE Taking(k)'
    BY Zenon
  <2>5. Taking(k) /\ serve' = serve /\ net' = net /\ peers' = peers
    BY <1>0, <1>2, Zenon DEF LifeInv
  <2> QED BY <1>0, <2>1, <2>2, <2>3, <2>4, <2>5, Zenon DEF Taking
<1>14. Opening(n)'
  <2>1. Opening(n) /\ net' = net
    BY <1>0, <1>2, <1>n, Zenon DEF LifeInv
  <2> QED BY <1>9, <1>11, <1>n, <2>1, Zenon DEF Opening
<1>15. LifeInv'
  BY <1>12, <1>13, <1>14, <1>n, Zenon DEF LifeInv
<1>16. \A k \in Members : net[k] \in Seq(Messages) /\ net' = net
  BY <1>0, <1>2, Zenon DEF TypeOK
<1>17. /\ \A k \in Members : Within(net[k], net'[k], {"data"})
       /\ \A k \in Members, l \in Objects : ws[k] = "up" => Skips(net[k], net'[k], l)
  BY <1>16, SkipsSelf, Zenon DEF Within
<1>18. Distinct' = Distinct
  <2>1. \A k \in Members, l \in Objects : ends'[k][l].id = ends[k][l].id
    BY <1>5, <1>10, Zenon DEF e
  <2> QED BY <2>1, DistinctKept, Zenon
<1>19. next' \in [Members -> 0..MaxId] /\ serve' \in [Members -> Tasks] /\ net' \in [Members -> Seq(Messages)]
  BY <1>0, <1>2, Zenon DEF TypeOK
<1>20. \A k \in Members : PushSame(k)
  BY <1>2, Zenon DEF PushSame
<1> QED BY <1>0, <1>2, <1>4, <1>7, <1>8, <1>9, <1>15, <1>17, <1>18, <1>19, <1>20, BeginStep, Zenon DEF e

\* openStream allocates an ID and sends OPEN.
LEMMA OpenBegins ==
  ASSUME IInv, NEW m \in Members, OpenSends(m)
  PROVE  IInv'
<1> DEFINE e == ends[m]["out"]
           n == Other(m)
<1>0. TypeOK /\ LifeInv /\ "out" \in Objects /\ "in" \in Objects /\ "in" # "out"
  BY OutIn, Zenon DEF IInv
<1>n. n \in Members /\ n # m /\ Other(n) = m /\ Members = {m, n}
  BY Others, Zenon
<1>1. e \in End /\ Own(e)
  BY <1>0, Ends, Zenon
<1>2. handler[m] = "idle" /\ peers[m] /\ UNCHANGED <<plan, serve, ws, peers, allowed>>
  BY Zenon DEF OpenSends
<1>3. PICK id \in FreeId(m) :
        /\ Update(m, "out", IF ws[m] = "up" THEN [e EXCEPT !.id = id, !.listed = TRUE]
                            ELSE GiveUp(Abort([e EXCEPT !.id = id, !.listed = TRUE])))
        /\ next' = [next EXCEPT ![m] = id] /\ net' = Sent(m, Msg("open", id))
  BY Zenon DEF OpenSends
<1>4. id \in 0..MaxId /\ id # 0
  BY <1>3 DEF FreeId, Ids
<1>5. ~Started(e) /\ e.reader = "off" /\ e.writer = "off" /\ ~e.done
  BY <1>0, <1>1, <1>2, Zenon DEF LifeInv, Opening, Own
<1> DEFINE d == [e EXCEPT !.id = id, !.listed = TRUE]
           f == IF ws[m] = "up" THEN d ELSE GiveUp(Abort(d))
<1>6. d \in End
  BY <1>1, <1>4, Zenon DEF End
<1>7. /\ d.reader = e.reader /\ d.read = e.read
      /\ d.id = id /\ d.listed /\ d.done = e.done /\ d.finished = e.finished /\ d.qclosed = e.qclosed
      /\ d.writer = e.writer /\ d.chunk = e.chunk /\ d.queue = e.queue /\ d.got = e.got
      /\ d.ready = e.ready /\ d.conn = e.conn
  BY <1>1, Zenon DEF End
<1>8. Update(m, "out", f)
  BY <1>3, Zenon
<1> HIDE DEF d, e
<1>9. Own(d) /\ Started(d)
  BY <1>1, <1>4, <1>5, <1>7, Zenon DEF Own, Started
<1>10. f \in End /\ Own(f) /\ Calm(d, f) /\ f.ready = d.ready
  <2>1. LET g == GiveUp(Abort(d)) IN g \in End /\ Own(g) /\ Calm(d, g) /\ g.ready = d.ready
    BY <1>6, <1>9, AbortsAndGivesUp, Zenon
  <2> QED BY <1>6, <1>9, <2>1, CalmSelf, Zenon
<1> HIDE DEF f
<1>11. /\ f.id = id /\ f.reader = "off" /\ f.writer = "off" /\ f.ready = e.ready
       /\ Begins(e, f)
  BY <1>5, <1>7, <1>10, Zenon DEF Calm, Begins
<1>12. /\ ends'[m]["out"] = f
       /\ \A k \in Members, l \in Objects : k # m \/ l # "out" => ends'[k][l] = ends[k][l]
  BY <1>0, <1>8, <1>10, Updated, Zenon DEF TypeOK
<1>13. ends'[m]["in"] = ends[m]["in"] /\ ends'[n]["in"] = ends[n]["in"] /\ ends'[n]["out"] = ends[n]["out"]
  BY <1>0, <1>12, <1>n, Zenon
<1>14. Msg("open", id) \in Messages /\ Msg("open", id).op = "open" /\ Msg("open", id).id = id
  BY <1>4, Controls, Zenon
<1> DEFINE x == Msg("open", id)
<1>15. x.op # "data"
  BY <1>14, Zenon
<1>16. /\ net' \in [Members -> Seq(Messages)] /\ net'[m] = net[m]
       /\ \A k \in Members : Within(net[k], net'[k], {"data"})
       /\ \A k \in Members, l \in Objects : Skips(net[k], net'[k], l)
       /\ \A i \in DOMAIN net'[n] : net'[n][i] = x \/ \E j \in DOMAIN net[n] : net[n][j] = net'[n][i]
  BY <1>0, <1>3, <1>14, <1>15, SentOther, Zenon
<1>17. /\ handler' \in [Members -> {"idle", "wait", "attach", "reply", "hold", "done"}]
       /\ handler'[m] \in {"wait", "done"} /\ handler'[n] = handler[n]
  BY <1>0, <1>n, Zenon DEF OpenSends, TypeOK
<1>18. Opening(m)'
  <2>1. Opening(m)
    BY <1>0, Zenon DEF LifeInv
  <2>2. Started(ends'[m]["out"]) /\ ends'[m]["out"].reader = "off" /\ ends'[m]["out"].writer = "off"
        /\ ends'[m]["out"].ready = e.ready
    BY <1>4, <1>11, <1>12, Zenon DEF Started
  <2>3. handler'[m] # "idle" /\ handler'[m] # "attach"
    BY <1>17, Zenon
  <2> QED BY <1>13, <1>16, <2>1, <2>2, <2>3, Zenon DEF Opening, e
<1>19. Taking(m)'
  <2>1. Taking(m) /\ serve' = serve /\ peers' = peers
    BY <1>0, <1>2, Zenon DEF LifeInv
  <2>2. \A i : Names(m, i)' <=> Names(m, i)
    BY <1>13, Zenon DEF Names
  <2>3. ASSUME serve[m].pc = "remote" PROVE serve[m].o \in Objects /\ Started(ends'[m][serve[m].o])
    <3>1. serve[m].o \in Objects /\ Started(ends[m][serve[m].o])
      BY <2>1, <2>3, Zenon DEF Taking
    <3>2. serve[m].o # "out"
      BY <1>5, <3>1, Zenon DEF e
    <3> QED BY <1>12, <3>1, <3>2, Zenon
  <2> QED BY <1>2, <1>13, <1>16, <2>1, <2>2, <2>3, Zenon DEF Taking
<1>20. Opening(n)'
  <2>1. Opening(n)
    BY <1>0, <1>n, Zenon DEF LifeInv
  <2>2. \A i \in DOMAIN net'[n] : net'[n][i].op = "accept" => \E j \in DOMAIN net[n] : net[n][j].op = "accept"
    BY <1>14, <1>16, Zenon
  <2> QED BY <1>13, <1>17, <1>n, <2>1, <2>2, Zenon DEF Opening
<1>21. Taking(n)'
  <2>1. Taking(n) /\ serve' = serve /\ peers' = peers
    BY <1>0, <1>2, <1>n, Zenon DEF LifeInv
  <2>2. \A i : ~Names(n, i)
    BY <1>5, <1>n, Zenon DEF Names, Started, e
  <2>3. id # 0 /\ id = ends'[Other(n)]["out"].id
    BY <1>4, <1>11, <1>12, <1>n, Zenon
  <2>4. \A i \in DOMAIN net'[n] : net'[n][i].op = "open" => net'[n][i].id # 0 /\ net'[n][i].id = ends'[Other(n)]["out"].id
    <3> SUFFICES ASSUME NEW i \in DOMAIN net'[n], net'[n][i].op = "open"
                 PROVE  net'[n][i].id # 0 /\ net'[n][i].id = ends'[Other(n)]["out"].id
      BY Zenon
    <3>1. net'[n][i] = x
      BY <1>16, <2>1, <2>2, Zenon DEF Taking
    <3> QED BY <1>14, <2>3, <3>1, Zenon
  <2>5. ~Started(ends'[n]["in"]) /\ serve'[n].pc # "dial"
    BY <1>13, <2>1, <2>2, Zenon DEF Taking
  <2>6. \A l \in Objects : ends'[n][l] = ends[n][l]
    BY <1>12, <1>n, Zenon
  <2>7. ~peers'[n] => \A l \in Objects : ~ends'[n][l].listed
    BY <2>1, <2>6, Zenon DEF Taking
  <2>8. serve'[n].pc = "remote" => serve'[n].o \in Objects /\ Started(ends'[n][serve'[n].o])
    BY <2>1, <2>6, Zenon DEF Taking
  <2>9. ends'[n]["in"].conn = "none" => ~Started(ends'[n]["in"])
    BY <2>5, Zenon
  <2> QED BY <2>4, <2>5, <2>7, <2>8, <2>9, Zenon DEF Taking, Names
<1>22. LifeInv'
  BY <1>18, <1>19, <1>20, <1>21, <1>n, Zenon DEF LifeInv
<1>23. Distinct' => Distinct \/ (f.reader = "off" /\ \A k \in Members, l \in Objects : ~Started(ends[k][l]))
  <2>1. SUFFICES ASSUME ~Distinct PROVE \A k \in Members, l \in Objects : ~Started(ends[k][l])
    BY <1>11, Zenon
  <2>2. ends[n]["out"].id = ends[m]["out"].id
    BY <1>n, <2>1, Zenon DEF Distinct
  <2>3. ~Started(ends[n]["out"]) /\ ~Started(ends[m]["out"])
    BY <1>5, <2>2, Zenon DEF Started, e
  <2>4. ~Started(ends[n]["in"]) /\ ~Started(ends[m]["in"])
    BY <1>0, <1>n, <2>3, Zenon DEF LifeInv, Taking, Names, Started
  <2>5. \A l \in Objects : l = "out" \/ l = "in"
    BY Zenon DEF Objects
  <2> QED BY <1>n, <2>3, <2>4, <2>5, Zenon
<1>24. next' \in [Members -> 0..MaxId] /\ serve' \in [Members -> Tasks]
  BY <1>0, <1>2, <1>3, <1>4, Zenon DEF TypeOK
<1>25. \A k \in Members : PushSame(k)
  BY <1>2, Zenon DEF PushSame
<1> QED BY <1>0, <1>2, <1>8, <1>10, <1>11, <1>16, <1>17, <1>22, <1>23, <1>24, <1>25, BeginStep, Zenon DEF e

\* A dial has succeeded, but its ID has been taken: only the connection ends.
LEMMA DialLate ==
  ASSUME IInv, NEW m \in Members, DialSucceeds(m), Listed(m, serve[m].id) # {}
  PROVE  IInv'
<1> DEFINE e == ends[m]["in"]
           f == [e EXCEPT !.conn = "closed"]
<1>0. TypeOK /\ "in" \in Objects
  BY OutIn, Zenon DEF IInv
<1>1. /\ serve[m].pc = "dial" /\ e.conn = "none" /\ UNCHANGED <<plan, next, handler, ws, peers, allowed>>
      /\ Update(m, "in", f) /\ net' = Sent(m, Msg("reset", serve[m].id)) /\ serve' = [serve EXCEPT ![m] = Idle]
  BY Zenon DEF DialSucceeds
<1>2. serve[m].id \in 0..MaxId
  BY <1>0, <1>1, Zenon DEF TypeOK, Tasks
<1>3. Msg("reset", serve[m].id) \in Messages /\ Msg("reset", serve[m].id).op \in Plain
  BY <1>2, Controls, Zenon DEF Plain
<1>4. NetStep
  BY <1>0, <1>1, <1>3, NetSent, Zenon
<1>5. Idle \in Tasks /\ Idle.pc \notin {"push", "dial", "remote"} /\ serve[m].pc # "push"
  BY <1>1, Zenon DEF Idle, Tasks
<1>6. serve' \in [Members -> Tasks] /\ \A n \in Members : PushSame(n) /\ DialStep(n)
  BY <1>1, <1>5, ServeMoves, Zenon
<1>7. /\ handler' \in [Members -> {"idle", "wait", "attach", "reply", "hold", "done"}]
      /\ \A n \in Members : HandlerStep(n)
  BY <1>1, HandlerSame, Zenon
<1>8. e \in End /\ Own(e)
  BY <1>0, Ends, Zenon
<1>9. f = GiveUp(e)
  BY Zenon DEF GiveUp
<1>10. f \in End /\ Own(f) /\ Calm(e, f) /\ f.ready = e.ready
  BY <1>8, <1>9, GivesUp, Zenon
<1> QED BY <1>0, <1>1, <1>4, <1>6, <1>7, <1>10, CalmEnd, Zenon

\* A dial has succeeded and its stream is inserted and accepted.
LEMMA DialBegins ==
  ASSUME IInv, NEW m \in Members, DialSucceeds(m), Listed(m, serve[m].id) = {}
  PROVE  IInv'
<1> DEFINE e == ends[m]["in"]
           n == Other(m)
           id == serve[m].id
           d == [e EXCEPT !.id = id, !.listed = TRUE, !.conn = "open"]
           f == IF ws[m] = "up" THEN Attached(d) ELSE Abort(d)
           x == Msg("accept", id)
<1>0. TypeOK /\ LifeInv /\ "out" \in Objects /\ "in" \in Objects /\ "in" # "out"
  BY OutIn, Zenon DEF IInv
<1>n. n \in Members /\ n # m /\ Other(n) = m /\ Members = {m, n}
  BY Others, Zenon
<1>1. e \in End /\ Own(e)
  BY <1>0, Ends, Zenon
<1>2. /\ serve[m].pc = "dial" /\ e.conn = "none" /\ UNCHANGED <<plan, next, handler, ws, peers, allowed>>
      /\ Update(m, "in", f) /\ net' = Sent(m, x) /\ serve' = [serve EXCEPT ![m] = Idle]
  BY Zenon DEF DialSucceeds
<1>3. id \in 0..MaxId
  BY <1>0, <1>2, Zenon DEF TypeOK, Tasks
<1>4. ~Started(e) /\ id # 0 /\ id = ends[n]["out"].id /\ peers[m]
  BY <1>0, <1>2, Zenon DEF LifeInv, Taking, Names
<1>5. e.reader = "off" /\ e.writer = "off" /\ ~e.done
  BY <1>1, <1>4, Zenon DEF Own
<1>6. d \in End
  BY <1>1, <1>3, Zenon DEF End
<1>7. /\ d.reader = e.reader /\ d.read = e.read
      /\ d.id = id /\ d.listed /\ d.done = e.done /\ d.finished = e.finished /\ d.qclosed = e.qclosed
      /\ d.writer = e.writer /\ d.chunk = e.chunk /\ d.queue = e.queue /\ d.got = e.got
      /\ d.conn = "open"
  BY <1>1, Zenon DEF End
<1>8. x \in Messages /\ x.op = "accept" /\ x.op # "data" /\ x.op # "open"
  BY <1>3, Controls, Zenon
<1> HIDE DEF d, e, x, id
<1>9. Own(d) /\ Started(d)
  BY <1>1, <1>4, <1>5, <1>7, Zenon DEF Own, Started
<1>10. /\ Attached(d) \in End /\ Own(Attached(d)) /\ Begins(e, Attached(d))
       /\ Attached(d).id = id /\ Attached(d).conn = "open"
  <2> DEFINE g == Attached(d)
  <2>1. g \in End
    BY <1>6, Zenon DEF End, Attached
  <2>2. /\ g.reader = "read" /\ g.read = d.read
        /\ g.id = d.id /\ g.listed = d.listed /\ g.done = d.done /\ g.finished = d.finished /\ g.qclosed = d.qclosed
        /\ g.writer = "pop" /\ g.chunk = d.chunk /\ g.queue = d.queue /\ g.got = d.got
        /\ g.conn = d.conn
    BY <1>6, Zenon DEF End, Attached
  <2> HIDE DEF g
  <2>3. g.writer # "write" /\ g.writer # "end" /\ g.reader # "off" /\ g.reader # "send" /\ d.writer # "write"
    BY <1>5, <1>7, <2>2, Zenon
  <2>4. Own(g)
    BY <1>9, <2>2, <2>3, Zenon DEF Own, Started
  <2>5. Begins(e, g)
    BY <1>4, <1>5, <1>7, <2>2, Zenon DEF Begins
  <2> QED BY <1>7, <2>1, <2>2, <2>4, <2>5, Zenon DEF g
<1>11. Abort(d) \in End /\ Own(Abort(d)) /\ Begins(e, Abort(d)) /\ Abort(d).id = id /\ Abort(d).conn # "none"
  <2>1. Abort(d) \in End /\ Own(Abort(d)) /\ Calm(d, Abort(d))
    BY <1>6, <1>9, Aborts, Zenon
  <2>2. Begins(e, Abort(d)) /\ Abort(d).id = id
    BY <1>4, <1>5, <1>7, <2>1, Zenon DEF Calm, Begins
  <2>3. Abort(d).conn # "none"
    BY <1>7, <2>1, Zenon DEF Calm
  <2> QED BY <2>1, <2>2, <2>3, Zenon
<1>12. f \in End /\ Own(f) /\ Begins(e, f) /\ f.id = id /\ f.conn # "none"
  <2>1. Attached(d).conn # "none"
    BY <1>10, Zenon
  <2> QED BY <1>10, <1>11, <2>1, Zenon
<1> HIDE DEF f
<1>13. /\ ends'[m]["in"] = f
       /\ \A k \in Members, l \in Objects : k # m \/ l # "in" => ends'[k][l] = ends[k][l]
  <2>1. ends \in [Members -> [Objects -> End]]
    BY <1>0, Zenon DEF TypeOK
  <2> QED BY <1>0, <1>2, <1>12, <2>1, Updated, Zenon
<1>14. ends'[m]["out"] = ends[m]["out"] /\ ends'[n]["in"] = ends[n]["in"] /\ ends'[n]["out"] = ends[n]["out"]
  BY <1>0, <1>13, <1>n, Zenon
<1>15. /\ net' \in [Members -> Seq(Messages)] /\ net'[m] = net[m]
       /\ \A k \in Members : Within(net[k], net'[k], {"data"})
       /\ \A k \in Members, l \in Objects : Skips(net[k], net'[k], l)
       /\ \A i \in DOMAIN net'[n] : net'[n][i] = x \/ \E j \in DOMAIN net[n] : net[n][j] = net'[n][i]
  BY <1>0, <1>2, <1>8, SentOther, Zenon
<1>16. serve' \in [Members -> Tasks] /\ serve'[m].pc \notin {"push", "dial", "remote"} /\ serve'[n] = serve[n] /\ serve[m].pc # "push"
  BY <1>0, <1>2, <1>n, Zenon DEF TypeOK, Idle, Tasks
<1>17. Opening(m)'
  <2>1. Opening(m) /\ handler' = handler
    BY <1>0, <1>2, Zenon DEF LifeInv
  <2> QED BY <1>14, <1>15, <2>1, Zenon DEF Opening
<1>18. Started(ends'[m]["in"]) /\ ends'[m]["in"].id = ends'[n]["out"].id
  BY <1>4, <1>12, <1>13, <1>14, Zenon DEF Started
<1>19. Opening(n)'
  <2>1. Opening(n) /\ handler' = handler
    BY <1>0, <1>2, <1>n, Zenon DEF LifeInv
  <2> QED BY <1>14, <1>18, <1>n, <2>1, Zenon DEF Opening
<1>20. Taking(m)'
  <2>1. Taking(m) /\ peers' = peers
    BY <1>0, <1>2, Zenon DEF LifeInv
  <2>2. ends'[m]["in"].conn # "none" /\ ends'[m]["in"].id # 0 /\ peers'[m]
    BY <1>2, <1>4, <1>12, <1>13, Zenon
  <2>3. \A i \in DOMAIN net'[m] : net'[m][i].op = "open" => net'[m][i].id # 0 /\ net'[m][i].id = ends'[n]["out"].id
    BY <1>14, <1>15, <2>1, Zenon DEF Taking, Names
  <2>4. serve'[m].pc # "dial" /\ serve'[m].pc # "remote"
    BY <1>16, Zenon
  <2> QED BY <1>18, <2>2, <2>3, <2>4, Zenon DEF Taking, Names
<1>21. Taking(n)'
  <2>1. Taking(n) /\ peers' = peers
    BY <1>0, <1>2, <1>n, Zenon DEF LifeInv
  <2>2. \A i \in DOMAIN net'[n] : net'[n][i].op = "open" => net'[n][i].id # 0 /\ net'[n][i].id = ends'[Other(n)]["out"].id
    <3>1. \A i \in DOMAIN net[n] : net[n][i].op = "open" => net[n][i].id # 0 /\ net[n][i].id = ends[m]["out"].id
      BY <1>n, <2>1, Zenon DEF Taking, Names
    <3>2. ends'[Other(n)]["out"].id = ends[m]["out"].id
      BY <1>14, <1>n, Zenon
    <3>3. ASSUME NEW i \in DOMAIN net'[n], net'[n][i].op = "open"
          PROVE  \E j \in DOMAIN net[n] : net[n][j] = net'[n][i]
      BY <1>8, <1>15, <3>3, Zenon
    <3> HIDE DEF n
    <3> QED BY <3>1, <3>2, <3>3, Zenon
  <2>3. \A l \in Objects : ends'[n][l] = ends[n][l]
    BY <1>13, <1>n, Zenon
  <2>4. ~peers'[n] => \A l \in Objects : ~ends'[n][l].listed
    BY <2>1, <2>3, Zenon DEF Taking
  <2>5. serve'[n].pc = "remote" => serve'[n].o \in Objects /\ Started(ends'[n][serve'[n].o])
    BY <1>16, <2>1, <2>3, Zenon DEF Taking
  <2>6. serve'[n].pc = "dial" => serve'[n].id # 0 /\ serve'[n].id = ends'[Other(n)]["out"].id /\ peers'[n]
    BY <1>14, <1>16, <1>n, <2>1, Zenon DEF Taking, Names
  <2>7. /\ ends'[n]["in"].conn = "none" => ~Started(ends'[n]["in"])
        /\ Started(ends'[n]["in"]) => ends'[n]["in"].id # 0 /\ ends'[n]["in"].id = ends'[Other(n)]["out"].id
    BY <1>14, <1>n, <2>1, Zenon DEF Taking, Names
  <2> QED BY <2>2, <2>4, <2>5, <2>6, <2>7, Zenon DEF Taking, Names
<1>22. LifeInv'
  BY <1>17, <1>19, <1>20, <1>21, <1>n, Zenon DEF LifeInv
<1>23. Distinct' => Distinct
  <2>1. \A k \in Members : ends'[k]["out"].id = ends[k]["out"].id
    BY <1>14, <1>n, Zenon
  <2> QED BY <2>1, Others, Zenon DEF Distinct
<1>24. next' \in [Members -> 0..MaxId] /\ handler' \in [Members -> {"idle", "wait", "attach", "reply", "hold", "done"}]
  BY <1>0, <1>2, Zenon DEF TypeOK
<1>25. \A k \in Members : PushSame(k)
  <2>1. PushSame(m) /\ PushSame(n)
    BY <1>16, Zenon DEF PushSame
  <2> QED BY <1>n, <2>1, Zenon
<1> QED BY <1>0, <1>2, <1>12, <1>15, <1>16, <1>22, <1>23, <1>24, <1>25, BeginStep, Zenon DEF e

-----------------------------------------------------------------------------
(* The theorems.                                                           *)

\* At the start no stream has an ID and nothing is under way.
LEMMA Starts == Init => IInv
<1> SUFFICES ASSUME Init PROVE IInv
  BY Zenon
<1>0. "out" \in Objects /\ "in" \in Objects
  BY OutIn, Zenon
<1>m. \E k \in Members : TRUE
  BY ZoneStreamsAssumption, Zenon
<1>1. \A c \in {"open", "none"} : NewEnd(c) \in End
  <2> DEFINE q == <<>>
  <2>1. q \in Seq(Payloads)
    OBVIOUS
  <2>2. 0 \in 0..MaxId
    BY ZoneStreamsAssumption
  <2> HIDE DEF q
  <2>3. ASSUME NEW c \in {"open", "none"}
        PROVE  [id |-> 0, listed |-> FALSE, local |-> FALSE, localClosed |-> FALSE, remoteClosed |-> FALSE, done |-> FALSE,
                finished |-> 0, queue |-> q, qclosed |-> FALSE, ready |-> "none", conn |-> c, half |-> FALSE,
                app |-> "open", reader |-> "off", closed |-> FALSE, writer |-> "off", chunk |-> q,
                read |-> 0, got |-> q] \in End
    BY <2>1, <2>2, Zenon DEF End
  <2> QED BY <2>3, Zenon DEF NewEnd, q
<1>2. ASSUME NEW m \in Members, NEW o \in Objects
      PROVE  \E c \in {"open", "none"} : ends[m][o] = NewEnd(c) /\ (o = "in" => c = "none")
  BY Zenon DEF Init
<1>3. ASSUME NEW m \in Members, NEW o \in Objects
      PROVE  /\ ends[m][o] \in End /\ Own(ends[m][o]) /\ ends[m][o].queue = <<>> /\ ends[m][o].id = 0
             /\ ~ends[m][o].listed /\ ends[m][o].reader = "off" /\ ends[m][o].writer = "off" /\ ends[m][o].ready = "none"
  <2>1. PICK c \in {"open", "none"} : ends[m][o] = NewEnd(c)
    BY <1>2, Zenon
  <2>2. LET e == NewEnd(c) IN
        /\ e.id = 0 /\ ~e.listed /\ ~e.done /\ e.finished = 0 /\ e.queue = <<>> /\ e.chunk = <<>> /\ e.got = <<>>
        /\ e.reader = "off" /\ e.writer = "off" /\ e.ready = "none" /\ e.read = 0
    BY Zenon DEF NewEnd
  <2> DEFINE e == NewEnd(c)
  <2> HIDE DEF e
  <2>3. Own(e)
    BY <2>2, Zenon DEF Own, Started, e
  <2> QED BY <1>1, <2>1, <2>2, <2>3, Zenon DEF e
<1>4. TypeOK
  <2>1. ends \in [Members -> [Objects -> End]]
    <3>1. ends = [m \in Members |-> [o \in Objects |-> ends[m][o]]]
      BY Zenon DEF Init
    <3> QED BY <1>3, <3>1, Zenon
  <2>2. \A m \in Members, o \in Objects : Len(ends[m][o].queue) <= QueueLimit
    BY <1>3, ZoneStreamsAssumption
  <2>3. next \in [Members -> 0..MaxId]
    BY ZoneStreamsAssumption, Zenon DEF Init, Plan
  <2>4. Idle \in Tasks
    BY Zenon DEF Idle, Tasks
  <2>5. /\ plan \in Plans /\ handler \in [Members -> {"idle", "wait", "attach", "reply", "hold", "done"}]
        /\ serve \in [Members -> Tasks] /\ ws \in [Members -> {"up", "lost"}]
        /\ peers \in [Members -> BOOLEAN] /\ allowed \in [Members -> BOOLEAN]
    BY <2>4, Zenon DEF Init
  <2>6. net \in [Members -> Seq(Messages)]
    BY DEF Init
  <2> QED BY <2>1, <2>2, <2>3, <2>5, <2>6, Zenon DEF TypeOK
<1>5. OwnInv
  BY <1>3, Zenon DEF OwnInv
<1>6. \A m \in Members : /\ handler[m] = "idle" /\ serve[m].pc = "read" /\ DOMAIN net[m] = {} /\ peers[m]
  <2> SUFFICES ASSUME NEW m \in Members
               PROVE  /\ handler[m] = "idle" /\ serve[m].pc = "read" /\ DOMAIN net[m] = {} /\ peers[m]
    BY Zenon
  <2>1. handler[m] = "idle" /\ serve[m] = Idle /\ net[m] = <<>> /\ peers[m]
    BY Zenon DEF Init
  <2>2. Idle.pc = "read"
    BY Zenon DEF Idle
  <2>3. DOMAIN <<>> = {}
    OBVIOUS
  <2> QED BY <2>1, <2>2, <2>3, Zenon
<1>7. LifeInv
  <2> SUFFICES ASSUME NEW m \in Members PROVE Opening(m) /\ Taking(m)
    BY Zenon DEF LifeInv
  <2>1. /\ ends[m]["out"].reader = "off" /\ ends[m]["out"].writer = "off" /\ ends[m]["out"].ready # "accepted"
        /\ ~Started(ends[m]["out"]) /\ ~Started(ends[m]["in"])
    BY <1>0, <1>3, Zenon DEF Started
  <2>2. handler[m] \notin {"wait", "attach", "reply", "hold"} /\ serve[m].pc \notin {"dial", "remote"}
    BY <1>6, Zenon
  <2> QED BY <1>6, <2>1, <2>2, Zenon DEF Opening, Taking
<1>8. CarryInv
  <2>1. \A m \in Members : serve[m].pc # "push"
    BY <1>6, Zenon
  <2> QED BY <1>6, <2>1, Zenon DEF CarryInv, Carrying
<1>9. ~Distinct
  <2>1. PICK k \in Members : TRUE
    BY <1>m, Zenon
  <2>2. Other(k) \in Members
    BY Others, Zenon
  <2>3. ends[k]["out"].id = 0 /\ ends[Other(k)]["out"].id = 0
    BY <1>0, <1>3, <2>2, Zenon
  <2> QED BY <2>3, Zenon DEF Distinct
<1> QED BY <1>4, <1>5, <1>7, <1>8, <1>9, Zenon DEF IInv, OrderInv

\* Every step keeps the invariant.
LEMMA Inductive == IInv /\ [Next]_vars => IInv'
<1> SUFFICES ASSUME IInv, [Next]_vars PROVE IInv'
  BY Zenon
<1>1. CASE UNCHANGED vars
  <2>1. /\ plan' = plan /\ ends' = ends /\ next' = next /\ handler' = handler /\ serve' = serve /\ ws' = ws
        /\ peers' = peers /\ allowed' = allowed /\ net' = net
    BY <1>1, Zenon DEF vars
  <2>2. NetStep
    BY <2>1, NetSame, Zenon DEF IInv
  <2>3. serve' \in [Members -> Tasks] /\ \A n \in Members : PushSame(n) /\ DialStep(n)
    BY <2>1, ServeSame, Zenon
  <2>4. /\ handler' \in [Members -> {"idle", "wait", "attach", "reply", "hold", "done"}]
        /\ \A n \in Members : HandlerStep(n)
    BY <2>1, HandlerSame, Zenon
  <2> QED BY <2>1, <2>2, <2>3, <2>4, CalmNone, Zenon
<1>2. ASSUME NEW m \in Members, Handling(m) PROVE IInv'
  <2>1. CASE OpenSends(m)
    BY <2>1, OpenBegins, Zenon
  <2>2. CASE Attach(m)
    BY <2>2, AttachBegins, Zenon
  <2> QED BY <1>2, <2>1, <2>2, HandlerCalm, Zenon DEF Handling
<1>3. ASSUME NEW m \in Members, Serving(m) PROVE IInv'
  <2>1. CASE ReceiveOpen(m)
    BY <2>1, ReceiveOpenCalm, Zenon
  <2>2. CASE DialFails(m)
    BY <2>2, DialFailsCalm, Zenon
  <2>3. CASE DialSucceeds(m)
    BY <2>3, DialLate, DialBegins, Zenon
  <2>4. CASE ReceiveAnswer(m)
    BY <2>4, ReceiveAnswerCalm, Zenon
  <2>5. CASE ReceiveData(m)
    BY <2>5, ReceiveDataFlows, Zenon
  <2>6. CASE Push(m)
    BY <2>6, PushFlows, Zenon
  <2>7. CASE ReceiveClose(m)
    BY <2>7, ReceiveCloseCalm, Zenon
  <2>8. CASE RemoteClose(m)
    BY <2>8, RemoteCloseCalm, Zenon
  <2>9. CASE ReceiveReset(m)
    BY <2>9, ReceiveResetCalm, Zenon
  <2>10. CASE ReceiveMembers(m)
    BY <2>10, ReceiveMembersCalm, Zenon
  <2>11. CASE ServeEnds(m)
    BY <2>11, ServeEndsCalm, Zenon
  <2>12. CASE AbortAll(m)
    BY <2>12, AbortAllCalm, Zenon
  <2> QED BY <1>3, <2>1, <2>2, <2>3, <2>4, <2>5, <2>6, <2>7, <2>8, <2>9, <2>10, <2>11, <2>12, Zenon DEF Serving
<1>4. ASSUME NEW m \in Members, CloseWebSocket(m) PROVE IInv'
  BY <1>4, LossCalm, Zenon
<1>5. ASSUME NEW m \in Members, NEW o \in Objects,
             ReaderGets(m, o) \/ ReaderSends(m, o) \/ ReaderEnds(m, o) \/ ReaderTells(m, o)
      PROVE  IInv'
  BY <1>5, ReaderGetsFlows, ReaderSendsFlows, ReaderEndsFlows, ReaderTellsFlows, Zenon
<1>6. ASSUME NEW m \in Members, NEW o \in Objects, Writing(m, o) PROVE IInv'
  BY <1>6, WriterPopsFlows, WriterWritesFlows, WriterFailsFlows, Zenon DEF Writing
<1>7. ASSUME NEW m \in Members, NEW o \in Objects, AppEnds(m, o) PROVE IInv'
  BY <1>7, AppCalm, Zenon
<1> QED BY <1>1, <1>2, <1>3, <1>4, <1>5, <1>6, <1>7, Zenon DEF Next

\* The invariant of the streams between two members of a zone.
LEMMA Invariance == Spec => []IInv
BY Starts, Inductive, PTL DEF Spec

\* The state stays well formed; above all a queue never holds more than the
\* limit at which enqueue makes the read loop wait.
THEOREM TypeCorrect == Spec => []TypeOK
<1>1. IInv => TypeOK
  BY Zenon DEF IInv
<1> QED BY <1>1, Invariance, PTL

\* What writeLoop has written to a connection is what readLoop read at the
\* other end, in order and without a gap, whatever closes, resets, losses,
\* timeouts and full queues happened, if the two streams have their own IDs.
THEOREM DeliveredInOrderHolds == Spec => []DeliveredInOrder
<1>1. IInv => DeliveredInOrder
  <2> SUFFICES ASSUME IInv, Distinct, NEW m \in Members, NEW o \in Objects
               PROVE  LET got == ends[m][o].got IN
                      /\ got = [i \in 1..Len(got) |-> <<Other(m), Peer(o), i>>]
                      /\ Len(got) <= ends[Other(m)][Peer(o)].read
    BY Zenon DEF DeliveredInOrder, Distinct
  <2> DEFINE n == Other(m)
             q == Peer(o)
             e == ends[m][o]
             p == ends[n][q]
  <2>1. e \in End /\ Follows(m, o)
    BY Ends, Zenon DEF IInv, OrderInv
  <2>2. n \in Members /\ q \in Objects
    BY Others, Peers, Zenon
  <2>3. p \in End /\ Own(p)
    BY <2>2, Ends, Zenon
  <2>4. Ordered(n, q, e, p)
    BY <2>1, Zenon DEF Follows
  <2>5. e.got \in Seq(Payloads) /\ p.read \in Nat
    BY <2>1, <2>3, Fields, Zenon
  <2> HIDE DEF n, q, e, p
  <2>6. e.got = [i \in 1..Len(e.got) |-> <<n, q, i>>]
    <3>1. \A i \in DOMAIN e.got : e.got[i] = <<n, q, i>>
      BY <2>4, Zenon DEF Ordered
    <3>2. e.got = [i \in 1..Len(e.got) |-> e.got[i]] /\ DOMAIN e.got = 1..Len(e.got)
      BY <2>5
    <3> DEFINE g == e.got
    <3> HIDE DEF g
    <3>3. g = [i \in 1..Len(g) |-> <<n, q, i>>]
      BY <3>1, <3>2, Zenon DEF g
    <3> QED BY <3>3, Zenon DEF g
  <2>7. Len(e.got) <= p.read
    <3>1. Len(e.got) \in Nat
      BY <2>5
    <3>2. Len(e.got) <= SentUpTo(p)
      BY <2>4, Zenon DEF Ordered
    <3> QED BY <2>5, <3>1, <3>2 DEF SentUpTo
  <2> QED BY <2>6, <2>7, Zenon DEF n, q, e, p
<1> QED BY <1>1, Invariance, PTL

\* finished is closed at most once, whoever of abort and release comes first.
THEOREM FinishedOnceHolds == Spec => []FinishedOnce
<1>1. IInv => FinishedOnce
  BY DEF IInv, OwnInv, Own, FinishedOnce
<1> QED BY <1>1, Invariance, PTL
=============================================================================
