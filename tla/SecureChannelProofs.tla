------------------------ MODULE SecureChannelProofs -------------------------
(***************************************************************************)
(* The nonces of a secure channel never get out of step, its payloads reach*)
(* the channel in order, and no dispatcher sleeps through the registration *)
(* it waits for: for any links, any queue sizes and any number of frames.  *)
(***************************************************************************)
EXTENDS SecureChannel, TLAPS

\* Stages of run after the handshake: none of them goes back to it.
Settled == {"loop", "park", "held", "block", "ended"}

\* The types of the variables, in groups that few actions change together.
LinkType ==
  /\ plan \in Plans /\ link \in [Links -> {"new", "up", "down"}] /\ resuming \subseteq Links
  /\ via \in Links
WireType == wire \in [Ends -> [Links -> Seq(Messages)]]
\* A dispatcher is idle exactly while it holds no frame (Idle has number 0).
Hands == [at : {"idle", "claim", "wait", "put"}, n : Nat]
HandType ==
  /\ hand \in [Ends -> [Links -> Hands]]
  /\ waiters \subseteq Links /\ woken \subseteq Links
  /\ \A e \in Ends, l \in Links : hand[e][l].at = "idle" <=> hand[e][l].n = 0
FlagType == registered \in [Ends -> BOOLEAN] /\ done \in [Ends -> BOOLEAN] /\ disturbed \in BOOLEAN
AtType ==
  /\ opener \in {"open", "wait", "use", "failed"}
  /\ at \in [Ends -> {"idle", "write1", "await2", "write3", "await1", "write2", "await3",
                      "loop", "park", "held", "block", "refuse", "ended"}]
CauseType == cause \in [Ends -> {"none", "decrypt", "write", "timeout", "closed"}]
FrameType ==
  /\ sent \in [Ends -> Nat] /\ read \in [Ends -> Nat] /\ writing \in [Ends -> BOOLEAN]
  /\ \A e \in Ends : writing[e] => sent[e] > 0
HeldType == \A e \in Ends : at[e] \in {"held", "block"} => read[e] > 0
InboundType == inbound \in [Ends -> Seq(Frames)] /\ \A e \in Ends : Len(inbound[e]) <= Inbound
ChannelType ==
  /\ bound \in [Ends -> BOOLEAN]
  /\ dial \in {"none", "dialled", "up", "failed", "blocked"}
  /\ ending \in [Ends -> BOOLEAN] /\ over \in [Ends -> BOOLEAN]
QueueType ==
  /\ queue \in [Ends -> Seq(Frames)] /\ \A e \in Ends : Len(queue[e]) <= Queue(e)
  /\ got \in [Ends -> Seq(Frames)]
TypeInv ==
  /\ LinkType /\ WireType /\ HandType /\ FlagType /\ AtType /\ CauseType /\ FrameType /\ HeldType
  /\ InboundType /\ ChannelType /\ QueueType

\* The stages of the client's session: which frame it writes or has read in
\* each step of the handshake, and what openChannel can know by then.
EntryInv ==
  /\ ~done["entry"] => registered["entry"]
  /\ opener = "open" => at["entry"] = "idle" /\ sent["entry"] = 0
  /\ at["entry"] \in {"idle", "write1", "await2", "write3"} => opener # "use"
  /\ at["entry"] \in {"idle", "await2"} => ~writing["entry"]
  /\ at["entry"] \in {"write1", "write3"} => writing["entry"]
  /\ at["entry"] \in {"idle", "write1", "await2", "write3"} \cup Settled
  /\ at["entry"] \in {"idle", "write1", "await2"} => read["entry"] = 0
  /\ at["entry"] = "write3" => read["entry"] = 1
  /\ at["entry"] \in {"loop", "park"} => read["entry"] >= 1
  /\ at["entry"] \in {"held", "block"} => read["entry"] >= 2

\* The ChannelOpen is message i of link l.  There is at most one, written after
\* openChannel has started and gone before the relay's session starts.
Opens(l, i) == i \in DOMAIN wire["dialer"][l] /\ wire["dialer"][l][i].kind = "open"
OpenInv ==
  /\ opener = "open" => at["dialer"] = "idle" /\ \A l \in Links, i \in Nat : ~Opens(l, i)
  /\ \A k, l \in Links, i, j \in Nat : Opens(k, i) /\ Opens(l, j) => k = l /\ i = j
  /\ \A l \in Links, i \in Nat : Opens(l, i) => at["dialer"] = "idle"

\* The stages of the relay's session: until the ConnectMessage, frame 3, is
\* dispatched it has sealed one frame at most and no payload exists.
DialerInv ==
  /\ at["dialer"] \in {"idle", "await1", "write2", "await3", "refuse", "loop", "park", "held", "ended"}
  /\ at["dialer"] \in {"idle", "await1"} => sent["dialer"] = 0 /\ read["dialer"] = 0
  /\ at["dialer"] \in {"write2", "await3"} => read["dialer"] = 1
  /\ at["dialer"] \in {"loop", "park", "held", "refuse"} => read["dialer"] >= 2
  /\ at["dialer"] = "held" => read["dialer"] >= 3
  /\ at["dialer"] \in {"write2", "refuse"} => writing["dialer"]
  /\ at["dialer"] \in {"idle", "await1", "write2", "await3"} => dial = "none"
  /\ dial = "none" => /\ writing["dialer"] => at["dialer"] = "write2"
                      /\ sent["dialer"] <= 1
                      /\ at["dialer"] \in {"loop", "park"} => read["dialer"] = 2
                      /\ at["dialer"] = "held" => read["dialer"] = 3
                      /\ at["dialer"] # "refuse"
                      /\ got["dialer"] = <<>> /\ queue["dialer"] = <<>>
  /\ dial # "none" => read["dialer"] >= 3 /\ (at["dialer"] = "held" => read["dialer"] > 3)
  /\ sent["dialer"] <= 2 \/ sent["dialer"] <= plan.down

\* A session is done exactly when a cause of it is recorded.
CauseInv == \A e \in Ends : done[e] <=> cause[e] # "none"
StageInv == EntryInv /\ OpenInv /\ DialerInv /\ CauseInv

\* What a dispatcher holds, n, and the messages behind it, w.
Has(h, w, n) == h = n \/ \E i \in DOMAIN w : w[i].n = n
\* The sealed frames among them have growing numbers.
Ascends(h, w) ==
  /\ \A i \in DOMAIN w : w[i].n > 0 => h < w[i].n
  /\ \A i, j \in DOMAIN w : i < j /\ w[i].n > 0 /\ w[j].n > 0 => w[i].n < w[j].n
\* Frame n is on its way to end e on link l; Top is the last frame that is past
\* the dispatchers, Used says that frame n is out of the peer's hands.
Flies(e, l, n) == Has(hand[e][l].n, wire[e][l], n)
Top(e) == read[e] + Len(inbound[e])
Used(e, n) == IF writing[e] THEN n < sent[e] ELSE n <= sent[e]
\* The last frame sealed is not on a link: it is being written, or it never will be.
Unwritten(e) == writing[e] \/ (done[e] /\ at[e] \in Settled)

\* On every link frames fly in order, no frame flies twice, and none flies, is
\* queued or is read that the peer has not sealed.
Orderly(e) == \A l \in Links : Ascends(hand[e][l].n, wire[e][l])
FlightInv(e) ==
  /\ Orderly(e)
  /\ \A k, l \in Links, n \in Frames : Flies(e, k, n) /\ Flies(e, l, n) => k = l
  /\ \A l \in Links, n \in Frames : Flies(e, l, n) => Used(Peer(e), n)
  /\ \A i \in DOMAIN inbound[e] : inbound[e][i] <= sent[Peer(e)]
  /\ read[e] <= sent[Peer(e)]

\* While the session lives and no frame was lost or overtaken, its inbound queue
\* continues read without a gap, and every later frame of the peer flies or is
\* about to be written.
ChainInv(e) ==
  ~done[e] /\ ~disturbed =>
    /\ \A i \in DOMAIN inbound[e] : inbound[e][i] = read[e] + i
    /\ Used(Peer(e), Top(e))
    /\ \A l \in Links, n \in Frames : Flies(e, l, n) => n > Top(e)
    /\ \A n \in Frames : Top(e) < n /\ n <= sent[Peer(e)]
         => (\E l \in Links : Flies(e, l, n)) \/ (n = sent[Peer(e)] /\ Unwritten(Peer(e)))

\* The payloads an end has dispatched, as a number; Whole: they are all in its
\* queue or taken by its pump, in order.
Count(e) == IF Dispatched(e) >= FirstPayload(e) THEN Dispatched(e) - FirstPayload(e) + 1 ELSE 0
Whole(e) == Contiguous(e) /\ Len(Payload(e)) = Count(e)
PumpWhole(e) == ~done[e] /\ bound[e] => Whole(e)
\* At the client the payloads stay in order even after the session has failed,
\* when its queue holds all the relay will send: what is missing is the last one.
EntryWhole ==
  plan.queue + 2 >= plan.down =>
    /\ Contiguous("entry")
    /\ at["entry"] = "block" => Len(Payload("entry")) >= plan.queue
    /\ \/ Whole("entry")
       \/ at["entry"] \notin {"held", "block"} /\ read["entry"] >= plan.down /\ read["entry"] >= 2
PumpInv == (\A e \in Ends : PumpWhole(e)) /\ EntryWhole

\* The inductive invariant.
IInv == TypeInv /\ StageInv /\ (\A e \in Ends : FlightInv(e) /\ ChainInv(e)) /\ NonceChain /\ PumpInv

-----------------------------------------------------------------------------
(* Messages, and the frames among a dispatcher's and those behind it.      *)

\* Only sealed messages carry a number.
LEMMA MessageFacts ==
  /\ \A m \in Messages : m.n \in Nat /\ (m.kind = "sealed" <=> m.n > 0)
  /\ \A k \in {"open", "resume", "disconnect"} : Control(k) \in Messages /\ Control(k).n = 0 /\ Control(k).kind = k
  /\ \A n \in Frames : Sealed(n) \in Messages /\ Sealed(n).n = n /\ Sealed(n).kind = "sealed"
BY DEF Messages, Frames, Control, Sealed

\* One cell of a table of ends and links.
LEMMA Cell ==
  ASSUME NEW S, NEW w \in [Ends -> [Links -> S]], NEW e \in Ends, NEW l \in Links, NEW x \in S
  PROVE  LET v == [w EXCEPT ![e][l] = x]
         IN  /\ v \in [Ends -> [Links -> S]] /\ v[e][l] = x
             /\ \A f \in Ends, k \in Links : f # e \/ k # l => v[f][k] = w[f][k]
<1> DEFINE v == [w EXCEPT ![e][l] = x]
           r == [w[e] EXCEPT ![l] = x]
<1>1. r \in [Links -> S] /\ r[l] = x /\ \A k \in Links : k # l => r[k] = w[e][k]
  BY Zenon
<1>2. v = [w EXCEPT ![e] = r]
  BY Zenon
<1> HIDE DEF r, v
<1>3. v \in [Ends -> [Links -> S]] /\ v[e] = r /\ \A f \in Ends : f # e => v[f] = w[f]
  BY <1>1, <1>2, Zenon
<1>4. v[e][l] = x /\ \A f \in Ends, k \in Links : f # e \/ k # l => v[f][k] = w[f][k]
  BY <1>1, <1>3, Zenon
<1> QED BY <1>3, <1>4, Zenon DEF v

\* A message without a number at the end.
LEMMA HasControl ==
  ASSUME NEW h \in Nat, NEW w \in Seq(Messages), NEW m \in Messages, m.n = 0
  PROVE  /\ \A n \in Frames : Has(h, Append(w, m), n) <=> Has(h, w, n)
         /\ Ascends(h, w) => Ascends(h, Append(w, m))
<1>1. /\ Append(w, m) \in Seq(Messages) /\ Len(Append(w, m)) = Len(w) + 1
      /\ \A i \in DOMAIN w : Append(w, m)[i] = w[i]
      /\ Append(w, m)[Len(w) + 1] = m
      /\ DOMAIN Append(w, m) = 1 .. Len(w) + 1 /\ DOMAIN w = 1 .. Len(w) /\ Len(w) \in Nat
  OBVIOUS
<1>2. \A i \in 1 .. Len(w) + 1 : i \in 1 .. Len(w) \/ i = Len(w) + 1
  BY <1>1
<1>3. ASSUME NEW n \in Frames PROVE Has(h, Append(w, m), n) <=> Has(h, w, n)
  BY <1>1, <1>2 DEF Has, Frames
<1>4. ASSUME Ascends(h, w) PROVE Ascends(h, Append(w, m))
  BY <1>1, <1>2, <1>4 DEF Ascends
<1> QED BY <1>3, <1>4, Zenon

\* A frame later than all others at the end.
LEMMA HasSealed ==
  ASSUME NEW h \in Nat, NEW w \in Seq(Messages), NEW m \in Messages, m.n > 0
  PROVE  /\ \A n \in Frames : Has(h, Append(w, m), n) <=> Has(h, w, n) \/ n = m.n
         /\ Ascends(h, w) /\ h < m.n /\ (\A n \in Frames : Has(h, w, n) => n < m.n) => Ascends(h, Append(w, m))
<1>1. /\ Append(w, m) \in Seq(Messages) /\ Len(Append(w, m)) = Len(w) + 1
      /\ \A i \in DOMAIN w : Append(w, m)[i] = w[i]
      /\ Append(w, m)[Len(w) + 1] = m
      /\ DOMAIN Append(w, m) = 1 .. Len(w) + 1 /\ DOMAIN w = 1 .. Len(w) /\ Len(w) \in Nat
  OBVIOUS
<1>2. \A i \in 1 .. Len(w) + 1 : i \in 1 .. Len(w) \/ i = Len(w) + 1
  BY <1>1
<1>3. ASSUME NEW n \in Frames PROVE Has(h, Append(w, m), n) <=> Has(h, w, n) \/ n = m.n
  BY <1>1, <1>2 DEF Has, Frames
<1>4. ASSUME Ascends(h, w), h < m.n, \A n \in Frames : Has(h, w, n) => n < m.n PROVE Ascends(h, Append(w, m))
  <2>1. \A i \in DOMAIN w : w[i].n \in Nat /\ (w[i].n > 0 => w[i].n < m.n)
    BY <1>4, MessageFacts DEF Has, Frames
  <2> QED BY <1>1, <1>2, <1>4, <2>1 DEF Ascends
<1> QED BY <1>3, <1>4, Zenon

\* A dispatcher without a frame takes the first message.
LEMMA HasTaken ==
  ASSUME NEW w \in Seq(Messages), w # <<>>
  PROVE  /\ Head(w) \in Messages /\ Head(w).n \in Nat /\ Tail(w) \in Seq(Messages)
         /\ \A n \in Frames : Has(Head(w).n, Tail(w), n) <=> Has(0, w, n)
         /\ \A n \in Frames : Has(0, Tail(w), n) => Has(0, w, n)
         /\ Ascends(0, w) => Ascends(Head(w).n, Tail(w)) /\ Ascends(0, Tail(w))
<1>1. /\ Head(w) \in Messages /\ Tail(w) \in Seq(Messages) /\ Head(w) = w[1] /\ Len(w) \in Nat \ {0}
      /\ DOMAIN Tail(w) = 1 .. Len(w) - 1 /\ DOMAIN w = 1 .. Len(w)
      /\ \A i \in 1 .. Len(w) - 1 : Tail(w)[i] = w[i + 1]
  OBVIOUS
<1>2. /\ 1 \in 1 .. Len(w) /\ \A i \in 1 .. Len(w) - 1 : i + 1 \in 1 .. Len(w)
      /\ \A i \in 1 .. Len(w) : i = 1 \/ (i - 1 \in 1 .. Len(w) - 1 /\ (i - 1) + 1 = i)
  BY <1>1
<1>3. Head(w).n \in Nat
  BY <1>1, MessageFacts, Zenon
<1>4. ASSUME NEW n \in Frames PROVE (Has(Head(w).n, Tail(w), n) <=> Has(0, w, n)) /\ (Has(0, Tail(w), n) => Has(0, w, n))
  <2>1. ASSUME Has(0, w, n) PROVE Has(Head(w).n, Tail(w), n)
    <3>1. PICK i \in 1 .. Len(w) : w[i].n = n
      BY <1>1, <2>1, Zenon DEF Has, Frames
    <3>2. CASE i = 1
      BY <1>1, <3>1, <3>2, Zenon DEF Has
    <3>3. CASE i # 1
      <4>1. i - 1 \in 1 .. Len(w) - 1 /\ Tail(w)[i - 1] = w[i]
        BY <1>1, <1>2, <3>1, <3>3, Zenon
      <4> QED BY <1>1, <3>1, <4>1, Zenon DEF Has
    <3> QED BY <3>2, <3>3, Zenon
  <2>2. Has(Head(w).n, Tail(w), n) => Has(0, w, n)
    BY <1>1, <1>2, Zenon DEF Has, Frames
  <2>3. Has(0, Tail(w), n) => Has(0, w, n)
    BY <1>1, <1>2, Zenon DEF Has, Frames
  <2> QED BY <2>1, <2>2, <2>3, Zenon
<1>5. ASSUME Ascends(0, w) PROVE Ascends(Head(w).n, Tail(w)) /\ Ascends(0, Tail(w))
  <2>1. \A i \in DOMAIN w : w[i].n \in Nat
    BY MessageFacts
  <2>2. \A i \in DOMAIN Tail(w) : Tail(w)[i].n > 0 => Head(w).n < Tail(w)[i].n
    BY <1>1, <1>2, <1>5, <2>1 DEF Ascends
  <2>3. \A i, j \in DOMAIN Tail(w) : i < j /\ Tail(w)[i].n > 0 /\ Tail(w)[j].n > 0 => Tail(w)[i].n < Tail(w)[j].n
    BY <1>1, <1>2, <1>5, <2>1 DEF Ascends
  <2>4. \A i \in DOMAIN Tail(w) : Tail(w)[i].n > 0 => 0 < Tail(w)[i].n
    BY <1>1, <2>1, Zenon
  <2> QED BY <2>2, <2>3, <2>4, Zenon DEF Ascends
<1> QED BY <1>1, <1>3, <1>4, <1>5, Zenon

\* A dispatcher lets go of the frame it holds.
LEMMA HasPut ==
  ASSUME NEW h \in Nat, NEW w \in Seq(Messages)
  PROVE  /\ \A n \in Frames : Has(0, w, n) => Has(h, w, n)
         /\ Ascends(h, w) => /\ Ascends(0, w)
                             /\ \A n \in Frames : Has(h, w, n) /\ n # h => Has(0, w, n)
                             /\ \A n \in Frames : Has(0, w, n) => n > h
BY MessageFacts, Zenon DEF Has, Ascends, Frames

\* The connection breaks behind k messages.
LEMMA HasCut ==
  ASSUME NEW h \in Nat, NEW w \in Seq(Messages), NEW k \in 0 .. Len(w)
  PROVE  /\ SubSeq(w, 1, k) \in Seq(Messages)
         /\ \A n \in Frames : Has(h, SubSeq(w, 1, k), n) => Has(h, w, n)
         /\ Ascends(h, w) => Ascends(h, SubSeq(w, 1, k))
         /\ (\A i \in k + 1 .. Len(w) : w[i].kind # "sealed") =>
              \A n \in Frames : Has(h, w, n) => Has(h, SubSeq(w, 1, k), n)
<1>1. /\ SubSeq(w, 1, k) \in Seq(Messages) /\ DOMAIN SubSeq(w, 1, k) = 1 .. k /\ DOMAIN w = 1 .. Len(w)
      /\ \A i \in 1 .. k : SubSeq(w, 1, k)[i] = w[i] /\ i \in 1 .. Len(w)
      /\ \A i \in 1 .. Len(w) : i \in 1 .. k \/ i \in k + 1 .. Len(w)
  OBVIOUS
<1>2. \A n \in Frames : Has(h, SubSeq(w, 1, k), n) => Has(h, w, n)
  BY <1>1, Zenon DEF Has
<1>3. Ascends(h, w) => Ascends(h, SubSeq(w, 1, k))
  BY <1>1 DEF Ascends
<1>4. ASSUME \A i \in k + 1 .. Len(w) : w[i].kind # "sealed", NEW n \in Frames, Has(h, w, n)
      PROVE  Has(h, SubSeq(w, 1, k), n)
  <2>1. \A i \in k + 1 .. Len(w) : w[i].n # n
    BY <1>1, <1>4, MessageFacts DEF Frames
  <2> QED BY <1>1, <1>4, <2>1, Zenon DEF Has
<1> QED BY <1>1, <1>2, <1>3, <1>4, Zenon

\* The first messages.
LEMMA Cut ==
  ASSUME NEW w \in Seq(Messages), NEW k \in 0 .. Len(w)
  PROVE  SubSeq(w, 1, k) \in Seq(Messages)
OBVIOUS

\* One message more, or less, on a link.
LEMMA WireCell ==
  ASSUME WireType, NEW e \in Ends, NEW l \in Links, NEW s \in Seq(Messages), wire' = [wire EXCEPT ![e][l] = s]
  PROVE  WireType'
BY Cell, Zenon DEF WireType

\* A message is written to a link, or none is.
LEMMA WirePosted ==
  ASSUME WireType, NEW e \in Ends, NEW l \in Links, NEW m \in Messages,
         wire' = wire \/ wire' = [wire EXCEPT ![e][l] = Append(wire[e][l], m)]
  PROVE  WireType'
<1>1. Append(wire[e][l], m) \in Seq(Messages)
  BY DEF WireType
<1> QED BY <1>1, WireCell, Zenon DEF WireType

\* The next message is taken from a link.
LEMMA WireTaken ==
  ASSUME WireType, NEW e \in Ends, NEW l \in Links, wire[e][l] # <<>>, wire' = [wire EXCEPT ![e][l] = Tail(wire[e][l])]
  PROVE  WireType'
<1>1. Tail(wire[e][l]) \in Seq(Messages)
  BY DEF WireType
<1> QED BY <1>1, WireCell, Zenon

\* A dispatcher takes, passes on or lets go of a frame.
LEMMA HandCell ==
  ASSUME HandType, NEW e \in Ends, NEW l \in Links, NEW x \in Hands, x.at = "idle" <=> x.n = 0,
         hand' = [hand EXCEPT ![e][l] = x], waiters' \subseteq Links, woken' \subseteq Links
  PROVE  HandType'
<1>1. /\ hand' \in [Ends -> [Links -> Hands]] /\ hand'[e][l] = x
      /\ \A f \in Ends, k \in Links : f # e \/ k # l => hand'[f][k] = hand[f][k]
  BY Cell DEF HandType
<1>2. ASSUME NEW f \in Ends, NEW k \in Links PROVE hand'[f][k].at = "idle" <=> hand'[f][k].n = 0
  BY <1>1 DEF HandType
<1> QED BY <1>1, <1>2, Zenon DEF HandType

\* One of two buffers grows or shrinks.
LEMMA Buffers ==
  ASSUME NEW q \in [Ends -> Seq(Frames)], NEW e \in Ends
  PROVE  /\ \A x \in Frames : LET r == [q EXCEPT ![e] = Append(q[e], x)]
                              IN  /\ r \in [Ends -> Seq(Frames)]
                                  /\ r[e] = Append(q[e], x) /\ Len(r[e]) = Len(q[e]) + 1
                                  /\ \A f \in Ends : f # e => r[f] = q[f]
         /\ q[e] # <<>> => LET r == [q EXCEPT ![e] = Tail(q[e])]
                           IN  /\ r \in [Ends -> Seq(Frames)] /\ Head(q[e]) \in Frames
                               /\ r[e] = Tail(q[e]) /\ Len(r[e]) = Len(q[e]) - 1
                               /\ \A f \in Ends : f # e => r[f] = q[f]
<1>1. q[e] \in Seq(Frames)
  BY Zenon
<1>2. /\ \A x \in Frames : Append(q[e], x) \in Seq(Frames) /\ Len(Append(q[e], x)) = Len(q[e]) + 1
      /\ q[e] # <<>> => Tail(q[e]) \in Seq(Frames) /\ Len(Tail(q[e])) = Len(q[e]) - 1 /\ Head(q[e]) \in Frames
  BY <1>1
<1>3. \A s \in Seq(Frames) : LET r == [q EXCEPT ![e] = s]
                             IN  r \in [Ends -> Seq(Frames)] /\ r[e] = s /\ \A f \in Ends : f # e => r[f] = q[f]
  BY Zenon
<1> QED BY <1>2, <1>3, Zenon

\* A session takes the next frame of its inbound queue.
LEMMA InboundTaken ==
  ASSUME InboundType, NEW e \in Ends, inbound[e] # <<>>, inbound' = [inbound EXCEPT ![e] = Tail(inbound[e])]
  PROVE  InboundType'
<1>1. inbound \in [Ends -> Seq(Frames)] /\ \A f \in Ends : Len(inbound[f]) \in Nat /\ Len(inbound[f]) <= Inbound
  BY DEF InboundType
<1>2. /\ inbound' \in [Ends -> Seq(Frames)] /\ Len(inbound'[e]) = Len(inbound[e]) - 1
      /\ \A f \in Ends : f # e => inbound'[f] = inbound[f]
  BY <1>1, Buffers, Zenon
<1>3. Len(inbound'[e]) <= Inbound
  BY <1>1, <1>2, SecureAssumption
<1>4. ASSUME NEW f \in Ends PROVE Len(inbound'[f]) <= Inbound
  BY <1>1, <1>2, <1>3, Zenon
<1> QED BY <1>2, <1>4, Zenon DEF InboundType

\* A payload is put in the queue of a channel when there is room, or dropped.
LEMMA Enqueued ==
  ASSUME LinkType, QueueType, UNCHANGED <<plan, got>>, NEW e \in Ends, NEW n \in Frames,
         \/ queue' = queue
         \/ Len(queue[e]) < Queue(e) /\ queue' = [queue EXCEPT ![e] = Append(queue[e], n)]
  PROVE  QueueType'
<1>1. queue \in [Ends -> Seq(Frames)] /\ got \in [Ends -> Seq(Frames)] /\ \A f \in Ends : Len(queue[f]) \in Nat /\ Len(queue[f]) <= Queue(f)
  BY DEF QueueType
<1>2. \A f \in Ends : Queue(f)' = Queue(f) /\ Queue(f) \in Nat
  BY SecureAssumption, Zenon DEF Queue, LinkType
<1>3. CASE queue' = queue
  BY <1>1, <1>2, <1>3, Zenon DEF QueueType
<1>4. CASE Len(queue[e]) < Queue(e) /\ queue' = [queue EXCEPT ![e] = Append(queue[e], n)]
  <2>1. /\ queue' \in [Ends -> Seq(Frames)] /\ Len(queue'[e]) = Len(queue[e]) + 1
        /\ \A f \in Ends : f # e => queue'[f] = queue[f]
    BY <1>1, <1>4, Buffers, Zenon
  <2>2. ASSUME NEW f \in Ends PROVE Len(queue'[f]) <= Queue(f)
    BY <1>1, <1>2, <1>4, <2>1
  <2> QED BY <1>1, <1>2, <2>1, <2>2, Zenon DEF QueueType
<1> QED BY <1>3, <1>4, Zenon

\* A session reads a frame, seals one, both or neither.
LEMMA Numbered ==
  ASSUME FrameType, NEW e \in Ends, read' = read \/ read' = [read EXCEPT ![e] = read[e] + 1],
         \/ sent' = sent /\ writing' = writing
         \/ sent' = [sent EXCEPT ![e] = sent[e] + 1] /\ writing' = [writing EXCEPT ![e] = TRUE]
  PROVE  FrameType'
<1>1. sent \in [Ends -> Nat] /\ read \in [Ends -> Nat] /\ writing \in [Ends -> BOOLEAN] /\ \A f \in Ends : writing[f] => sent[f] > 0
  BY Zenon DEF FrameType
<1>2. read' \in [Ends -> Nat]
  BY <1>1
<1>3. [sent EXCEPT ![e] = sent[e] + 1] \in [Ends -> Nat] /\ [writing EXCEPT ![e] = TRUE] \in [Ends -> BOOLEAN]
  BY <1>1
<1>4. ASSUME NEW f \in Ends, writing'[f] PROVE sent'[f] > 0
  BY <1>1, <1>4
<1> QED BY <1>1, <1>2, <1>3, <1>4, Zenon DEF FrameType

-----------------------------------------------------------------------------
(* ChannelOpen is written once, before the relay's session starts.         *)

\* The messages behind the first.
LEMMA TailFacts ==
  ASSUME NEW S, NEW s \in Seq(S), s # <<>>
  PROVE  DOMAIN Tail(s) = 1 .. Len(s) - 1 /\ \A i \in 1 .. Len(s) - 1 : Tail(s)[i] = s[i + 1] /\ i + 1 \in DOMAIN s
OBVIOUS

\* The messages with one more.
LEMMA AppendFacts ==
  ASSUME NEW S, NEW s \in Seq(S), NEW m \in S
  PROVE  /\ DOMAIN Append(s, m) = 1 .. Len(s) + 1 /\ Append(s, m)[Len(s) + 1] = m
         /\ DOMAIN s = 1 .. Len(s) /\ \A i \in 1 .. Len(s) : Append(s, m)[i] = s[i]
OBVIOUS

\* Another message behind it.
LEMMA OpensAppended ==
  ASSUME WireType, NEW e \in Ends, NEW l \in Links, NEW m \in Messages, m.kind # "open",
         wire' = [wire EXCEPT ![e][l] = Append(wire[e][l], m)]
  PROVE  \A k \in Links, i \in Nat : Opens(k, i)' => Opens(k, i)
<1> SUFFICES ASSUME NEW k \in Links, NEW i \in Nat, Opens(k, i)' PROVE Opens(k, i)
  BY Zenon
<1>1. wire[e][l] \in Seq(Messages) /\ Append(wire[e][l], m) \in Seq(Messages)
  BY DEF WireType
<1>2. /\ wire'[e][l] = Append(wire[e][l], m)
      /\ "dialer" # e \/ k # l => wire'["dialer"][k] = wire["dialer"][k]
  BY <1>1, Cell DEF WireType, Ends
<1>3. CASE e = "dialer" /\ k = l
  <2>1. i \in 1 .. Len(wire[e][l]) + 1 /\ Append(wire[e][l], m)[i].kind = "open"
    BY <1>1, <1>2, <1>3 DEF Opens
  <2>2. i # Len(wire[e][l]) + 1
    BY <1>1, <2>1
  <2> QED BY <1>1, <1>3, <2>1, <2>2 DEF Opens
<1>4. CASE ~(e = "dialer" /\ k = l)
  BY <1>2, <1>4, Zenon DEF Opens
<1> QED BY <1>3, <1>4, Zenon

\* A message is taken.
LEMMA OpensTaken ==
  ASSUME WireType, NEW e \in Ends, NEW l \in Links, wire[e][l] # <<>>,
         wire'["dialer"] = [wire EXCEPT ![e][l] = Tail(wire[e][l])]["dialer"]
  PROVE  \A k \in Links, i \in Nat : Opens(k, i)' => i > 0 /\ Opens(k, IF e = "dialer" /\ k = l THEN i + 1 ELSE i)
<1> SUFFICES ASSUME NEW k \in Links, NEW i \in Nat, Opens(k, i)'
             PROVE  i > 0 /\ Opens(k, IF e = "dialer" /\ k = l THEN i + 1 ELSE i)
  BY Zenon
<1>1. wire[e][l] \in Seq(Messages) /\ Tail(wire[e][l]) \in Seq(Messages) /\ wire["dialer"][k] \in Seq(Messages)
  BY DEF WireType, Ends
<1> DEFINE t == Tail(wire[e][l])
           rest == [wire EXCEPT ![e][l] = t]
<1>a. rest[e][l] = t /\ \A f \in Ends, j \in Links : f # e \/ j # l => rest[f][j] = wire[f][j]
  <2>1. wire \in [Ends -> [Links -> Seq(Messages)]] /\ t \in Seq(Messages)
    BY <1>1 DEF WireType
  <2> HIDE DEF t
  <2> QED BY <2>1, Cell
<1>b. wire'["dialer"] = rest["dialer"] /\ "dialer" \in Ends
  BY Zenon DEF Ends
<1> HIDE DEF rest
<1>2. /\ e = "dialer" => wire'[e][l] = Tail(wire[e][l])
      /\ "dialer" # e \/ k # l => wire'["dialer"][k] = wire["dialer"][k]
  BY <1>a, <1>b, Zenon
<1>3. CASE e = "dialer" /\ k = l
  <2>1. i \in DOMAIN Tail(wire[e][l]) /\ Tail(wire[e][l])[i].kind = "open"
    BY <1>2, <1>3, Zenon DEF Opens
  <2>2. i + 1 \in DOMAIN wire[e][l] /\ wire[e][l][i + 1].kind = "open" /\ i > 0
    BY <1>1, <2>1, TailFacts
  <2> QED BY <1>3, <2>2, Zenon DEF Opens
<1>4. CASE ~(e = "dialer" /\ k = l)
  <2>1. Opens(k, i)
    BY <1>2, <1>4, Zenon DEF Opens
  <2>2. i > 0
    BY <1>1, <2>1 DEF Opens
  <2> QED BY <1>4, <2>1, <2>2, Zenon
<1> QED BY <1>3, <1>4, Zenon

\* Nothing is written, and the relay's session has not started or does not start.
LEMMA OpenKept ==
  ASSUME OpenInv, opener' = "open" => opener = "open", at["dialer"] = "idle" => at'["dialer"] = "idle",
         \A k \in Links, i \in Nat : Opens(k, i)' => Opens(k, i)
  PROVE  OpenInv'
BY Zenon DEF OpenInv

\* The same with a message taken from one link.
LEMMA OpenMoved ==
  ASSUME OpenInv, opener' = opener, at'["dialer"] = at["dialer"], NEW e \in Ends, NEW l \in Links,
         \A k \in Links, i \in Nat : Opens(k, i)' => i > 0 /\ Opens(k, IF e = "dialer" /\ k = l THEN i + 1 ELSE i)
  PROVE  OpenInv'
<1> DEFINE Was(k, i) == IF e = "dialer" /\ k = l THEN i + 1 ELSE i
<1>1. \A k \in Links, i \in Nat : Was(k, i) \in Nat /\ (Opens(k, i)' => Opens(k, Was(k, i)))
  OBVIOUS
<1>2. \A k \in Links, i, j \in Nat : Was(k, i) = Was(k, j) => i = j
  OBVIOUS
<1> HIDE DEF Was
<1>3. opener' = "open" => at'["dialer"] = "idle" /\ \A k \in Links, i \in Nat : ~Opens(k, i)'
  BY <1>1 DEF OpenInv
<1>4. ASSUME NEW k \in Links, NEW m \in Links, NEW i \in Nat, NEW j \in Nat, Opens(k, i)', Opens(m, j)' PROVE k = m /\ i = j
  BY <1>1, <1>2, <1>4 DEF OpenInv
<1>5. ASSUME NEW k \in Links, NEW i \in Nat, Opens(k, i)' PROVE at'["dialer"] = "idle"
  BY <1>1, <1>5 DEF OpenInv
<1> QED BY <1>3, <1>4, <1>5, Zenon DEF OpenInv

\* OpenInv is kept while the wire is unchanged and the relay's session, once it is past its idle stage, moves on.
LEMMA OpenPast ==
  ASSUME OpenInv, wire' = wire, opener' = "open" => opener = "open",
         at["dialer"] = "idle" => at'["dialer"] = "idle"
  PROVE  OpenInv'
BY OpenKept, Zenon DEF Opens

\* The same when another message may be written.
LEMMA OpenPosted ==
  ASSUME WireType, OpenInv, opener' = opener, at["dialer"] = "idle" => at'["dialer"] = "idle",
         NEW e \in Ends, NEW l \in Links, NEW m \in Messages, m.kind # "open",
         wire' = wire \/ wire' = [wire EXCEPT ![e][l] = Append(wire[e][l], m)]
  PROVE  OpenInv'
<1>1. CASE wire' = wire
  BY <1>1, OpenPast, Zenon
<1>2. CASE wire' = [wire EXCEPT ![e][l] = Append(wire[e][l], m)]
  <2>1. \A k \in Links, i \in Nat : Opens(k, i)' => Opens(k, i)
    BY <1>2, OpensAppended, Zenon
  <2> QED BY <2>1, OpenKept, Zenon
<1> QED BY <1>1, <1>2, Zenon

\* The same when a message is taken.
LEMMA OpenTaken ==
  ASSUME WireType, OpenInv, opener' = opener, at'["dialer"] = at["dialer"], NEW e \in Ends, NEW l \in Links,
         wire[e][l] # <<>>, wire'["dialer"] = [wire EXCEPT ![e][l] = Tail(wire[e][l])]["dialer"]
  PROVE  OpenInv'
<1>1. \A k \in Links, i \in Nat : Opens(k, i)' => i > 0 /\ Opens(k, IF e = "dialer" /\ k = l THEN i + 1 ELSE i)
  BY OpensTaken, Zenon
<1> QED BY <1>1, OpenMoved, Zenon

-----------------------------------------------------------------------------
(* The frames on their way to an end, in the five ways a step can move     *)
(* them.  Same, Thins: all of them still fly, or no others do.             *)

Same(f) == Orderly(f)' /\ \A l \in Links, n \in Frames : Flies(f, l, n)' <=> Flies(f, l, n)
Thins(f) == Orderly(f)' /\ \A l \in Links, n \in Frames : Flies(f, l, n)' => Flies(f, l, n)
Rests(f) == read'[f] = read[f] /\ inbound'[f] = inbound[f]
Leaves(f) == (done[f] => done'[f]) /\ (disturbed => disturbed')
Idles(f) == /\ sent'[Peer(f)] = sent[Peer(f)] /\ (writing'[Peer(f)] => writing[Peer(f)])
            /\ Unwritten(Peer(f)) => Unwritten(Peer(f))'
\* A step that touches neither the frames nor their numbers, and wakes no session.
Calm == /\ UNCHANGED <<wire, hand, sent, writing, read, inbound, disturbed>>
        /\ \A g \in Ends : (done[g] => done'[g]) /\ (at[g] \in Settled => at'[g] \in Settled)

\* What the numbers of an end are.
LEMMA Numbers ==
  ASSUME FrameType, InboundType, NEW f \in Ends
  PROVE  /\ Peer(f) \in Ends /\ sent[Peer(f)] \in Nat /\ read[f] \in Nat /\ inbound[f] \in Seq(Frames)
         /\ Len(inbound[f]) \in Nat /\ DOMAIN inbound[f] = 1 .. Len(inbound[f]) /\ Top(f) \in Nat
         /\ \A i \in DOMAIN inbound[f] : inbound[f][i] \in Nat
BY DEF FrameType, InboundType, Ends, Peer, Top, Frames

\* Frames fly on, or are lost once that no longer matters.
LEMMA FlightKept ==
  ASSUME FrameType, InboundType, NEW f \in Ends, FlightInv(f), ChainInv(f),
         Rests(f), Leaves(f), Idles(f), Same(f) \/ (Thins(f) /\ (done'[f] \/ disturbed'))
  PROVE  FlightInv(f)' /\ ChainInv(f)'
<1>0. /\ Peer(f) \in Ends /\ sent[Peer(f)] \in Nat /\ read[f] \in Nat /\ Top(f) \in Nat
      /\ read'[f] = read[f] /\ inbound'[f] = inbound[f] /\ sent'[Peer(f)] = sent[Peer(f)]
      /\ Top(f)' = Top(f)
  BY Numbers, Zenon DEF Rests, Idles, Top
<1>1. \A n \in Nat : Used(Peer(f), n) => Used(Peer(f), n)'
  BY <1>0 DEF Used, Idles
<1>2. Thins(f)
  BY Zenon DEF Same, Thins
<1>3. FlightInv(f)'
  BY <1>0, <1>1, <1>2, Zenon DEF FlightInv, Thins, Frames
<1>4. ChainInv(f)'
  <2> SUFFICES ASSUME ~done'[f], ~disturbed' PROVE ChainInv(f)'
    BY Zenon DEF ChainInv
  <2>1. ~done[f] /\ ~disturbed /\ Same(f)
    BY Zenon DEF Leaves
  <2>2. \A i \in DOMAIN inbound'[f] : inbound'[f][i] = read'[f] + i
    BY <1>0, <2>1, Zenon DEF ChainInv
  <2>3. Used(Peer(f), Top(f))'
    BY <1>0, <1>1, <2>1, Zenon DEF ChainInv, Used
  <2>4. \A l \in Links, n \in Frames : Flies(f, l, n)' => n > Top(f)'
    BY <1>0, <2>1, Zenon DEF ChainInv, Same
  <2>5. \A n \in Frames : Top(f)' < n /\ n <= sent'[Peer(f)]
          => (\E l \in Links : Flies(f, l, n)') \/ (n = sent'[Peer(f)] /\ Unwritten(Peer(f))')
    BY <1>0, <2>1, Zenon DEF ChainInv, Same, Idles
  <2> QED BY <2>2, <2>3, <2>4, <2>5, Zenon DEF ChainInv
<1> QED BY <1>3, <1>4, Zenon

\* The peer seals the next frame, having written all others.
LEMMA FlightSealed ==
  ASSUME FrameType, InboundType, NEW f \in Ends, FlightInv(f), ChainInv(f),
         Rests(f), Leaves(f), Same(f), ~Unwritten(Peer(f)),
         sent'[Peer(f)] = sent[Peer(f)] + 1, writing'[Peer(f)]
  PROVE  FlightInv(f)' /\ ChainInv(f)'
<1>0. /\ Peer(f) \in Ends /\ sent[Peer(f)] \in Nat /\ read[f] \in Nat /\ Top(f) \in Nat
      /\ read'[f] = read[f] /\ inbound'[f] = inbound[f] /\ Top(f)' = Top(f)
      /\ \A i \in DOMAIN inbound[f] : inbound[f][i] \in Nat
  BY Numbers, Zenon DEF Rests, Top
<1>1. \A n \in Nat : Used(Peer(f), n) => Used(Peer(f), n)'
  BY <1>0 DEF Used
<1>2. FlightInv(f)'
  <2>1. \A l \in Links, n \in Frames : Flies(f, l, n)' => Used(Peer(f), n)'
    BY <1>1, Zenon DEF FlightInv, Same, Frames
  <2>2. \A i \in DOMAIN inbound'[f] : inbound'[f][i] <= sent'[Peer(f)]
    BY <1>0 DEF FlightInv
  <2>3. read'[f] <= sent'[Peer(f)]
    BY <1>0 DEF FlightInv
  <2>4. \A k, l \in Links, n \in Frames : Flies(f, k, n)' /\ Flies(f, l, n)' => k = l
    BY Zenon DEF FlightInv, Same
  <2> QED BY <2>1, <2>2, <2>3, <2>4, Zenon DEF FlightInv, Same
<1>3. ChainInv(f)'
  <2> SUFFICES ASSUME ~done'[f], ~disturbed' PROVE ChainInv(f)'
    BY Zenon DEF ChainInv
  <2>1. ~done[f] /\ ~disturbed
    BY Zenon DEF Leaves
  <2>2. \A i \in DOMAIN inbound'[f] : inbound'[f][i] = read'[f] + i
    BY <1>0, <2>1, Zenon DEF ChainInv
  <2>3. Used(Peer(f), Top(f))'
    BY <1>0, <1>1, <2>1, Zenon DEF ChainInv, Used
  <2>4. \A l \in Links, n \in Frames : Flies(f, l, n)' => n > Top(f)'
    BY <1>0, <2>1, Zenon DEF ChainInv, Same
  <2>5. ASSUME NEW n \in Frames, Top(f)' < n, n <= sent'[Peer(f)]
        PROVE  (\E l \in Links : Flies(f, l, n)') \/ (n = sent'[Peer(f)] /\ Unwritten(Peer(f))')
    <3>1. CASE n = sent'[Peer(f)]
      BY <3>1, Zenon DEF Unwritten
    <3>2. CASE n <= sent[Peer(f)]
      BY <1>0, <2>1, <2>5, <3>2, Zenon DEF ChainInv, Same
    <3> QED BY <1>0, <2>5, <3>1, <3>2 DEF Frames
  <2> QED BY <2>2, <2>3, <2>4, <2>5, Zenon DEF ChainInv
<1> QED BY <1>2, <1>3, Zenon

\* The peer writes the frame it has sealed.
LEMMA FlightWritten ==
  ASSUME FrameType, InboundType, NEW f \in Ends, FlightInv(f), ChainInv(f), NEW o \in Links,
         Rests(f), Leaves(f), Orderly(f)', writing[Peer(f)], ~writing'[Peer(f)],
         sent'[Peer(f)] = sent[Peer(f)],
         \A l \in Links, n \in Frames : Flies(f, l, n)' <=> Flies(f, l, n) \/ (l = o /\ n = sent[Peer(f)])
  PROVE  FlightInv(f)' /\ ChainInv(f)'
<1>0. /\ Peer(f) \in Ends /\ sent[Peer(f)] \in Nat /\ read[f] \in Nat /\ Top(f) \in Nat
      /\ read'[f] = read[f] /\ inbound'[f] = inbound[f] /\ Top(f)' = Top(f)
  BY Numbers, Zenon DEF Rests, Top
<1>1. \A n \in Nat : (Used(Peer(f), n) <=> n < sent[Peer(f)]) /\ (Used(Peer(f), n)' <=> n <= sent[Peer(f)])
  BY Zenon DEF Used
<1>2. \A l \in Links : ~Flies(f, l, sent[Peer(f)])
  BY <1>0, <1>1 DEF FlightInv, Frames, FrameType
<1>3. FlightInv(f)'
  <2>1. \A l \in Links, n \in Frames : Flies(f, l, n)' => Used(Peer(f), n)'
    BY <1>0, <1>1 DEF FlightInv, Frames
  <2>2. \A k, l \in Links, n \in Frames : Flies(f, k, n)' /\ Flies(f, l, n)' => k = l
    BY <1>2 DEF FlightInv
  <2> QED BY <1>0, <2>1, <2>2, Zenon DEF FlightInv
<1>4. ChainInv(f)'
  <2> SUFFICES ASSUME ~done'[f], ~disturbed' PROVE ChainInv(f)'
    BY Zenon DEF ChainInv
  <2>1. ~done[f] /\ ~disturbed
    BY Zenon DEF Leaves
  <2>2. \A i \in DOMAIN inbound'[f] : inbound'[f][i] = read'[f] + i
    BY <1>0, <2>1, Zenon DEF ChainInv
  <2>3. Top(f) < sent[Peer(f)]
    BY <1>0, <1>1, <2>1, Zenon DEF ChainInv
  <2>4. Used(Peer(f), Top(f))'
    BY <1>0, <2>3 DEF Used
  <2>5. \A l \in Links, n \in Frames : Flies(f, l, n)' => n > Top(f)'
    BY <1>0, <2>1, <2>3, Zenon DEF ChainInv
  <2>6. ASSUME NEW n \in Frames, Top(f)' < n, n <= sent'[Peer(f)]
        PROVE  \E l \in Links : Flies(f, l, n)'
    BY <1>0, <2>1, <2>6 DEF ChainInv
  <2> QED BY <2>2, <2>4, <2>5, <2>6, Zenon DEF ChainInv
<1> QED BY <1>3, <1>4, Zenon

\* A dispatcher hands its frame over, or drops it once the session has ended.
LEMMA FlightDelivered ==
  ASSUME FrameType, InboundType, NEW f \in Ends, FlightInv(f), ChainInv(f), NEW o \in Links, NEW m \in Frames,
         Orderly(f)', Leaves(f), Idles(f), read'[f] = read[f], Flies(f, o, m),
         \A l \in Links, n \in Frames : Flies(f, l, n)' <=> Flies(f, l, n) /\ ~(l = o /\ n = m),
         \/ inbound'[f] = Append(inbound[f], m) /\ (disturbed' \/ \A l \in Links, n \in Frames : Flies(f, l, n) => n >= m)
         \/ inbound'[f] = inbound[f] /\ done'[f]
  PROVE  FlightInv(f)' /\ ChainInv(f)'
<1>0. /\ Peer(f) \in Ends /\ sent[Peer(f)] \in Nat /\ read[f] \in Nat /\ Top(f) \in Nat /\ inbound[f] \in Seq(Frames)
      /\ sent'[Peer(f)] = sent[Peer(f)] /\ m \in Nat
  BY Numbers, Zenon DEF Idles, Frames
<1>1. \A n \in Nat : Used(Peer(f), n) => Used(Peer(f), n)' /\ n <= sent[Peer(f)]
  BY <1>0 DEF Used, Idles
<1>2. m <= sent[Peer(f)]
  BY <1>0, <1>1, Zenon DEF FlightInv
<1>3. FlightInv(f)'
  <2>1. \A l \in Links, n \in Frames : Flies(f, l, n)' => Used(Peer(f), n)'
    BY <1>1, Zenon DEF FlightInv, Frames
  <2>2. \A k, l \in Links, n \in Frames : Flies(f, k, n)' /\ Flies(f, l, n)' => k = l
    BY Zenon DEF FlightInv
  <2>3. \A i \in DOMAIN inbound'[f] : inbound'[f][i] <= sent'[Peer(f)]
    <3>1. CASE inbound'[f] = inbound[f]
      BY <1>0, <3>1, Zenon DEF FlightInv
    <3>2. CASE inbound'[f] = Append(inbound[f], m)
      BY <1>0, <1>2, <3>2, AppendFacts DEF FlightInv
    <3> QED BY <3>1, <3>2, Zenon
  <2> QED BY <1>0, <2>1, <2>2, <2>3, Zenon DEF FlightInv
<1>4. ChainInv(f)'
  <2> SUFFICES ASSUME ~done'[f], ~disturbed' PROVE ChainInv(f)'
    BY Zenon DEF ChainInv
  <2>1. /\ ~done[f] /\ ~disturbed /\ inbound'[f] = Append(inbound[f], m)
        /\ \A l \in Links, n \in Frames : Flies(f, l, n) => n >= m
    BY Zenon DEF Leaves
  <2>2. Top(f)' = Top(f) + 1 /\ Len(inbound[f]) \in Nat
    BY <1>0, <2>1 DEF Top
  <2>3. m = Top(f) + 1
    <3>1. Top(f) + 1 \in Frames /\ Top(f) < Top(f) + 1 /\ Top(f) + 1 <= m /\ Top(f) + 1 <= sent[Peer(f)]
      BY <1>0, <1>2, <2>1 DEF ChainInv, Frames
    <3>2. (\E l \in Links : Flies(f, l, Top(f) + 1)) \/ Top(f) + 1 = sent[Peer(f)]
      BY <2>1, <3>1, Zenon DEF ChainInv
    <3>3. CASE \E l \in Links : Flies(f, l, Top(f) + 1)
      <4>1. Top(f) + 1 >= m
        BY <2>1, <3>1, <3>3, Zenon
      <4> QED BY <1>0, <3>1, <4>1
    <3>4. CASE Top(f) + 1 = sent[Peer(f)]
      BY <1>0, <1>2, <3>1, <3>4
    <3> QED BY <3>2, <3>3, <3>4, Zenon
  <2>4. \A i \in DOMAIN inbound'[f] : inbound'[f][i] = read'[f] + i
    <3>1. \A i \in DOMAIN inbound[f] : inbound[f][i] = read[f] + i
      BY <2>1, Zenon DEF ChainInv
    <3>2. m = read[f] + (Len(inbound[f]) + 1)
      BY <1>0, <2>2, <2>3 DEF Top
    <3>3. \A i \in 1 .. Len(inbound[f]) + 1 : i \in 1 .. Len(inbound[f]) \/ i = Len(inbound[f]) + 1
      BY <2>2
    <3> QED BY <1>0, <2>1, <3>1, <3>2, <3>3, AppendFacts
  <2>5. Used(Peer(f), Top(f))'
    <3>1. Used(Peer(f), m)'
      BY <1>0, <1>1, Zenon DEF FlightInv
    <3> QED BY <2>2, <2>3, <3>1, Zenon DEF Used
  <2>6. \A l \in Links, n \in Frames : Flies(f, l, n)' => n > Top(f)'
    <3>1. ASSUME NEW l \in Links, NEW n \in Frames, Flies(f, l, n)' PROVE n # m
      BY <3>1, Zenon DEF FlightInv
    <3>2. \A n \in Frames : n >= m /\ n # m => n > m
      BY <1>0 DEF Frames
    <3> QED BY <2>1, <2>2, <2>3, <3>1, <3>2, Zenon
  <2>7. ASSUME NEW n \in Frames, Top(f)' < n, n <= sent'[Peer(f)]
        PROVE  (\E l \in Links : Flies(f, l, n)') \/ (n = sent'[Peer(f)] /\ Unwritten(Peer(f))')
    <3>1. Top(f) < n /\ n # m
      BY <1>0, <2>2, <2>3, <2>7 DEF Frames
    <3> QED BY <1>0, <2>1, <2>7, <3>1, Zenon DEF ChainInv, Idles
  <2> QED BY <2>4, <2>5, <2>6, <2>7, Zenon DEF ChainInv
<1> QED BY <1>3, <1>4, Zenon

\* The session's goroutine takes a frame: it is the next one, or the session ends.
LEMMA FlightRead ==
  ASSUME FrameType, InboundType, NEW f \in Ends, FlightInv(f), ChainInv(f),
         Same(f), Leaves(f), Idles(f), inbound[f] # <<>>, inbound'[f] = Tail(inbound[f]),
         \/ Head(inbound[f]) = read[f] + 1 /\ read'[f] = read[f] + 1
         \/ read'[f] = read[f] /\ done'[f]
  PROVE  FlightInv(f)' /\ ChainInv(f)'
<1>0. /\ Peer(f) \in Ends /\ sent[Peer(f)] \in Nat /\ read[f] \in Nat /\ Top(f) \in Nat /\ inbound[f] \in Seq(Frames)
      /\ sent'[Peer(f)] = sent[Peer(f)]
  BY Numbers, Zenon DEF Idles, Frames
<1>1. \A n \in Nat : Used(Peer(f), n) => Used(Peer(f), n)'
  BY <1>0 DEF Used, Idles
<1>2. /\ Len(inbound[f]) \in Nat \ {0} /\ Len(Tail(inbound[f])) = Len(inbound[f]) - 1 /\ 1 \in DOMAIN inbound[f]
      /\ Head(inbound[f]) = inbound[f][1]
  BY <1>0
<1>3. FlightInv(f)'
  <2>1. \A l \in Links, n \in Frames : Flies(f, l, n)' => Used(Peer(f), n)'
    BY <1>1, Zenon DEF FlightInv, Frames, Same
  <2>2. \A k, l \in Links, n \in Frames : Flies(f, k, n)' /\ Flies(f, l, n)' => k = l
    BY Zenon DEF FlightInv, Same
  <2>3. \A i \in DOMAIN inbound'[f] : inbound'[f][i] <= sent'[Peer(f)]
    BY <1>0, TailFacts, Zenon DEF FlightInv
  <2>4. read'[f] <= sent'[Peer(f)]
    BY <1>0, <1>2, Zenon DEF FlightInv
  <2> QED BY <2>1, <2>2, <2>3, <2>4, Zenon DEF FlightInv, Same
<1>4. ChainInv(f)'
  <2> SUFFICES ASSUME ~done'[f], ~disturbed' PROVE ChainInv(f)'
    BY Zenon DEF ChainInv
  <2>1. ~done[f] /\ ~disturbed /\ read'[f] = read[f] + 1
    BY Zenon DEF Leaves
  <2>2. Top(f)' = Top(f)
    BY <1>0, <1>2, <2>1 DEF Top
  <2>3. \A i \in DOMAIN inbound'[f] : inbound'[f][i] = read'[f] + i
    <3>1. \A i \in DOMAIN inbound[f] : inbound[f][i] = read[f] + i
      BY <2>1, Zenon DEF ChainInv
    <3>2. ASSUME NEW i \in 1 .. Len(inbound[f]) - 1 PROVE Tail(inbound[f])[i] = (read[f] + 1) + i
      <4>1. Tail(inbound[f])[i] = read[f] + (i + 1)
        BY <1>0, <3>1, TailFacts, Zenon
      <4>2. i \in Nat /\ read[f] \in Nat
        BY <1>0, <1>2
      <4>3. read[f] + (i + 1) = (read[f] + 1) + i
        BY <4>2
      <4> QED BY <4>1, <4>3, Zenon
    <3> QED BY <1>0, <2>1, <3>2, TailFacts, Zenon
  <2>4. Used(Peer(f), Top(f))'
    BY <1>0, <1>1, <2>1, <2>2, Zenon DEF ChainInv, Used
  <2>5. \A l \in Links, n \in Frames : Flies(f, l, n)' => n > Top(f)'
    BY <2>1, <2>2, Zenon DEF ChainInv, Same
  <2>6. \A n \in Frames : Top(f)' < n /\ n <= sent'[Peer(f)]
          => (\E l \in Links : Flies(f, l, n)') \/ (n = sent'[Peer(f)] /\ Unwritten(Peer(f))')
    BY <1>0, <2>1, <2>2, Zenon DEF ChainInv, Same, Idles
  <2> QED BY <2>3, <2>4, <2>5, <2>6, Zenon DEF ChainInv
<1> QED BY <1>3, <1>4, Zenon

-----------------------------------------------------------------------------
(* What the dispatchers and the writers do to the frames that fly.         *)

\* The messages and the dispatchers' frames of an end are what they were.
LEMMA FlyStill ==
  ASSUME NEW f \in Ends, Orderly(f), \A k \in Links : hand'[f][k].n = hand[f][k].n /\ wire'[f][k] = wire[f][k]
  PROVE  Same(f)
BY Zenon DEF Same, Orderly, Flies

\* A message without a number more.
LEMMA FlyControl ==
  ASSUME WireType, HandType, NEW f \in Ends, Orderly(f), NEW e \in Ends, NEW l \in Links, NEW m \in Messages, m.n = 0,
         hand' = hand, wire' = [wire EXCEPT ![e][l] = Append(wire[e][l], m)]
  PROVE  Same(f)
<1>1. wire[e][l] \in Seq(Messages) /\ Append(wire[e][l], m) \in Seq(Messages) /\ hand[e][l].n \in Nat
  BY DEF WireType, HandType, Hands
<1>2. /\ wire'[e][l] = Append(wire[e][l], m)
      /\ \A k \in Links : f # e \/ k # l => wire'[f][k] = wire[f][k]
  BY <1>1, Cell DEF WireType
<1>3. ASSUME NEW k \in Links
      PROVE  /\ Ascends(hand'[f][k].n, wire'[f][k])
             /\ \A n \in Frames : Flies(f, k, n)' <=> Flies(f, k, n)
  <2>1. CASE f = e /\ k = l
    BY <1>1, <1>2, <2>1, HasControl DEF Flies, Orderly
  <2>2. CASE f # e \/ k # l
    BY <1>2, <2>2, Zenon DEF Flies, Orderly
  <2> QED BY <2>1, <2>2, Zenon
<1> QED BY <1>3, Zenon DEF Same, Orderly

\* A dispatcher takes a message: it holds its frame, or lets it go.
LEMMA FlyTaken ==
  ASSUME WireType, HandType, NEW f \in Ends, Orderly(f), NEW e \in Ends, NEW l \in Links,
         hand[e][l] = Idle, wire[e][l] # <<>>, wire' = [wire EXCEPT ![e][l] = Tail(wire[e][l])],
         \A k \in Links : f # e \/ k # l => hand'[f][k] = hand[f][k],
         hand'[e][l].n = Head(wire[e][l]).n \/ hand'[e][l].n = 0
  PROVE  Thins(f) /\ (f # e \/ hand'[e][l].n = Head(wire[e][l]).n => Same(f))
<1>1. wire[e][l] \in Seq(Messages) /\ Tail(wire[e][l]) \in Seq(Messages) /\ hand[e][l].n = 0
  BY DEF WireType, Idle
<1>2. /\ wire'[e][l] = Tail(wire[e][l])
      /\ \A k \in Links : f # e \/ k # l => wire'[f][k] = wire[f][k]
  BY <1>1, Cell DEF WireType
<1>3. ASSUME NEW k \in Links
      PROVE  /\ Ascends(hand'[f][k].n, wire'[f][k])
             /\ \A n \in Frames : Flies(f, k, n)' => Flies(f, k, n)
             /\ f # e \/ hand'[e][l].n = Head(wire[e][l]).n => \A n \in Frames : Flies(f, k, n)' <=> Flies(f, k, n)
  <2>1. CASE f = e /\ k = l
    BY <1>1, <1>2, <2>1, HasTaken DEF Flies, Orderly
  <2>2. CASE f # e \/ k # l
    BY <1>2, <2>2, Zenon DEF Flies, Orderly
  <2> QED BY <2>1, <2>2, Zenon
<1> QED BY <1>3, Zenon DEF Same, Thins, Orderly

\* A dispatcher lets go of its frame.
LEMMA FlyPut ==
  ASSUME WireType, HandType, NEW f \in Ends, Orderly(f), NEW l \in Links,
         wire' = wire, hand' = [hand EXCEPT ![f][l] = Idle]
  PROVE  /\ Orderly(f)'
         /\ \A k \in Links, n \in Frames : Flies(f, k, n)' <=> Flies(f, k, n) /\ ~(k = l /\ n = hand[f][l].n)
<1>1. /\ hand'[f][l].n = 0 /\ \A k \in Links : k # l => hand'[f][k] = hand[f][k]
      /\ hand[f][l].n \in Nat /\ wire[f][l] \in Seq(Messages)
  BY Cell DEF HandType, Hands, Idle, WireType
<1>2. ASSUME NEW k \in Links
      PROVE  /\ Ascends(hand'[f][k].n, wire'[f][k])
             /\ \A n \in Frames : Flies(f, k, n)' <=> Flies(f, k, n) /\ ~(k = l /\ n = hand[f][l].n)
  <2>1. CASE k = l
    <3>1. \A n \in Frames : Has(0, wire[f][l], n) => n # hand[f][l].n
      BY <1>1, HasPut DEF Orderly, Frames
    <3> QED BY <1>1, <2>1, <3>1, HasPut, Zenon DEF Flies, Orderly
  <2>2. CASE k # l
    BY <1>1, <2>2, Zenon DEF Flies, Orderly
  <2> QED BY <2>1, <2>2, Zenon
<1> QED BY <1>2, Zenon DEF Orderly

\* A frame is written behind all that fly.
LEMMA FlyWritten ==
  ASSUME WireType, HandType, NEW f \in Ends, Orderly(f), NEW l \in Links, NEW m \in Frames,
         \A n \in Frames : Flies(f, l, n) => n < m,
         hand' = hand, wire' = [wire EXCEPT ![f][l] = Append(wire[f][l], Sealed(m))]
  PROVE  /\ Orderly(f)'
         /\ \A k \in Links, n \in Frames : Flies(f, k, n)' <=> Flies(f, k, n) \/ (k = l /\ n = m)
<1>1. /\ Sealed(m) \in Messages /\ Sealed(m).n = m /\ m > 0
      /\ wire[f][l] \in Seq(Messages) /\ hand[f][l].n \in Nat
  BY MessageFacts DEF WireType, HandType, Hands, Frames
<1>2. Append(wire[f][l], Sealed(m)) \in Seq(Messages)
  BY <1>1
<1>3. /\ wire'[f][l] = Append(wire[f][l], Sealed(m))
      /\ \A k \in Links : k # l => wire'[f][k] = wire[f][k]
  BY <1>2, Cell DEF WireType
<1>4. hand[f][l].n < m
  <2>1. hand[f][l].n \in Frames => Flies(f, l, hand[f][l].n)
    BY Zenon DEF Flies, Has
  <2> QED BY <1>1, <2>1, Zenon DEF Frames
<1>5. ASSUME NEW k \in Links
      PROVE  /\ Ascends(hand'[f][k].n, wire'[f][k])
             /\ \A n \in Frames : Flies(f, k, n)' <=> Flies(f, k, n) \/ (k = l /\ n = m)
  <2>1. CASE k = l
    <3>1. \A n \in Frames : Has(hand[f][l].n, wire[f][l], n) => n < m
      BY Zenon DEF Flies
    <3>2. Ascends(hand[f][l].n, wire[f][l])
      BY Zenon DEF Orderly
    <3>3. /\ Ascends(hand[f][l].n, Append(wire[f][l], Sealed(m)))
          /\ \A n \in Frames : Has(hand[f][l].n, Append(wire[f][l], Sealed(m)), n) <=> Has(hand[f][l].n, wire[f][l], n) \/ n = m
      BY <1>1, <1>4, <3>1, <3>2, HasSealed
    <3> QED BY <1>3, <2>1, <3>3, Zenon DEF Flies
  <2>2. CASE k # l
    BY <1>3, <2>2, Zenon DEF Flies, Orderly
  <2> QED BY <2>1, <2>2, Zenon
<1> QED BY <1>5, Zenon DEF Orderly

\* A link breaks behind some of the messages.
LEMMA FlyCut ==
  ASSUME WireType, HandType, NEW f \in Ends, Orderly(f), NEW l \in Links, NEW i \in 0 .. Len(wire[f][l]),
         hand' = hand, wire'[f][l] = SubSeq(wire[f][l], 1, i), \A k \in Links : k # l => wire'[f][k] = wire[f][k]
  PROVE  Thins(f) /\ (~Loses(f, l, i) => Same(f))
<1>1. wire[f][l] \in Seq(Messages) /\ hand[f][l].n \in Nat
  BY DEF WireType, HandType, Hands
<1>2. ASSUME NEW k \in Links
      PROVE  /\ Ascends(hand'[f][k].n, wire'[f][k])
             /\ \A n \in Frames : Flies(f, k, n)' => Flies(f, k, n)
             /\ ~Loses(f, l, i) => \A n \in Frames : Flies(f, k, n)' <=> Flies(f, k, n)
  <2>1. CASE k = l
    <3>1. Ascends(hand[f][l].n, wire[f][l]) /\ (~Loses(f, l, i) => \A j \in i + 1 .. Len(wire[f][l]) : wire[f][l][j].kind # "sealed")
      BY Zenon DEF Orderly, Loses
    <3>2. /\ Ascends(hand[f][l].n, SubSeq(wire[f][l], 1, i))
          /\ \A n \in Frames : Has(hand[f][l].n, SubSeq(wire[f][l], 1, i), n) => Has(hand[f][l].n, wire[f][l], n)
          /\ ~Loses(f, l, i) => \A n \in Frames : Has(hand[f][l].n, wire[f][l], n) => Has(hand[f][l].n, SubSeq(wire[f][l], 1, i), n)
      BY <1>1, <3>1, HasCut, Zenon
    <3> QED BY <2>1, <3>2, Zenon DEF Flies
  <2>2. CASE k # l
    BY <2>2, Zenon DEF Flies, Orderly
  <2> QED BY <2>1, <2>2, Zenon
<1> QED BY <1>2, Zenon DEF Same, Thins, Orderly

-----------------------------------------------------------------------------
(* The types.                                                              *)

\* All types hold at first.
LEMMA TypeInit == Init => TypeInv
<1> SUFFICES ASSUME Init PROVE TypeInv
  BY Zenon
<1>1. LinkType
  BY SecureAssumption, Zenon DEF Init, LinkType, Ends
<1>2. WireType
  BY SecureAssumption DEF Init, WireType, Ends
<1>3. HandType
  BY SecureAssumption, Zenon DEF Init, HandType, Ends, Idle, Hands
<1>4. FlagType
  BY SecureAssumption, Zenon DEF Init, FlagType, Ends
<1>5. AtType
  BY SecureAssumption, Zenon DEF Init, AtType, Ends
<1>6. CauseType
  BY SecureAssumption, Zenon DEF Init, CauseType, Ends
<1>7. FrameType
  BY SecureAssumption, Zenon DEF Init, FrameType, Ends
<1>8. HeldType
  BY SecureAssumption, Zenon DEF Init, HeldType, Ends
<1>9. InboundType
  BY SecureAssumption DEF Init, InboundType, Ends
<1>10. ChannelType
  BY SecureAssumption, Zenon DEF Init, ChannelType, Ends
<1>11. QueueType
  BY SecureAssumption DEF Init, QueueType, Ends, Queue
<1> QED
  BY <1>1, <1>2, <1>3, <1>4, <1>5, <1>6, <1>7, <1>8, <1>9, <1>10, <1>11, Zenon DEF TypeInv

\* A type whose variables are unchanged still holds.
LEMMA TypesKept ==
  /\ LinkType /\ UNCHANGED <<plan, link, resuming, via>> => LinkType'
  /\ WireType /\ UNCHANGED <<wire>> => WireType'
  /\ HandType /\ UNCHANGED <<hand, waiters, woken>> => HandType'
  /\ FlagType /\ UNCHANGED <<registered, done, disturbed>> => FlagType'
  /\ AtType /\ UNCHANGED <<opener, at>> => AtType'
  /\ CauseType /\ UNCHANGED <<cause>> => CauseType'
  /\ FrameType /\ UNCHANGED <<sent, read, writing>> => FrameType'
  /\ HeldType /\ UNCHANGED <<at, read>> => HeldType'
  /\ InboundType /\ UNCHANGED <<inbound>> => InboundType'
  /\ ChannelType /\ UNCHANGED <<bound, dial, ending, over>> => ChannelType'
  /\ QueueType /\ UNCHANGED <<queue, got, plan>> => QueueType'
<1>1. LinkType /\ UNCHANGED <<plan, link, resuming, via>> => LinkType'
  BY Zenon DEF LinkType
<1>2. WireType /\ UNCHANGED <<wire>> => WireType'
  BY Zenon DEF WireType
<1>3. HandType /\ UNCHANGED <<hand, waiters, woken>> => HandType'
  BY Zenon DEF HandType
<1>4. FlagType /\ UNCHANGED <<registered, done, disturbed>> => FlagType'
  BY Zenon DEF FlagType
<1>5. AtType /\ UNCHANGED <<opener, at>> => AtType'
  BY Zenon DEF AtType
<1>6. CauseType /\ UNCHANGED <<cause>> => CauseType'
  BY Zenon DEF CauseType
<1>7. FrameType /\ UNCHANGED <<sent, read, writing>> => FrameType'
  BY Zenon DEF FrameType
<1>8. HeldType /\ UNCHANGED <<at, read>> => HeldType'
  BY Zenon DEF HeldType
<1>9. InboundType /\ UNCHANGED <<inbound>> => InboundType'
  BY Zenon DEF InboundType
<1>10. ChannelType /\ UNCHANGED <<bound, dial, ending, over>> => ChannelType'
  BY Zenon DEF ChannelType
<1>11. QueueType /\ UNCHANGED <<queue, got, plan>> => QueueType'
  BY Zenon DEF QueueType, Queue
<1> QED BY <1>1, <1>2, <1>3, <1>4, <1>5, <1>6, <1>7, <1>8, <1>9, <1>10, <1>11, Zenon

\* And keep to hold, one step for each action.
LEMMA TypeNext == TypeInv /\ [Next]_vars => TypeInv'
<1> SUFFICES ASSUME TypeInv, [Next]_vars PROVE TypeInv'
  BY Zenon
<1>0. /\ LinkType /\ WireType /\ HandType /\ FlagType /\ AtType /\ CauseType /\ FrameType /\ HeldType /\ InboundType /\ ChannelType /\ QueueType
  BY Zenon DEF TypeInv
<1> USE DEF transport, claim, session, channel
<1>1. ASSUME NEW l \in Links, Reconnect(l) PROVE TypeInv'
  <2>1. LinkType'
    BY <1>0, <1>1, Zenon DEF Reconnect, Ends, LinkType
  <2> QED
    BY <1>0, <1>1, <2>1, TypesKept, Zenon DEF Reconnect, TypeInv
<1>2. ASSUME NEW l \in Links, Resume(l) PROVE TypeInv'
  <2>1. LinkType'
    BY <1>0, <1>2, Zenon DEF Resume, Up, Post, Control, Ends, LinkType
  <2>2. WireType'
    <3>1. Control("resume") \in Messages /\ "dialer" \in Ends
      BY MessageFacts, Zenon DEF Ends
    <3>2. wire' = wire \/ wire' = [wire EXCEPT !["dialer"][l] = Append(wire["dialer"][l], Control("resume"))]
      BY <1>2, Zenon DEF Resume, Post
    <3> QED
      BY <1>0, <3>1, <3>2, WirePosted, Zenon
  <2> QED
    BY <1>0, <1>2, <2>1, <2>2, TypesKept, Zenon DEF Resume, TypeInv
<1>3. ASSUME NEW l \in Links, Break(l) PROVE TypeInv'
  <2>1. LinkType' /\ FlagType'
    BY <1>0, <1>3, Zenon DEF Break, Loses, Ends, LinkType, FlagType
  <2>2. WireType'
    <3>1. PICK i \in 0 .. Len(wire["entry"][l]), j \in 0 .. Len(wire["dialer"][l]) :
            wire' = [wire EXCEPT !["entry"][l] = SubSeq(wire["entry"][l], 1, i), !["dialer"][l] = SubSeq(wire["dialer"][l], 1, j)]
      BY <1>3, Zenon DEF Break
    <3> DEFINE first == [wire EXCEPT !["entry"][l] = SubSeq(wire["entry"][l], 1, i)]
    <3>2. wire["entry"][l] \in Seq(Messages) /\ wire["dialer"][l] \in Seq(Messages)
      BY <1>0, Zenon DEF WireType, Ends
    <3>3. SubSeq(wire["entry"][l], 1, i) \in Seq(Messages) /\ SubSeq(wire["dialer"][l], 1, j) \in Seq(Messages)
      BY <3>2, Cut, Zenon
    <3>4. first \in [Ends -> [Links -> Seq(Messages)]]
      BY <1>0, <3>3, Cell, Zenon DEF WireType, Ends
    <3>5. wire' = [first EXCEPT !["dialer"][l] = SubSeq(wire["dialer"][l], 1, j)]
      BY <3>1, Zenon
    <3> HIDE DEF first
    <3> QED
      BY <3>3, <3>4, <3>5, Cell DEF WireType, Ends
  <2> QED
    BY <1>0, <1>3, <2>1, <2>2, TypesKept, Zenon DEF Break, TypeInv
<1>4. ASSUME NEW l \in Links, OpenChannel(l) PROVE TypeInv'
  <2>1. AtType' /\ FrameType' /\ HeldType'
    BY <1>0, <1>4 DEF OpenChannel, Post, Control, Up, Ends, AtType, FrameType, HeldType
  <2>2. WireType'
    <3>1. Control("open") \in Messages /\ "dialer" \in Ends
      BY MessageFacts, Zenon DEF Ends
    <3>2. wire' = wire \/ wire' = [wire EXCEPT !["dialer"][l] = Append(wire["dialer"][l], Control("open"))]
      BY <1>4, Zenon DEF OpenChannel, Post
    <3> QED
      BY <1>0, <3>1, <3>2, WirePosted, Zenon
  <2> QED
    BY <1>0, <1>4, <2>1, <2>2, TypesKept, Zenon DEF OpenChannel, TypeInv
<1>5. ASSUME NEW l \in Links, AcceptChannel(l) PROVE TypeInv'
  <2>1. LinkType' /\ HandType' /\ AtType' /\ HeldType'
    BY <1>0, <1>5 DEF AcceptChannel, Control, Idle, Up, Ends, LinkType, HandType, AtType, HeldType, FrameType
  <2>2. WireType'
    <3> DEFINE rest == [wire EXCEPT !["dialer"][l] = Tail(wire["dialer"][l])]
    <3>1. wire["dialer"][l] \in Seq(Messages) /\ wire["dialer"][l] # <<>> /\ Tail(wire["dialer"][l]) \in Seq(Messages)
      BY <1>0, <1>5 DEF AcceptChannel, WireType, Ends
    <3>2. rest \in [Ends -> [Links -> Seq(Messages)]]
      BY <1>0, <3>1, Cell, Zenon DEF WireType, Ends
    <3>3. wire' = rest \/ wire' = [rest EXCEPT !["entry"][l] = Append(rest["entry"][l], Control("disconnect"))]
      BY <1>5, Zenon DEF AcceptChannel
    <3> HIDE DEF rest
    <3>4. Append(rest["entry"][l], Control("disconnect")) \in Seq(Messages)
      BY <3>2, MessageFacts DEF Ends
    <3>5. "entry" \in Ends
      BY Zenon DEF Ends
    <3>6. [rest EXCEPT !["entry"][l] = Append(rest["entry"][l], Control("disconnect"))] \in [Ends -> [Links -> Seq(Messages)]]
      BY <3>2, <3>4, <3>5, Cell, Zenon
    <3> QED
      BY <3>2, <3>3, <3>6, Zenon DEF WireType
  <2>3. FlagType'
    BY <1>0, <1>5, Zenon DEF AcceptChannel, Control, Idle, Up, Ends, FlagType
  <2> QED
    BY <1>0, <1>5, <2>1, <2>2, <2>3, TypesKept, Zenon DEF AcceptChannel, TypeInv
<1>6. ASSUME NEW l \in Links, Subscribe(l) PROVE TypeInv'
  <2>1. HandType'
    <3> DEFINE h == hand["dialer"][l]
    <3>1. h \in Hands
      BY <1>0, Zenon DEF HandType, Ends
    <3>2. h.at # "idle" /\ h.n # 0
      BY <1>0, <1>6, Zenon DEF HandType, Ends, Subscribe
    <3>3. [h EXCEPT !.at = "wait"] \in Hands /\ [h EXCEPT !.at = "wait"].at # "idle" /\ [h EXCEPT !.at = "wait"].n # 0
      BY <3>1, <3>2, Zenon DEF Hands
    <3>4. hand' = [hand EXCEPT !["dialer"][l] = [h EXCEPT !.at = "wait"]] /\ waiters' \subseteq Links /\ woken' \subseteq Links
      BY <1>0, <1>6, Zenon DEF Subscribe, HandType
    <3> HIDE DEF h
    <3> QED
      BY <1>0, <3>3, <3>4, HandCell, Zenon DEF Ends
  <2> QED
    BY <1>0, <1>6, <2>1, TypesKept, Zenon DEF Subscribe, TypeInv
<1>7. ASSUME NEW l \in Links, Claimed(l) PROVE TypeInv'
  <2>1. HandType'
    <3> DEFINE h == hand["dialer"][l]
    <3>1. h \in Hands
      BY <1>0, Zenon DEF HandType, Ends
    <3>2. h.at # "idle" /\ h.n # 0
      BY <1>0, <1>7, Zenon DEF HandType, Ends, Claimed
    <3>3. [h EXCEPT !.at = "put"] \in Hands /\ [h EXCEPT !.at = "put"].at # "idle" /\ [h EXCEPT !.at = "put"].n # 0
      BY <3>1, <3>2, Zenon DEF Hands
    <3>4. hand' = [hand EXCEPT !["dialer"][l] = [h EXCEPT !.at = "put"]] /\ waiters' \subseteq Links /\ woken' \subseteq Links
      BY <1>0, <1>7, Zenon DEF Claimed, HandType
    <3> HIDE DEF h
    <3> QED
      BY <1>0, <3>3, <3>4, HandCell, Zenon DEF Ends
  <2> QED
    BY <1>0, <1>7, <2>1, TypesKept, Zenon DEF Claimed, TypeInv
<1>8. ASSUME NEW l \in Links, ClaimTimeout(l) PROVE TypeInv'
  <2>1. FlagType'
    BY <1>0, <1>8, Zenon DEF ClaimTimeout, Idle, Ends, FlagType
  <2>2. HandType'
    <3> DEFINE h == hand["dialer"][l]
    <3>1. h \in Hands
      BY <1>0, Zenon DEF HandType, Ends
    <3>2. h.at # "idle" /\ h.n # 0
      BY <1>0, <1>8, Zenon DEF HandType, Ends, ClaimTimeout
    <3>3. /\ [h EXCEPT !.at = "put"] \in Hands /\ [h EXCEPT !.at = "put"].at # "idle" /\ [h EXCEPT !.at = "put"].n # 0
          /\ Idle \in Hands /\ Idle.at = "idle" /\ Idle.n = 0
      BY <3>1, <3>2, Zenon DEF Hands, Idle
    <3>4. /\ \/ hand' = [hand EXCEPT !["dialer"][l] = [h EXCEPT !.at = "put"]]
             \/ hand' = [hand EXCEPT !["dialer"][l] = Idle]
          /\ waiters' \subseteq Links /\ woken' \subseteq Links
      BY <1>0, <1>8, Zenon DEF ClaimTimeout, HandType
    <3> HIDE DEF h
    <3> QED
      BY <1>0, <3>3, <3>4, HandCell, Zenon DEF Ends
  <2> QED
    BY <1>0, <1>8, <2>1, <2>2, TypesKept, Zenon DEF ClaimTimeout, TypeInv
<1>9. ASSUME NEW e \in Ends, NEW l \in Links, WriteFrame(e, l) PROVE TypeInv'
  <2>1. AtType' /\ FrameType' /\ HeldType' /\ ChannelType'
    BY <1>0, <1>9, Zenon DEF WriteFrame, FrameWritten, Post, Sealed, AfterWrite, Peer, Up, Ends, AtType, FrameType, HeldType, ChannelType
  <2>2. WireType'
    <3>1. Sealed(sent[e]) \in Messages /\ Peer(e) \in Ends
      BY <1>0, <1>9, MessageFacts, Zenon DEF FrameType, Frames, WriteFrame, Ends, Peer
    <3>2. wire' = [wire EXCEPT ![Peer(e)][l] = Append(wire[Peer(e)][l], Sealed(sent[e]))]
      BY <1>9, Zenon DEF WriteFrame, FrameWritten, Post
    <3> QED
      BY <1>0, <3>1, <3>2, WirePosted, Zenon
  <2> QED
    BY <1>0, <1>9, <2>1, <2>2, TypesKept, Zenon DEF WriteFrame, FrameWritten, TypeInv
<1>10. ASSUME NEW e \in Ends, NEW l \in Links, TakeSealed(e, l) PROVE TypeInv'
  <2>1. WireType'
    BY <1>0, <1>10, WireTaken, Zenon DEF TakeSealed, NextIs
  <2>2. HandType'
    <3> DEFINE n == Head(wire[e][l]).n
               x == IF registered[e] THEN [at |-> "put", n |-> n]
                    ELSE IF e = "dialer" THEN [at |-> "claim", n |-> n] ELSE Idle
    <3>1. wire[e][l] \in Seq(Messages) /\ wire[e][l] # <<>> /\ Head(wire[e][l]).kind = "sealed"
      BY <1>0, <1>10, Zenon DEF TakeSealed, NextIs, WireType
    <3>2. n \in Nat /\ n # 0
      BY <3>1, MessageFacts
    <3>3. hand' = [hand EXCEPT ![e][l] = x] /\ waiters' \subseteq Links /\ woken' \subseteq Links
      BY <1>0, <1>10, Zenon DEF TakeSealed, HandType
    <3> HIDE DEF n
    <3>4. x \in Hands /\ (x.at = "idle" <=> x.n = 0)
      BY <3>2, Zenon DEF Hands, Idle
    <3> HIDE DEF x
    <3> QED
      BY <1>0, <3>3, <3>4, HandCell, Zenon
  <2> QED
    BY <1>0, <1>10, <2>1, <2>2, TypesKept, Zenon DEF TakeSealed, TypeInv
<1>11. ASSUME NEW e \in Ends, NEW l \in Links, Deliver(e, l) PROVE TypeInv'
  <2>1. FlagType'
    BY <1>0, <1>11, Zenon DEF Deliver, Idle, Ends, FlagType
  <2>2. HandType'
    <3>1. Idle \in Hands /\ Idle.at = "idle" /\ Idle.n = 0
      BY Zenon DEF Hands, Idle
    <3>2. hand' = [hand EXCEPT ![e][l] = Idle] /\ waiters' \subseteq Links /\ woken' \subseteq Links
      BY <1>0, <1>11, Zenon DEF Deliver, HandType
    <3> QED
      BY <1>0, <3>1, <3>2, HandCell, Zenon
  <2>3. InboundType'
    <3>1. hand[e][l].n \in Frames
      BY <1>0, <1>11 DEF HandType, Hands, Deliver, Frames
    <3>2. inbound \in [Ends -> Seq(Frames)] /\ \A f \in Ends : Len(inbound[f]) \in Nat /\ Len(inbound[f]) <= Inbound
      BY <1>0 DEF InboundType
    <3>3. CASE inbound' = inbound
      BY <3>2, <3>3, Zenon DEF InboundType
    <3>4. CASE Len(inbound[e]) < Inbound /\ inbound' = [inbound EXCEPT ![e] = Append(inbound[e], hand[e][l].n)]
      <4>1. /\ inbound' \in [Ends -> Seq(Frames)] /\ Len(inbound'[e]) = Len(inbound[e]) + 1
            /\ \A f \in Ends : f # e => inbound'[f] = inbound[f]
        BY <3>1, <3>2, <3>4, Buffers
      <4>2. ASSUME NEW f \in Ends PROVE Len(inbound'[f]) <= Inbound
        BY <3>2, <3>4, <4>1, SecureAssumption
      <4> QED
        BY <4>1, <4>2, Zenon DEF InboundType
    <3> QED
      BY <1>11, <3>3, <3>4, Zenon DEF Deliver
  <2> QED
    BY <1>0, <1>11, <2>1, <2>2, <2>3, TypesKept, Zenon DEF Deliver, TypeInv
<1>12. ASSUME NEW e \in Ends, NEW l \in Links, TakeDisconnect(e, l) PROVE TypeInv'
  <2>1. CauseType' /\ ChannelType'
    BY <1>0, <1>12, Zenon DEF TakeDisconnect, NextIs, Finish, Idle, Ends, CauseType, ChannelType
  <2>2. WireType'
    BY <1>0, <1>12, WireTaken, Zenon DEF TakeDisconnect, NextIs
  <2>3. FlagType'
    BY <1>0, <1>12, Zenon DEF TakeDisconnect, NextIs, Finish, Idle, Ends, FlagType
  <2> QED
    BY <1>0, <1>12, <2>1, <2>2, <2>3, TypesKept, Zenon DEF TakeDisconnect, TypeInv
<1>13. ASSUME NEW e \in Ends, Seal(e) PROVE TypeInv'
  <2>1. FrameType'
    BY <1>0, <1>13 DEF Seal, Ends, FrameType
  <2> QED
    BY <1>0, <1>13, <2>1, TypesKept, Zenon DEF Seal, TypeInv
<1>14. ASSUME NEW e \in Ends, WriteFails(e) PROVE TypeInv'
  <2>1. AtType' /\ CauseType' /\ FrameType' /\ HeldType'
    BY <1>0, <1>14 DEF WriteFails, RunFails, Finish, AfterWrite, Ends, AtType, CauseType, FrameType, HeldType
  <2>2. FlagType'
    BY <1>0, <1>14, Zenon DEF WriteFails, RunFails, Finish, AfterWrite, Ends, FlagType
  <2> QED
    BY <1>0, <1>14, <2>1, <2>2, TypesKept, Zenon DEF WriteFails, TypeInv
<1>15. ASSUME NEW e \in Ends, AwaitFrame(e) PROVE TypeInv'
  <2>1. AtType' /\ CauseType' /\ HeldType'
    BY <1>0, <1>15 DEF AwaitFrame, RunFails, Finish, Ends, AtType, CauseType, HeldType, FrameType
  <2>2. FlagType'
    BY <1>0, <1>15, Zenon DEF AwaitFrame, RunFails, Finish, Ends, FlagType
  <2>3. FrameType'
    BY <1>0, <1>15, Numbered, Zenon DEF AwaitFrame
  <2>4. InboundType'
    BY <1>0, <1>15, InboundTaken, Zenon DEF AwaitFrame
  <2> QED
    BY <1>0, <1>15, <2>1, <2>2, <2>3, <2>4, TypesKept, Zenon DEF AwaitFrame, TypeInv
<1>16. ASSUME NEW e \in Ends, AwaitFails(e) PROVE TypeInv'
  <2>1. FlagType' /\ AtType' /\ CauseType' /\ HeldType'
    BY <1>0, <1>16, Zenon DEF AwaitFails, RunFails, Finish, Ends, FlagType, AtType, CauseType, HeldType, FrameType
  <2> QED
    BY <1>0, <1>16, <2>1, TypesKept, Zenon DEF AwaitFails, TypeInv
<1>17. ASSUME NEW e \in Ends, Park(e) PROVE TypeInv'
  <2>1. AtType' /\ HeldType'
    BY <1>0, <1>17, Zenon DEF Park, Ends, AtType, HeldType, FrameType
  <2> QED
    BY <1>0, <1>17, <2>1, TypesKept, Zenon DEF Park, TypeInv
<1>18. ASSUME NEW e \in Ends, Receive(e) PROVE TypeInv'
  <2>1. AtType' /\ CauseType' /\ FrameType' /\ HeldType'
    BY <1>0, <1>18 DEF Receive, RunFails, Finish, Ends, AtType, CauseType, FrameType, HeldType
  <2>2. FlagType'
    BY <1>0, <1>18, Zenon DEF Receive, RunFails, Finish, Ends, FlagType
  <2>3. InboundType'
    BY <1>0, <1>18, InboundTaken, Zenon DEF Receive
  <2> QED
    BY <1>0, <1>18, <2>1, <2>2, <2>3, TypesKept, Zenon DEF Receive, TypeInv
<1>19. ASSUME NEW e \in Ends, ReceiveDone(e) PROVE TypeInv'
  <2>1. FlagType' /\ AtType' /\ HeldType'
    BY <1>0, <1>19, Zenon DEF ReceiveDone, Ends, FlagType, AtType, HeldType, FrameType
  <2> QED
    BY <1>0, <1>19, <2>1, TypesKept, Zenon DEF ReceiveDone, TypeInv
<1>20. ASSUME NEW e \in Ends, PumpTake(e) PROVE TypeInv'
  <2>1. ChannelType'
    BY <1>0, <1>20, Zenon DEF PumpTake, Ends, ChannelType
  <2>2. QueueType'
    <3>1. queue \in [Ends -> Seq(Frames)] /\ got \in [Ends -> Seq(Frames)] /\ \A f \in Ends : Len(queue[f]) \in Nat /\ Len(queue[f]) <= Queue(f)
      BY <1>0 DEF QueueType
    <3>2. plan' = plan /\ (\A f \in Ends : Queue(f)' = Queue(f) /\ Queue(f) \in Nat)
      BY <1>0, <1>20, SecureAssumption, Zenon DEF PumpTake, Queue, LinkType
    <3>3. /\ queue[e] # <<>> /\ queue' = [queue EXCEPT ![e] = Tail(queue[e])]
          /\ got' = [got EXCEPT ![e] = Append(got[e], Head(queue[e]))]
      BY <1>20, Zenon DEF PumpTake
    <3>4. /\ queue' \in [Ends -> Seq(Frames)] /\ Head(queue[e]) \in Frames /\ Len(queue'[e]) = Len(queue[e]) - 1
          /\ \A f \in Ends : f # e => queue'[f] = queue[f]
      BY <3>1, <3>3, Buffers, Zenon
    <3>5. got' \in [Ends -> Seq(Frames)]
      BY <3>1, <3>3, <3>4, Buffers, Zenon
    <3>6. Len(queue'[e]) <= Queue(e)
      BY <3>1, <3>2, <3>4
    <3>7. ASSUME NEW f \in Ends PROVE Len(queue'[f]) <= Queue(f)
      BY <3>1, <3>4, <3>6, Zenon
    <3> QED
      BY <3>2, <3>4, <3>5, <3>7, Zenon DEF QueueType
  <2> QED
    BY <1>0, <1>20, <2>1, <2>2, TypesKept, Zenon DEF PumpTake, TypeInv
<1>21. ASSUME NEW e \in Ends, LocalEnd(e) PROVE TypeInv'
  <2>1. ChannelType'
    BY <1>0, <1>21, Zenon DEF LocalEnd, Post, Control, Peer, Up, Ends, ChannelType
  <2>2. WireType'
    <3>1. Control("disconnect") \in Messages /\ Peer(e) \in Ends
      BY MessageFacts, Zenon DEF Ends, Peer
    <3>2. PICK l \in Links : wire' = wire \/ wire' = [wire EXCEPT ![Peer(e)][l] = Append(wire[Peer(e)][l], Control("disconnect"))]
      BY <1>21, Zenon DEF LocalEnd, Post
    <3> QED
      BY <1>0, <3>1, <3>2, WirePosted, Zenon
  <2> QED
    BY <1>0, <1>21, <2>1, <2>2, TypesKept, Zenon DEF LocalEnd, TypeInv
<1>22. ASSUME NEW e \in Ends, Cleanup(e) PROVE TypeInv'
  <2>1. CauseType' /\ ChannelType'
    BY <1>0, <1>22, Zenon DEF Cleanup, Finish, Ends, CauseType, ChannelType
  <2>2. FlagType'
    BY <1>0, <1>22, Zenon DEF Cleanup, Finish, Ends, FlagType
  <2> QED
    BY <1>0, <1>22, <2>1, <2>2, TypesKept, Zenon DEF Cleanup, TypeInv
<1>23. CASE OpenGraceExpires
  <2>1. FlagType' /\ AtType' /\ CauseType' /\ ChannelType'
    BY <1>0, <1>23, Zenon DEF OpenGraceExpires, Finish, Ends, FlagType, AtType, CauseType, ChannelType
  <2> QED
    BY <1>0, <1>23, <2>1, TypesKept, Zenon DEF OpenGraceExpires, TypeInv
<1>24. CASE OpenReady
  <2>1. AtType'
    BY <1>0, <1>24, Zenon DEF OpenReady, Ends, AtType
  <2> QED
    BY <1>0, <1>24, <2>1, TypesKept, Zenon DEF OpenReady, TypeInv
<1>25. CASE OpenFails
  <2>1. FlagType' /\ AtType' /\ CauseType' /\ ChannelType'
    BY <1>0, <1>25, Zenon DEF OpenFails, Finish, Ends, FlagType, AtType, CauseType, ChannelType
  <2> QED
    BY <1>0, <1>25, <2>1, TypesKept, Zenon DEF OpenFails, TypeInv
<1>26. CASE DeliverToQueue
  <2>1. AtType' /\ HeldType'
    BY <1>0, <1>26, Zenon DEF DeliverToQueue, Enqueue, HasRoom, Ends, AtType, HeldType, FrameType
  <2>2. QueueType'
    <3>1. read["entry"] \in Frames /\ "entry" \in Ends
      BY <1>0, <1>26 DEF DeliverToQueue, HeldType, FrameType, Frames, Ends
    <3> QED
      BY <1>0, <1>26, <3>1, Enqueued, Zenon DEF DeliverToQueue, Enqueue, HasRoom
  <2> QED
    BY <1>0, <1>26, <2>1, <2>2, TypesKept, Zenon DEF DeliverToQueue, TypeInv
<1>27. CASE DispatchData
  <2>1. AtType' /\ HeldType'
    BY <1>0, <1>27, Zenon DEF DispatchData, Enqueue, HasRoom, Ends, AtType, HeldType, FrameType
  <2>2. QueueType'
    <3>1. read["dialer"] \in Frames /\ "dialer" \in Ends
      BY <1>0, <1>27 DEF DispatchData, Connect, FrameType, Frames, Ends
    <3> QED
      BY <1>0, <1>27, <3>1, Enqueued, Zenon DEF DispatchData, Enqueue, HasRoom
  <2> QED
    BY <1>0, <1>27, <2>1, <2>2, TypesKept, Zenon DEF DispatchData, TypeInv
<1>28. CASE ConnectGivesUp
  <2>1. ChannelType'
    BY <1>0, <1>28, Zenon DEF ConnectGivesUp, Ends, ChannelType
  <2> QED
    BY <1>0, <1>28, <2>1, TypesKept, Zenon DEF ConnectGivesUp, TypeInv
<1>29. ASSUME NEW o \in {"dialled", "failed", "blocked"}, DispatchConnect(o) PROVE TypeInv'
  <2>1. AtType' /\ HeldType' /\ ChannelType'
    BY <1>0, <1>29, Zenon DEF DispatchConnect, Ends, AtType, HeldType, FrameType, ChannelType
  <2>2. FrameType'
    BY <1>0, <1>29, Numbered, Zenon DEF DispatchConnect, Ends
  <2> QED
    BY <1>0, <1>29, <2>1, <2>2, TypesKept, Zenon DEF DispatchConnect, TypeInv
<1>30. CASE UNCHANGED vars
  BY <1>0, <1>30, TypesKept, Zenon DEF vars, TypeInv
<1> QED
  BY <1>1, <1>2, <1>3, <1>4, <1>5, <1>6, <1>7, <1>8, <1>9, <1>10, <1>11, <1>12, <1>13, <1>14, <1>15, <1>16, <1>17, <1>18, <1>19, <1>20, <1>21, <1>22, <1>23, <1>24, <1>25, <1>26, <1>27, <1>28, <1>29, <1>30, Zenon DEF Next, LinkStep, EndStep

-----------------------------------------------------------------------------
(* The stages of the two sessions.                                         *)

\* The stages at first.
LEMMA StageInit == Init => StageInv
<1> SUFFICES ASSUME Init PROVE StageInv
  BY Zenon
<1>1. EntryInv
  BY Zenon DEF Init, EntryInv, Ends
<1>2. OpenInv
  BY DEF Init, OpenInv, Opens, Ends
<1>3. DialerInv
  BY DEF Init, DialerInv, Ends
<1>4. CauseInv
  BY Zenon DEF Init, CauseInv, Ends
<1> QED BY <1>1, <1>2, <1>3, <1>4, Zenon DEF StageInv

\* A stage whose variables are unchanged still stands.
LEMMA StagesKept ==
  /\ EntryInv /\ UNCHANGED <<opener, done["entry"], registered["entry"], at["entry"], sent["entry"], writing["entry"], read["entry"]>> => EntryInv'
  /\ OpenInv /\ UNCHANGED <<opener, at, wire>> => OpenInv'
  /\ DialerInv /\ UNCHANGED <<dial, plan, at["dialer"], sent["dialer"], read["dialer"], writing["dialer"], got["dialer"], queue["dialer"]>> => DialerInv'
  /\ CauseInv /\ UNCHANGED <<done, cause>> => CauseInv'
<1>1. EntryInv /\ UNCHANGED <<opener, done["entry"], registered["entry"], at["entry"], sent["entry"], writing["entry"], read["entry"]>> => EntryInv'
  BY Zenon DEF EntryInv
<1>2. OpenInv /\ UNCHANGED <<opener, at, wire>> => OpenInv'
  BY Zenon DEF OpenInv, Opens
<1>3. DialerInv /\ UNCHANGED <<dial, plan, at["dialer"], sent["dialer"], read["dialer"], writing["dialer"], got["dialer"], queue["dialer"]>> => DialerInv'
  BY Zenon DEF DialerInv
<1>4. CauseInv /\ UNCHANGED <<done, cause>> => CauseInv'
  BY Zenon DEF CauseInv
<1> QED BY <1>1, <1>2, <1>3, <1>4, Zenon

\* Every action moves the sessions from one stage to the next.
LEMMA StageNext == TypeInv /\ StageInv /\ [Next]_vars => StageInv'
<1> SUFFICES ASSUME TypeInv, StageInv, [Next]_vars PROVE StageInv'
  BY Zenon
<1>0. /\ LinkType /\ WireType /\ HandType /\ FlagType /\ AtType /\ CauseType /\ FrameType /\ ChannelType /\ QueueType
      /\ EntryInv /\ OpenInv /\ DialerInv /\ CauseInv
  BY Zenon DEF TypeInv, StageInv
<1> USE DEF transport, claim, session, channel, Settled
<1>1. ASSUME NEW l \in Links, Reconnect(l) PROVE StageInv'
  BY <1>0, <1>1, StagesKept, Zenon DEF Reconnect, StageInv
<1>2. ASSUME NEW l \in Links, Resume(l) PROVE StageInv'
  <2>1. OpenInv'
    <3>1. Control("resume") \in Messages /\ Control("resume").kind # "open" /\ "dialer" \in Ends
      BY <1>0, <1>2, MessageFacts, Zenon DEF Resume, Ends, Peer, FrameType, Frames
    <3>2. /\ wire' = wire \/ wire' = [wire EXCEPT !["dialer"][l] = Append(wire["dialer"][l], Control("resume"))]
          /\ opener' = opener /\ (at["dialer"] = "idle" => at'["dialer"] = "idle")
      BY <1>0, <1>2, Zenon DEF Resume, Post
    <3> QED
      BY <1>0, <3>1, <3>2, OpenPosted, Zenon
  <2> QED
    BY <1>0, <1>2, <2>1, StagesKept, Zenon DEF Resume, StageInv
<1>3. ASSUME NEW l \in Links, Break(l) PROVE StageInv'
  <2>1. OpenInv'
    <3>1. PICK i \in 0 .. Len(wire["entry"][l]), j \in 0 .. Len(wire["dialer"][l]) :
            wire' = [wire EXCEPT !["entry"][l] = SubSeq(wire["entry"][l], 1, i), !["dialer"][l] = SubSeq(wire["dialer"][l], 1, j)]
      BY <1>3, Zenon DEF Break
    <3>2. \A k \in Links : wire["dialer"][k] \in Seq(Messages)
      BY <1>0, Zenon DEF WireType, Ends
    <3>3. /\ wire'["dialer"][l] = SubSeq(wire["dialer"][l], 1, j)
          /\ \A k \in Links : k # l => wire'["dialer"][k] = wire["dialer"][k]
      BY <1>0, <3>1, Zenon DEF WireType, Ends
    <3>4. ASSUME NEW k \in Links, NEW x \in Nat, Opens(k, x)' PROVE Opens(k, x)
      <4>1. CASE k = l
        <5>1. x \in 1 .. j /\ SubSeq(wire["dialer"][l], 1, j)[x] = wire["dialer"][l][x] /\ x \in DOMAIN wire["dialer"][l]
          BY <3>2, <3>3, <3>4, <4>1 DEF Opens
        <5> QED BY <3>3, <3>4, <4>1, <5>1, Zenon DEF Opens
      <4>2. CASE k # l
        BY <3>3, <3>4, <4>2, Zenon DEF Opens
      <4> QED BY <4>1, <4>2, Zenon
    <3>5. opener' = opener /\ at' = at
      BY <1>3, Zenon DEF Break
    <3> QED
      BY <1>0, <3>4, <3>5, OpenKept, Zenon
  <2> QED
    BY <1>0, <1>3, <2>1, StagesKept, Zenon DEF Break, StageInv
<1>4. ASSUME NEW l \in Links, OpenChannel(l) PROVE StageInv'
  <2>1. EntryInv'
    BY <1>0, <1>4, Zenon DEF OpenChannel, Post, Control, Up, EntryInv, Ends, FlagType, AtType, FrameType
  <2>2. OpenInv'
    <3>1. wire["dialer"][l] \in Seq(Messages) /\ Control("open") \in Messages /\ Append(wire["dialer"][l], Control("open")) \in Seq(Messages)
      BY <1>0, MessageFacts DEF WireType, Ends
    <3>2. wire' = [wire EXCEPT !["dialer"][l] = Append(wire["dialer"][l], Control("open"))]
      BY <1>4, Zenon DEF OpenChannel, Post
    <3>3. /\ wire'["dialer"][l] = Append(wire["dialer"][l], Control("open"))
          /\ \A k \in Links : k # l => wire'["dialer"][k] = wire["dialer"][k]
      BY <1>0, <3>1, <3>2, Cell DEF WireType, Ends
    <3>4. opener = "open" /\ opener' = "wait" /\ at'["dialer"] = at["dialer"]
      BY <1>0, <1>4, Zenon DEF OpenChannel, AtType, Ends
    <3>5. ASSUME NEW k \in Links, NEW i \in Nat, Opens(k, i)' PROVE k = l /\ i = Len(wire["dialer"][l]) + 1
      <4>1. ~Opens(k, i)
        BY <1>0, <3>4, Zenon DEF OpenInv
      <4>2. k = l
        BY <3>3, <3>5, <4>1, Zenon DEF Opens
      <4>3. i \in DOMAIN Append(wire["dialer"][l], Control("open")) /\ Append(wire["dialer"][l], Control("open"))[i].kind = "open"
        BY <3>3, <3>5, <4>2, Zenon DEF Opens
      <4>4. i \in 1 .. Len(wire["dialer"][l]) => Opens(l, i)
        BY <3>1, <4>3, AppendFacts DEF Opens
      <4>5. i \in 1 .. Len(wire["dialer"][l]) + 1
        BY <3>1, <4>3, AppendFacts
      <4> QED BY <3>1, <4>1, <4>2, <4>4, <4>5
    <3>6. at["dialer"] = "idle"
      BY <1>0, <3>4, Zenon DEF OpenInv
    <3> QED
      BY <3>4, <3>5, <3>6, Zenon DEF OpenInv
  <2>3. DialerInv'
    BY <1>0, <1>4, StagesKept, Zenon DEF OpenChannel, Post, Control, Up, Ends, AtType, FrameType, ChannelType, QueueType, LinkType
  <2> QED
    BY <1>0, <1>4, <2>1, <2>2, <2>3, StagesKept, Zenon DEF OpenChannel, StageInv
<1>5. ASSUME NEW l \in Links, AcceptChannel(l) PROVE StageInv'
  <2>1. EntryInv'
    BY <1>0, <1>5, StagesKept, Zenon DEF AcceptChannel, Control, Idle, Up, Ends, FlagType, AtType, FrameType
  <2>2. OpenInv'
    <3> DEFINE rest == [wire EXCEPT !["dialer"][l] = Tail(wire["dialer"][l])]
    <3>1. wire["dialer"][l] \in Seq(Messages) /\ wire["dialer"][l] # <<>> /\ Tail(wire["dialer"][l]) \in Seq(Messages)
      BY <1>0, <1>5 DEF AcceptChannel, WireType, Ends
    <3>2. rest \in [Ends -> [Links -> Seq(Messages)]] /\ "dialer" \in Ends
      BY <1>0, <3>1, Cell, Zenon DEF WireType, Ends
    <3>3. wire' = rest \/ wire' = [rest EXCEPT !["entry"][l] = Append(rest["entry"][l], Control("disconnect"))]
      BY <1>5, Zenon DEF AcceptChannel
    <3>4. wire'["dialer"] = rest["dialer"]
      <4> HIDE DEF rest
      <4> QED BY <3>2, <3>3, Zenon DEF Ends
    <3>5. \A k \in Links, i \in Nat : Opens(k, i)' => i > 0 /\ Opens(k, IF "dialer" = "dialer" /\ k = l THEN i + 1 ELSE i)
      BY <1>0, <3>1, <3>2, <3>4, OpensTaken, Zenon
    <3> HIDE DEF rest
    <3>6. opener' = opener
      BY <1>5, Zenon DEF AcceptChannel
    <3>7. CASE at' = at
      BY <1>0, <3>2, <3>5, <3>6, <3>7, OpenMoved, Zenon
    <3>8. CASE Head(wire["dialer"][l]).kind = "open"
      <4>1. Opens(l, 1)
        BY <3>1, <3>8 DEF Opens
      <4>2. ASSUME NEW k \in Links, NEW i \in Nat PROVE ~Opens(k, i)'
        BY <1>0, <3>5, <4>1 DEF OpenInv
      <4>3. opener # "open"
        BY <1>0, <4>1, Zenon DEF OpenInv
      <4> QED BY <3>6, <4>2, <4>3, Zenon DEF OpenInv
    <3> QED
      BY <1>5, <3>7, <3>8, Zenon DEF AcceptChannel
  <2>3. DialerInv'
    <3>1. UNCHANGED <<sent, read, writing, dial, got, queue, plan>>
      BY <1>5, Zenon DEF AcceptChannel
    <3>2. CASE at' = at
      BY <1>0, <3>1, <3>2, Zenon DEF DialerInv
    <3>3. CASE Head(wire["dialer"][l]).kind = "open" /\ at' = [at EXCEPT !["dialer"] = "await1"]
      <4>1. Opens(l, 1)
        BY <1>0, <1>5, <3>3 DEF Opens, WireType, Ends, AcceptChannel
      <4>2. at["dialer"] = "idle" /\ at'["dialer"] = "await1"
        BY <1>0, <3>3, <4>1, Zenon DEF OpenInv, AtType, Ends
      <4> QED BY <1>0, <3>1, <4>2, Zenon DEF DialerInv
    <3> QED
      BY <1>5, <3>2, <3>3, Zenon DEF AcceptChannel
  <2> QED
    BY <1>0, <1>5, <2>1, <2>2, <2>3, StagesKept, Zenon DEF AcceptChannel, StageInv
<1>6. ASSUME NEW l \in Links, Subscribe(l) PROVE StageInv'
  BY <1>0, <1>6, StagesKept, Zenon DEF Subscribe, StageInv
<1>7. ASSUME NEW l \in Links, Claimed(l) PROVE StageInv'
  BY <1>0, <1>7, StagesKept, Zenon DEF Claimed, StageInv
<1>8. ASSUME NEW l \in Links, ClaimTimeout(l) PROVE StageInv'
  BY <1>0, <1>8, StagesKept, Zenon DEF ClaimTimeout, StageInv
<1>9. ASSUME NEW e \in Ends, NEW l \in Links, WriteFrame(e, l) PROVE StageInv'
  <2>1. EntryInv'
    BY <1>0, <1>9 DEF WriteFrame, FrameWritten, Post, Sealed, AfterWrite, Peer, Up, EntryInv, Ends, FlagType, AtType, FrameType
  <2>2. OpenInv'
    <3>1. Sealed(sent[e]) \in Messages /\ Sealed(sent[e]).kind # "open" /\ Peer(e) \in Ends
      BY <1>0, <1>9, MessageFacts DEF WriteFrame, FrameWritten, Ends, Peer, FrameType, Frames
    <3>2. /\ wire' = wire \/ wire' = [wire EXCEPT ![Peer(e)][l] = Append(wire[Peer(e)][l], Sealed(sent[e]))]
          /\ opener' = opener /\ (at["dialer"] = "idle" => at'["dialer"] = "idle")
      BY <1>0, <1>9, Zenon DEF WriteFrame, FrameWritten, Post, AfterWrite, AtType, Ends
    <3> QED
      BY <1>0, <3>1, <3>2, OpenPosted, Zenon
  <2>3. DialerInv'
    BY <1>0, <1>9 DEF WriteFrame, FrameWritten, Post, Sealed, AfterWrite, Peer, Up, DialerInv, Ends, AtType, FrameType, ChannelType, QueueType, LinkType
  <2> QED
    BY <1>0, <1>9, <2>1, <2>2, <2>3, StagesKept, Zenon DEF WriteFrame, FrameWritten, StageInv
<1>10. ASSUME NEW e \in Ends, NEW l \in Links, TakeSealed(e, l) PROVE StageInv'
  <2>1. OpenInv'
    <3>1. wire[e][l] # <<>> /\ wire' = [wire EXCEPT ![e][l] = Tail(wire[e][l])] /\ opener' = opener /\ at' = at
      BY <1>10, Zenon DEF TakeSealed, NextIs
    <3> QED
      BY <1>0, <3>1, OpenTaken, Zenon
  <2> QED
    BY <1>0, <1>10, <2>1, StagesKept, Zenon DEF TakeSealed, StageInv
<1>11. ASSUME NEW e \in Ends, NEW l \in Links, Deliver(e, l) PROVE StageInv'
  BY <1>0, <1>11, StagesKept, Zenon DEF Deliver, StageInv
<1>12. ASSUME NEW e \in Ends, NEW l \in Links, TakeDisconnect(e, l) PROVE StageInv'
  <2>1. EntryInv'
    BY <1>0, <1>12, Zenon DEF TakeDisconnect, NextIs, Finish, Idle, EntryInv, Ends, FlagType, AtType, FrameType
  <2>2. OpenInv'
    <3>1. wire[e][l] # <<>> /\ wire' = [wire EXCEPT ![e][l] = Tail(wire[e][l])] /\ opener' = opener /\ at' = at
      BY <1>12, Zenon DEF TakeDisconnect, NextIs
    <3> QED
      BY <1>0, <3>1, OpenTaken, Zenon
  <2>3. CauseInv'
    BY <1>0, <1>12, Zenon DEF TakeDisconnect, NextIs, Finish, Idle, CauseInv, Ends, FlagType, CauseType
  <2> QED
    BY <1>0, <1>12, <2>1, <2>2, <2>3, StagesKept, Zenon DEF TakeDisconnect, StageInv
<1>13. ASSUME NEW e \in Ends, Seal(e) PROVE StageInv'
  <2>1. EntryInv'
    BY <1>0, <1>13, Zenon DEF Seal, EntryInv, Ends, FlagType, AtType, FrameType
  <2>2. DialerInv'
    <3>1. UNCHANGED <<at, read, dial, got, queue, plan>>
      BY <1>13, Zenon DEF Seal
    <3>2. CASE e = "entry"
      <4>1. sent'["dialer"] = sent["dialer"] /\ writing'["dialer"] = writing["dialer"]
        BY <1>0, <1>13, <3>2, Zenon DEF Seal, FrameType, Ends
      <4> QED BY <1>0, <3>1, <4>1, Zenon DEF DialerInv
    <3>3. CASE e = "dialer"
      <4>1. /\ sent'["dialer"] = sent["dialer"] + 1 /\ writing'["dialer"] = TRUE /\ dial = "up"
            /\ sent["dialer"] < plan.down /\ sent["dialer"] \in Nat /\ plan.down \in Nat
        BY <1>0, <1>13, <3>3, SecureAssumption, Zenon DEF Seal, FrameType, Ends, MaxFrame, LinkType
      <4>2. sent'["dialer"] <= plan.down
        BY <4>1
      <4> QED BY <1>0, <3>1, <4>1, <4>2, Zenon DEF DialerInv
    <3> QED BY <3>2, <3>3, Zenon DEF Ends
  <2> QED
    BY <1>0, <1>13, <2>1, <2>2, StagesKept, Zenon DEF Seal, StageInv
<1>14. ASSUME NEW e \in Ends, WriteFails(e) PROVE StageInv'
  <2>1. EntryInv'
    BY <1>0, <1>14 DEF WriteFails, RunFails, Finish, AfterWrite, EntryInv, Ends, FlagType, AtType, FrameType
  <2>2. OpenInv'
    <3>1. at["dialer"] = "idle" => at'["dialer"] = "idle"
      BY <1>0, <1>14, Zenon DEF WriteFails, RunFails, AfterWrite, InHandshake, AtType, Ends
    <3> QED
      BY <1>0, <1>14, <3>1, OpenPast, Zenon DEF WriteFails
  <2>3. DialerInv'
    BY <1>0, <1>14 DEF WriteFails, RunFails, Finish, AfterWrite, DialerInv, Ends, AtType, FrameType, ChannelType, QueueType, LinkType
  <2>4. CauseInv'
    BY <1>0, <1>14, Zenon DEF WriteFails, RunFails, Finish, AfterWrite, CauseInv, Ends, FlagType, CauseType
  <2> QED
    BY <1>0, <1>14, <2>1, <2>2, <2>3, <2>4, StagesKept, Zenon DEF WriteFails, StageInv
<1>15. ASSUME NEW e \in Ends, AwaitFrame(e) PROVE StageInv'
  <2>1. EntryInv'
    BY <1>0, <1>15 DEF AwaitFrame, RunFails, Finish, EntryInv, Ends, FlagType, AtType, FrameType
  <2>2. OpenInv'
    BY <1>0, <1>15, OpenPast, Zenon DEF AwaitFrame, RunFails, Finish, Ends, AtType
  <2>3. DialerInv'
    <3>1. UNCHANGED <<dial, got, queue, plan>>
      BY <1>15, Zenon DEF AwaitFrame
    <3>2. CASE e = "entry"
      <4>1. sent'["dialer"] = sent["dialer"] /\ writing'["dialer"] = writing["dialer"] /\ at'["dialer"] = at["dialer"] /\ read'["dialer"] = read["dialer"]
        BY <1>0, <1>15, <3>2, Zenon DEF AwaitFrame, RunFails, FrameType, AtType, Ends
      <4> QED BY <1>0, <3>1, <4>1, Zenon DEF DialerInv
    <3>3. CASE e = "dialer" /\ Head(inbound[e]) = read[e] + 1 /\ at["dialer"] = "await1"
      <4>1. /\ sent'["dialer"] = sent["dialer"] + 1 /\ writing'["dialer"] = TRUE /\ at'["dialer"] = "write2"
            /\ read'["dialer"] = read["dialer"] + 1
        BY <1>0, <1>15, <3>3, Zenon DEF AwaitFrame, FrameType, AtType, Ends
      <4> QED BY <1>0, <3>1, <3>3, <4>1 DEF DialerInv
    <3>4. CASE e = "dialer" /\ Head(inbound[e]) = read[e] + 1 /\ at["dialer"] = "await3"
      <4>1. /\ sent' = sent /\ writing' = writing /\ at'["dialer"] = "loop"
            /\ read'["dialer"] = read["dialer"] + 1
        BY <1>0, <1>15, <3>4, Zenon DEF AwaitFrame, FrameType, AtType, Ends
      <4> QED BY <1>0, <3>1, <3>4, <4>1 DEF DialerInv
    <3>5. CASE e = "dialer" /\ Head(inbound[e]) # read[e] + 1
      <4>1. sent' = sent /\ writing' = writing /\ at'["dialer"] = "ended" /\ read' = read
        BY <1>0, <1>15, <3>5, Zenon DEF AwaitFrame, RunFails, AtType, Ends
      <4>2. at["dialer"] \in {"await1", "await3"}
        BY <1>0, <1>15, <3>5, Zenon DEF AwaitFrame, DialerInv
      <4> QED BY <1>0, <3>1, <4>1, <4>2, Zenon DEF DialerInv
    <3>6. e = "dialer" => at["dialer"] \in {"await1", "await3"}
      BY <1>0, <1>15, Zenon DEF AwaitFrame, DialerInv
    <3> QED BY <3>2, <3>3, <3>4, <3>5, <3>6, Zenon DEF Ends
  <2>4. CauseInv'
    BY <1>0, <1>15, Zenon DEF AwaitFrame, RunFails, Finish, CauseInv, Ends, FlagType, CauseType
  <2> QED
    BY <1>0, <1>15, <2>1, <2>2, <2>3, <2>4, StagesKept, Zenon DEF AwaitFrame, StageInv
<1>16. ASSUME NEW e \in Ends, AwaitFails(e) PROVE StageInv'
  <2>1. EntryInv'
    BY <1>0, <1>16 DEF AwaitFails, RunFails, Finish, EntryInv, Ends, FlagType, AtType, FrameType
  <2>2. OpenInv'
    BY <1>0, <1>16, OpenPast, Zenon DEF AwaitFails, RunFails, Finish, Ends, AtType
  <2>3. DialerInv'
    BY <1>0, <1>16 DEF AwaitFails, RunFails, Finish, DialerInv, Ends, AtType, FrameType, ChannelType, QueueType, LinkType
  <2>4. CauseInv'
    BY <1>0, <1>16, Zenon DEF AwaitFails, RunFails, Finish, CauseInv, Ends, FlagType, CauseType
  <2> QED
    BY <1>0, <1>16, <2>1, <2>2, <2>3, <2>4, StagesKept, Zenon DEF AwaitFails, StageInv
<1>17. ASSUME NEW e \in Ends, Park(e) PROVE StageInv'
  <2>1. EntryInv'
    BY <1>0, <1>17, Zenon DEF Park, EntryInv, Ends, FlagType, AtType, FrameType
  <2>2. OpenInv'
    BY <1>0, <1>17, OpenPast, Zenon DEF Park, Ends, AtType
  <2>3. DialerInv'
    BY <1>0, <1>17, Zenon DEF Park, DialerInv, Ends, AtType, FrameType, ChannelType, QueueType, LinkType
  <2> QED
    BY <1>0, <1>17, <2>1, <2>2, <2>3, StagesKept, Zenon DEF Park, StageInv
<1>18. ASSUME NEW e \in Ends, Receive(e) PROVE StageInv'
  <2>1. EntryInv'
    BY <1>0, <1>18 DEF Receive, RunFails, Finish, EntryInv, Ends, FlagType, AtType, FrameType
  <2>2. OpenInv'
    BY <1>0, <1>18, OpenPast, Zenon DEF Receive, RunFails, Finish, Ends, AtType
  <2>3. DialerInv'
    BY <1>0, <1>18 DEF Receive, RunFails, Finish, DialerInv, Ends, AtType, FrameType, ChannelType, QueueType, LinkType
  <2>4. CauseInv'
    BY <1>0, <1>18, Zenon DEF Receive, RunFails, Finish, CauseInv, Ends, FlagType, CauseType
  <2> QED
    BY <1>0, <1>18, <2>1, <2>2, <2>3, <2>4, StagesKept, Zenon DEF Receive, StageInv
<1>19. ASSUME NEW e \in Ends, ReceiveDone(e) PROVE StageInv'
  <2>1. EntryInv'
    BY <1>0, <1>19, Zenon DEF ReceiveDone, EntryInv, Ends, FlagType, AtType, FrameType
  <2>2. OpenInv'
    BY <1>0, <1>19, OpenPast, Zenon DEF ReceiveDone, Ends, AtType
  <2>3. DialerInv'
    BY <1>0, <1>19, Zenon DEF ReceiveDone, DialerInv, Ends, AtType, FrameType, ChannelType, QueueType, LinkType
  <2> QED
    BY <1>0, <1>19, <2>1, <2>2, <2>3, StagesKept, Zenon DEF ReceiveDone, StageInv
<1>20. ASSUME NEW e \in Ends, PumpTake(e) PROVE StageInv'
  <2>1. DialerInv'
    BY <1>0, <1>20, Zenon DEF PumpTake, DialerInv, Ends, AtType, FrameType, ChannelType, QueueType, LinkType
  <2> QED
    BY <1>0, <1>20, <2>1, StagesKept, Zenon DEF PumpTake, StageInv
<1>21. ASSUME NEW e \in Ends, LocalEnd(e) PROVE StageInv'
  <2>1. OpenInv'
    <3>1. Control("disconnect") \in Messages /\ Control("disconnect").kind # "open" /\ Peer(e) \in Ends
      BY MessageFacts, Zenon DEF Ends, Peer
    <3>2. PICK l \in Links : wire' = wire \/ wire' = [wire EXCEPT ![Peer(e)][l] = Append(wire[Peer(e)][l], Control("disconnect"))]
      BY <1>21, Zenon DEF LocalEnd, Post
    <3>3. opener' = opener /\ at' = at
      BY <1>21, Zenon DEF LocalEnd
    <3> QED
      BY <1>0, <3>1, <3>2, <3>3, OpenPosted, Zenon
  <2> QED
    BY <1>0, <1>21, <2>1, StagesKept, Zenon DEF LocalEnd, StageInv
<1>22. ASSUME NEW e \in Ends, Cleanup(e) PROVE StageInv'
  <2>1. EntryInv'
    BY <1>0, <1>22, Zenon DEF Cleanup, Finish, EntryInv, Ends, FlagType, AtType, FrameType
  <2>2. CauseInv'
    BY <1>0, <1>22, Zenon DEF Cleanup, Finish, CauseInv, Ends, FlagType, CauseType
  <2> QED
    BY <1>0, <1>22, <2>1, <2>2, StagesKept, Zenon DEF Cleanup, StageInv
<1>23. CASE OpenGraceExpires
  <2>1. EntryInv'
    BY <1>0, <1>23, Zenon DEF OpenGraceExpires, Finish, EntryInv, Ends, FlagType, AtType, FrameType
  <2>2. OpenInv'
    BY <1>0, <1>23, OpenPast, Zenon DEF OpenGraceExpires, Finish, Ends, AtType
  <2>3. CauseInv'
    BY <1>0, <1>23, Zenon DEF OpenGraceExpires, Finish, CauseInv, Ends, FlagType, CauseType
  <2> QED
    BY <1>0, <1>23, <2>1, <2>2, <2>3, StagesKept, Zenon DEF OpenGraceExpires, StageInv
<1>24. CASE OpenReady
  <2>1. EntryInv'
    BY <1>0, <1>24, Zenon DEF OpenReady, EntryInv, Ends, FlagType, AtType, FrameType
  <2>2. OpenInv'
    BY <1>0, <1>24, OpenPast, Zenon DEF OpenReady, Ends, AtType
  <2> QED
    BY <1>0, <1>24, <2>1, <2>2, StagesKept, Zenon DEF OpenReady, StageInv
<1>25. CASE OpenFails
  <2>1. EntryInv'
    BY <1>0, <1>25, Zenon DEF OpenFails, Finish, EntryInv, Ends, FlagType, AtType, FrameType
  <2>2. OpenInv'
    BY <1>0, <1>25, OpenPast, Zenon DEF OpenFails, Finish, Ends, AtType
  <2>3. CauseInv'
    BY <1>0, <1>25, Zenon DEF OpenFails, Finish, CauseInv, Ends, FlagType, CauseType
  <2> QED
    BY <1>0, <1>25, <2>1, <2>2, <2>3, StagesKept, Zenon DEF OpenFails, StageInv
<1>26. CASE DeliverToQueue
  <2>1. EntryInv'
    BY <1>0, <1>26 DEF DeliverToQueue, Enqueue, HasRoom, EntryInv, Ends, FlagType, AtType, FrameType
  <2>2. OpenInv'
    BY <1>0, <1>26, OpenPast, Zenon DEF DeliverToQueue, Enqueue, HasRoom, Ends, AtType
  <2>3. DialerInv'
    BY <1>0, <1>26, StagesKept, Zenon DEF DeliverToQueue, Enqueue, HasRoom, Ends, AtType, FrameType, ChannelType, QueueType, LinkType
  <2> QED
    BY <1>0, <1>26, <2>1, <2>2, <2>3, StagesKept, Zenon DEF DeliverToQueue, StageInv
<1>27. CASE DispatchData
  <2>1. EntryInv'
    BY <1>0, <1>27, StagesKept, Zenon DEF DispatchData, Enqueue, HasRoom, Ends, FlagType, AtType, FrameType
  <2>2. OpenInv'
    BY <1>0, <1>27, OpenPast, Zenon DEF DispatchData, Enqueue, HasRoom, Ends, AtType
  <2>3. DialerInv'
    <3>1. UNCHANGED <<sent, read, writing, dial, got, plan>> /\ at["dialer"] = "held" /\ at'["dialer"] = "loop" /\ read["dialer"] > 3
      BY <1>0, <1>27, Zenon DEF DispatchData, Connect, AtType, Ends
    <3>2. dial # "none"
      BY <1>0, <3>1 DEF DialerInv
    <3> QED BY <1>0, <3>1, <3>2, Zenon DEF DialerInv
  <2> QED
    BY <1>0, <1>27, <2>1, <2>2, <2>3, StagesKept, Zenon DEF DispatchData, StageInv
<1>28. CASE ConnectGivesUp
  BY <1>0, <1>28, StagesKept, Zenon DEF ConnectGivesUp, StageInv
<1>29. ASSUME NEW o \in {"dialled", "failed", "blocked"}, DispatchConnect(o) PROVE StageInv'
  <2>1. EntryInv'
    BY <1>0, <1>29, StagesKept, Zenon DEF DispatchConnect, Ends, FlagType, AtType, FrameType
  <2>2. OpenInv'
    BY <1>0, <1>29, OpenPast, Zenon DEF DispatchConnect, Ends, AtType
  <2>3. DialerInv'
    <3>1. /\ UNCHANGED <<read, got, queue, plan>> /\ at["dialer"] = "held" /\ dial' = o /\ read["dialer"] = 3
          /\ at'["dialer"] \in {"refuse", "loop"}
      BY <1>0, <1>29, Zenon DEF DispatchConnect, Connect, AtType, Ends
    <3>2. dial = "none"
      BY <1>0, <3>1 DEF DialerInv
    <3>3. sent["dialer"] \in Nat /\ sent["dialer"] <= 1
      BY <1>0, <3>2, Zenon DEF DialerInv, FrameType, Ends
    <3>4. sent'["dialer"] = sent["dialer"] \/ sent'["dialer"] = sent["dialer"] + 1
      BY <1>0, <1>29, Zenon DEF DispatchConnect, FrameType, Ends
    <3>5. at'["dialer"] = "refuse" => writing'["dialer"]
      <4>1. CASE done["dialer"]
        BY <1>0, <1>29, <4>1, Zenon DEF DispatchConnect, AtType, Ends
      <4>2. CASE ~done["dialer"]
        BY <1>0, <1>29, <4>2, Zenon DEF DispatchConnect, FrameType, Ends
      <4> QED BY <4>1, <4>2, Zenon
    <3>6. sent'["dialer"] <= 2
      BY <3>3, <3>4
    <3> QED BY <3>1, <3>5, <3>6 DEF DialerInv
  <2> QED
    BY <1>0, <1>29, <2>1, <2>2, <2>3, StagesKept, Zenon DEF DispatchConnect, StageInv
<1>30. CASE UNCHANGED vars
  BY <1>0, <1>30, StagesKept, Zenon DEF vars, StageInv
<1> QED
  BY <1>1, <1>2, <1>3, <1>4, <1>5, <1>6, <1>7, <1>8, <1>9, <1>10, <1>11, <1>12, <1>13, <1>14, <1>15, <1>16, <1>17, <1>18, <1>19, <1>20, <1>21, <1>22, <1>23, <1>24, <1>25, <1>26, <1>27, <1>28, <1>29, <1>30, Zenon DEF Next, LinkStep, EndStep

-----------------------------------------------------------------------------
(* The frames, step by step.                                               *)

\* Every action moves the frames of an end in one of these ways.
LEMMA FlightNext ==
  TypeInv /\ StageInv /\ (\A e \in Ends : FlightInv(e) /\ ChainInv(e)) /\ [Next]_vars
    => \A e \in Ends : FlightInv(e)' /\ ChainInv(e)'
<1> SUFFICES ASSUME TypeInv, StageInv, \A e \in Ends : FlightInv(e) /\ ChainInv(e), [Next]_vars, NEW f \in Ends
             PROVE  FlightInv(f)' /\ ChainInv(f)'
  BY Zenon
<1>0. /\ LinkType /\ WireType /\ HandType /\ FlagType /\ AtType /\ CauseType /\ FrameType /\ InboundType /\ ChannelType
      /\ EntryInv /\ OpenInv /\ DialerInv /\ CauseInv
      /\ FlightInv(f) /\ ChainInv(f)
  BY Zenon DEF TypeInv, StageInv
<1>p. /\ Peer(f) \in Ends /\ Peer(f) # f /\ \A e \in Ends : e = f \/ e = Peer(f)
      /\ Orderly(f)
  BY <1>0, Zenon DEF Ends, Peer, FlightInv
<1> USE DEF transport, claim, session, channel
<1>c. ASSUME Calm PROVE FlightInv(f)' /\ ChainInv(f)'
  <2>1. Same(f)
    BY <1>p, <1>c, FlyStill, Zenon DEF Calm
  <2>2. Rests(f) /\ Leaves(f) /\ Idles(f)
    BY <1>p, <1>c, Zenon DEF Calm, Rests, Leaves, Idles, Unwritten
  <2> QED BY <1>0, <2>1, <2>2, FlightKept, Zenon
<1>1. ASSUME NEW l \in Links, Reconnect(l) PROVE Calm
  BY <1>1, Zenon DEF Reconnect, Calm
<1>2. ASSUME NEW l \in Links, Resume(l) PROVE FlightInv(f)' /\ ChainInv(f)'
  <2>1. Same(f)
    <3>1. CASE wire' = wire
      BY <1>0, <1>p, <1>2, <3>1, FlyStill, Zenon DEF Resume
    <3>2. CASE Post("dialer", l, Control("resume"))
      <4>1. Control("resume") \in Messages /\ Control("resume").n = 0 /\ "dialer" \in Ends
        BY MessageFacts, Zenon DEF Ends
      <4>2. hand' = hand
        BY <1>2, Zenon DEF Resume
      <4> QED BY <1>0, <1>p, <3>2, <4>1, <4>2, FlyControl, Zenon DEF Post
    <3> QED BY <1>2, <3>1, <3>2, Zenon DEF Resume
  <2>2. Rests(f) /\ Leaves(f) /\ Idles(f)
    BY <1>0, <1>p, <1>2, Zenon DEF Resume, Up, Post, Control, Rests, Leaves, Idles, Unwritten, Settled, FlagType, AtType, FrameType
  <2> QED BY <1>0, <2>1, <2>2, FlightKept, Zenon
<1>3. ASSUME NEW l \in Links, Break(l) PROVE FlightInv(f)' /\ ChainInv(f)'
  <2>0. PICK i \in 0 .. Len(wire["entry"][l]), j \in 0 .. Len(wire["dialer"][l]) :
          /\ wire' = [wire EXCEPT !["entry"][l] = SubSeq(wire["entry"][l], 1, i), !["dialer"][l] = SubSeq(wire["dialer"][l], 1, j)]
          /\ disturbed' = (disturbed \/ Loses("entry", l, i) \/ Loses("dialer", l, j))
    BY <1>3, Zenon DEF Break
  <2>1. Same(f) \/ (Thins(f) /\ disturbed')
    <3>1. /\ wire'["entry"][l] = SubSeq(wire["entry"][l], 1, i) /\ wire'["dialer"][l] = SubSeq(wire["dialer"][l], 1, j)
          /\ \A k \in Links : k # l => wire'["entry"][k] = wire["entry"][k] /\ wire'["dialer"][k] = wire["dialer"][k]
      BY <1>0, <2>0, Zenon DEF WireType, Ends
    <3>2. hand' = hand
      BY <1>3, Zenon DEF Break
    <3>3. CASE f = "entry"
      BY <1>0, <1>p, <2>0, <3>1, <3>2, <3>3, FlyCut, Zenon
    <3>4. CASE f = "dialer"
      BY <1>0, <1>p, <2>0, <3>1, <3>2, <3>4, FlyCut, Zenon
    <3> QED BY <3>3, <3>4, Zenon DEF Ends
  <2>2. Rests(f) /\ Leaves(f) /\ Idles(f)
    BY <2>0, <1>3, Zenon DEF Break, Rests, Leaves, Idles, Unwritten
  <2> QED BY <1>0, <2>1, <2>2, FlightKept, Zenon
<1>4. ASSUME NEW l \in Links, OpenChannel(l) PROVE FlightInv(f)' /\ ChainInv(f)'
  <2>1. Same(f)
    <3>1. Control("open") \in Messages /\ Control("open").n = 0 /\ "dialer" \in Ends
      BY MessageFacts, Zenon DEF Ends
    <3> QED BY <1>0, <1>p, <1>4, <3>1, FlyControl, Zenon DEF OpenChannel, Post
  <2>2. Rests(f) /\ Leaves(f)
    BY <1>4, Zenon DEF OpenChannel, Rests, Leaves
  <2>3. CASE f = "entry"
    <3>1. Idles(f)
      BY <1>0, <1>4, <2>3, Zenon DEF OpenChannel, Idles, Unwritten, Peer, FrameType, AtType, Ends
    <3> QED BY <1>0, <2>1, <2>2, <3>1, FlightKept, Zenon
  <2>4. CASE f = "dialer"
    <3>1. Peer(f) = "entry" /\ at["entry"] = "idle" /\ sent["entry"] = 0 /\ ~writing["entry"]
      BY <1>0, <1>4, <2>4, Zenon DEF OpenChannel, EntryInv, Peer
    <3>2. sent'["entry"] = sent["entry"] + 1 /\ writing'["entry"]
      BY <1>0, <1>4, <3>1 DEF OpenChannel, FrameType, Ends
    <3>3. ~Unwritten("entry")
      BY <3>1, Zenon DEF Unwritten, Settled
    <3> QED BY <1>0, <2>1, <2>2, <3>1, <3>2, <3>3, FlightSealed, Zenon
  <2> QED BY <2>3, <2>4, Zenon DEF Ends
<1>5. ASSUME NEW l \in Links, AcceptChannel(l) PROVE FlightInv(f)' /\ ChainInv(f)'
  <2>1. Same(f)
    <3> DEFINE rest == [wire EXCEPT !["dialer"][l] = Tail(wire["dialer"][l])]
    <3>1. /\ wire["dialer"][l] \in Seq(Messages) /\ wire["dialer"][l] # <<>> /\ Tail(wire["dialer"][l]) \in Seq(Messages)
          /\ wire["entry"][l] \in Seq(Messages) /\ hand["entry"][l].n \in Nat
          /\ hand["dialer"][l].n = 0 /\ hand' = hand
      BY <1>0, <1>5 DEF AcceptChannel, WireType, HandType, Hands, Ends, Idle
    <3>2. Head(wire["dialer"][l]).n = 0
      <4>1. Head(wire["dialer"][l]) \in Messages /\ Head(wire["dialer"][l]).kind # "sealed"
        BY <3>1, <1>5 DEF AcceptChannel
      <4> QED BY <4>1, MessageFacts
    <3>3. /\ rest \in [Ends -> [Links -> Seq(Messages)]] /\ rest["dialer"][l] = Tail(wire["dialer"][l])
          /\ \A e \in Ends, k \in Links : e # "dialer" \/ k # l => rest[e][k] = wire[e][k]
      BY <1>0, <3>1, Cell DEF WireType, Ends
    <3>4. wire' = rest \/ wire' = [rest EXCEPT !["entry"][l] = Append(rest["entry"][l], Control("disconnect"))]
      BY <1>5, Zenon DEF AcceptChannel
    <3> HIDE DEF rest
    <3>5. Control("disconnect") \in Messages /\ Control("disconnect").n = 0
      BY MessageFacts, Zenon
    <3>6. /\ wire'["dialer"] = rest["dialer"] /\ \A k \in Links : k # l => wire'["entry"][k] = wire["entry"][k]
          /\ wire'["entry"][l] = wire["entry"][l] \/ wire'["entry"][l] = Append(wire["entry"][l], Control("disconnect"))
      BY <3>3, <3>4 DEF Ends
    <3>7. ASSUME NEW k \in Links
          PROVE  /\ Ascends(hand'[f][k].n, wire'[f][k])
                 /\ \A n \in Frames : Flies(f, k, n)' <=> Flies(f, k, n)
      <4>1. CASE wire'[f][k] = wire[f][k]
        BY <1>p, <3>1, <4>1, Zenon DEF Orderly, Flies
      <4>2. CASE f = "dialer" /\ k = l
        <5>1. Ascends(0, wire["dialer"][l])
          BY <1>p, <3>1, <4>2, Zenon DEF Orderly
        <5>2. /\ Ascends(0, Tail(wire["dialer"][l]))
              /\ \A n \in Frames : Has(0, Tail(wire["dialer"][l]), n) <=> Has(0, wire["dialer"][l], n)
          BY <3>1, <3>2, <5>1, HasTaken
        <5> QED BY <3>1, <3>3, <3>6, <4>2, <5>2, Zenon DEF Flies
      <4>3. CASE f = "entry" /\ k = l /\ wire'["entry"][l] = Append(wire["entry"][l], Control("disconnect"))
        <5>1. Ascends(hand["entry"][l].n, wire["entry"][l])
          BY <1>p, <4>3, Zenon DEF Orderly
        <5>2. /\ Ascends(hand["entry"][l].n, wire'["entry"][l])
              /\ \A n \in Frames : Has(hand["entry"][l].n, wire'["entry"][l], n) <=> Has(hand["entry"][l].n, wire["entry"][l], n)
          BY <3>1, <3>5, <4>3, <5>1, HasControl
        <5> QED BY <3>1, <4>3, <5>2, Zenon DEF Flies
      <4> QED BY <3>3, <3>6, <4>1, <4>2, <4>3, Zenon DEF Ends
    <3> QED BY <3>7, Zenon DEF Same, Orderly
  <2>5. at["dialer"] \in Settled => at' = at
    <3>1. CASE at' = at
      BY <3>1, Zenon
    <3>2. CASE Head(wire["dialer"][l]).kind = "open"
      <4>1. Opens(l, 1)
        BY <1>0, <1>5, <3>2 DEF AcceptChannel, Opens, WireType, Ends
      <4> QED BY <1>0, <4>1, Zenon DEF OpenInv, Settled
    <3> QED BY <1>5, <3>1, <3>2, Zenon DEF AcceptChannel
  <2>2. Rests(f) /\ Leaves(f) /\ Idles(f)
    BY <1>0, <1>p, <2>5, <1>5, Zenon DEF AcceptChannel, Control, Idle, Up, Rests, Leaves, Idles, Unwritten, Settled, FlagType, AtType, FrameType
  <2> QED BY <1>0, <2>1, <2>2, FlightKept, Zenon
<1>6. ASSUME NEW l \in Links, Subscribe(l) PROVE FlightInv(f)' /\ ChainInv(f)'
  <2>1. Same(f)
    <3>1. \A e \in Ends, k \in Links : hand'[e][k].n = hand[e][k].n
      BY <1>0, <1>6 DEF Subscribe, HandType, Hands, Ends
    <3> QED BY <1>0, <1>p, <1>6, <3>1, FlyStill, Zenon DEF Subscribe
  <2>2. Rests(f) /\ Leaves(f) /\ Idles(f)
    BY <1>0, <1>p, <1>6, Zenon DEF Subscribe, Rests, Leaves, Idles, Unwritten, Settled, FlagType, AtType, FrameType
  <2> QED BY <1>0, <2>1, <2>2, FlightKept, Zenon
<1>7. ASSUME NEW l \in Links, Claimed(l) PROVE FlightInv(f)' /\ ChainInv(f)'
  <2>1. Same(f)
    <3>1. \A e \in Ends, k \in Links : hand'[e][k].n = hand[e][k].n
      BY <1>0, <1>7 DEF Claimed, HandType, Hands, Ends
    <3> QED BY <1>0, <1>p, <1>7, <3>1, FlyStill, Zenon DEF Claimed
  <2>2. Rests(f) /\ Leaves(f) /\ Idles(f)
    BY <1>0, <1>p, <1>7, Zenon DEF Claimed, Rests, Leaves, Idles, Unwritten, Settled, FlagType, AtType, FrameType
  <2> QED BY <1>0, <2>1, <2>2, FlightKept, Zenon
<1>8. ASSUME NEW l \in Links, ClaimTimeout(l) PROVE FlightInv(f)' /\ ChainInv(f)'
  <2>0. wire' = wire /\ "dialer" \in Ends
    BY <1>8, Zenon DEF ClaimTimeout, Ends
  <2>1. Same(f) \/ (Thins(f) /\ disturbed')
    <3>1. CASE registered["dialer"]
      <4>1. \A e \in Ends, k \in Links : hand'[e][k].n = hand[e][k].n
        BY <1>0, <1>8, <3>1 DEF ClaimTimeout, HandType, Hands, Ends
      <4> QED BY <1>p, <2>0, <4>1, FlyStill, Zenon
    <3>2. CASE ~registered["dialer"]
      <4>1. hand' = [hand EXCEPT !["dialer"][l] = Idle] /\ disturbed'
        BY <1>8, <3>2, Zenon DEF ClaimTimeout
      <4>2. CASE f = "dialer"
        BY <1>0, <1>p, <2>0, <4>1, <4>2, FlyPut, Zenon DEF Thins
      <4>3. CASE f # "dialer"
        <5>1. hand'[f] = hand[f]
          BY <1>0, <4>1, <4>3, Zenon DEF HandType
        <5> QED BY <1>p, <2>0, <5>1, FlyStill, Zenon
      <4> QED BY <4>2, <4>3, Zenon
    <3> QED BY <3>1, <3>2, Zenon
  <2>2. Rests(f) /\ Leaves(f) /\ Idles(f)
    BY <1>0, <1>p, <1>8, Zenon DEF ClaimTimeout, Idle, Rests, Leaves, Idles, Unwritten, Settled, FlagType, AtType, FrameType
  <2> QED BY <1>0, <2>1, <2>2, FlightKept, Zenon
<1>9. ASSUME NEW e \in Ends, NEW l \in Links, WriteFrame(e, l) PROVE FlightInv(f)' /\ ChainInv(f)'
  <2>0. Leaves(f) /\ Rests(f) /\ hand' = hand /\ sent' = sent
    BY <1>9, Zenon DEF WriteFrame, FrameWritten, Leaves, Rests
  <2>1. /\ wire' = [wire EXCEPT ![Peer(e)][l] = Append(wire[Peer(e)][l], Sealed(sent[e]))]
        /\ writing[e] /\ ~writing'[e] /\ \A g \in Ends : g # e => writing'[g] = writing[g] /\ at'[g] = at[g]
    BY <1>0, <1>9, Zenon DEF WriteFrame, FrameWritten, Post, FrameType, AtType
  <2>2. CASE f = e
    <3>1. wire'[f] = wire[f]
      BY <1>p, <1>0, <2>1, <2>2, Zenon DEF WireType
    <3>2. Same(f)
      BY <1>p, <2>0, <3>1, FlyStill, Zenon
    <3>3. done' = done
      BY <1>9, Zenon DEF WriteFrame, FrameWritten
    <3>4. Idles(f)
      BY <1>p, <2>0, <2>1, <2>2, <3>3, Zenon DEF Idles, Unwritten
    <3> QED BY <1>0, <2>0, <3>2, <3>4, FlightKept, Zenon
  <2>3. CASE f = Peer(e)
    <3>1. Peer(f) = e /\ sent[e] \in Frames
      BY <1>0, <1>p, <2>1, <2>3 DEF FrameType, Frames, Peer, Ends
    <3>2. \A n \in Frames : Flies(f, l, n) => n < sent[e]
      BY <1>0, <2>1, <3>1, Zenon DEF FlightInv, Used
    <3>3. /\ Orderly(f)'
          /\ \A k \in Links, n \in Frames : Flies(f, k, n)' <=> Flies(f, k, n) \/ (k = l /\ n = sent[e])
      <4>1. wire' = [wire EXCEPT ![f][l] = Append(wire[f][l], Sealed(sent[e]))]
        BY <2>1, <2>3, Zenon
      <4>2. hand' = hand
        BY <2>0, Zenon
      <4> QED BY <1>0, <1>p, <3>1, <3>2, <4>1, <4>2, FlyWritten, Zenon
    <3> QED BY <1>0, <2>0, <2>1, <3>1, <3>3, FlightWritten, Zenon
  <2> QED BY <1>p, <2>2, <2>3, Zenon DEF Peer, Ends
<1>10. ASSUME NEW e \in Ends, NEW l \in Links, TakeSealed(e, l) PROVE FlightInv(f)' /\ ChainInv(f)'
  <2>1. Same(f) \/ (Thins(f) /\ done'[f])
    <3> DEFINE x == IF registered[e] THEN [at |-> "put", n |-> Head(wire[e][l]).n]
                    ELSE IF e = "dialer" THEN [at |-> "claim", n |-> Head(wire[e][l]).n] ELSE Idle
    <3>1. /\ hand[e][l] = Idle /\ wire[e][l] # <<>> /\ wire' = [wire EXCEPT ![e][l] = Tail(wire[e][l])]
          /\ hand' = [hand EXCEPT ![e][l] = x] /\ done' = done
      BY <1>10, Zenon DEF TakeSealed, NextIs
    <3>2. Head(wire[e][l]).n \in Nat
      <4>1. Head(wire[e][l]) \in Messages
        BY <1>0, <3>1 DEF WireType
      <4> QED BY <4>1, MessageFacts, Zenon
    <3>3. x \in Hands /\ (x.n = Head(wire[e][l]).n \/ (x.n = 0 /\ e = "entry" /\ ~registered["entry"]))
      BY <3>2, Zenon DEF Hands, Idle, Ends
    <3> HIDE DEF x
    <3>4. hand'[e][l] = x /\ \A k \in Links : f # e \/ k # l => hand'[f][k] = hand[f][k]
      BY <1>0, <3>1, <3>3, Cell DEF HandType
    <3>5. Thins(f) /\ (f # e \/ x.n = Head(wire[e][l]).n => Same(f))
      <4>1. hand'[e][l].n = Head(wire[e][l]).n \/ hand'[e][l].n = 0
        BY <3>3, <3>4, Zenon
      <4>2. /\ hand[e][l] = Idle /\ wire[e][l] # <<>> /\ wire' = [wire EXCEPT ![e][l] = Tail(wire[e][l])]
            /\ \A k \in Links : f # e \/ k # l => hand'[f][k] = hand[f][k]
        BY <3>1, <3>4, Zenon
      <4>3. Thins(f) /\ (f # e \/ hand'[e][l].n = Head(wire[e][l]).n => Same(f))
        BY <1>0, <1>p, <4>1, <4>2, FlyTaken, Zenon
      <4> QED BY <3>4, <4>3, Zenon
    <3>6. e = "entry" /\ ~registered["entry"] => done'["entry"]
      BY <1>0, <3>1, Zenon DEF EntryInv
    <3> QED BY <3>3, <3>5, <3>6, Zenon
  <2>2. Rests(f) /\ Leaves(f) /\ Idles(f)
    BY <1>0, <1>p, <1>10, Zenon DEF TakeSealed, NextIs, Idle, Rests, Leaves, Idles, Unwritten, Settled, FlagType, AtType, FrameType
  <2> QED BY <1>0, <2>1, <2>2, FlightKept, Zenon
<1>11. ASSUME NEW e \in Ends, NEW l \in Links, Deliver(e, l) PROVE FlightInv(f)' /\ ChainInv(f)'
  <2>0. Leaves(f)
    <3>1. done' = done
      BY <1>11, Zenon DEF Deliver
    <3>2. (disturbed' = (disturbed \/ \E n \in Elsewhere(e, l) : 0 < n /\ n < hand[e][l].n)) \/ UNCHANGED <<inbound, disturbed>>
      BY <1>11, Zenon DEF Deliver
    <3>3. disturbed => disturbed'
      <4>1. CASE UNCHANGED <<inbound, disturbed>>
        BY <4>1, Zenon
      <4>2. CASE disturbed' = (disturbed \/ \E n \in Elsewhere(e, l) : 0 < n /\ n < hand[e][l].n)
        BY <4>2, Zenon
      <4> QED BY <3>2, <4>1, <4>2, Zenon
    <3> QED BY <3>1, <3>3, Zenon DEF Leaves
  <2>1. CASE f # e
    <3>1. hand'[f] = hand[f] /\ wire' = wire /\ inbound'[f] = inbound[f]
      BY <1>0, <1>11, <2>1, Zenon DEF Deliver, HandType, InboundType
    <3>2. Same(f)
      BY <1>p, <3>1, FlyStill, Zenon
    <3>3. Rests(f)
      BY <3>1, <1>11, Zenon DEF Deliver, Rests
    <3>4. Leaves(f)
      BY <2>0, Zenon
    <3>5. Idles(f)
      BY <1>11, Zenon DEF Deliver, Idles, Unwritten
    <3> QED BY <1>0, <3>2, <3>3, <3>4, <3>5, FlightKept, Zenon
  <2>2. CASE f = e
    <3> DEFINE m == hand[f][l].n
    <3>1. /\ m \in Frames /\ wire' = wire /\ hand' = [hand EXCEPT ![f][l] = Idle] /\ read' = read
      BY <1>0, <1>11, <2>2 DEF Deliver, HandType, Hands, Frames
    <3>2. Flies(f, l, m)
      BY Zenon DEF Flies, Has
    <3>3. Leaves(f) /\ Idles(f)
      <4>1. Leaves(f)
        BY <2>0, Zenon
      <4>2. Idles(f)
        BY <1>11, Zenon DEF Deliver, Idles, Unwritten
      <4> QED BY <4>1, <4>2, Zenon
    <3>4. /\ Orderly(f)'
          /\ \A k \in Links, n \in Frames : Flies(f, k, n)' <=> Flies(f, k, n) /\ ~(k = l /\ n = m)
      BY <1>0, <1>p, <3>1, FlyPut, Zenon
    <3>5. CASE inbound' = [inbound EXCEPT ![f] = Append(inbound[f], m)] /\ disturbed' = (disturbed \/ \E n \in Elsewhere(f, l) : 0 < n /\ n < m)
      <4>1. inbound'[f] = Append(inbound[f], m)
        BY <1>0, <3>5, Zenon DEF InboundType
      <4>2. ASSUME ~disturbed', NEW k \in Links, NEW n \in Frames, Flies(f, k, n) PROVE n >= m
        <5>1. CASE k # l
          <6>1. n \in Elsewhere(f, l)
            BY <4>2, <5>1 DEF Elsewhere, Flies, Has
          <6>2. ~(0 < n /\ n < m)
            BY <3>5, <4>2, <6>1, Zenon
          <6> QED BY <3>1, <6>2 DEF Frames
        <5>2. CASE k = l
          <6>1. Has(m, wire[f][l], n) /\ Ascends(m, wire[f][l]) /\ wire[f][l] \in Seq(Messages)
            BY <1>0, <1>p, <4>2, <5>2, Zenon DEF Flies, Orderly, WireType
          <6> QED BY <3>1, <6>1 DEF Has, Ascends, Frames
        <5> QED BY <5>1, <5>2, Zenon
      <4> HIDE DEF m
      <4> QED BY <1>0, <3>1, <3>2, <3>3, <3>4, <4>1, <4>2, FlightDelivered
    <3>6. CASE done[f] /\ UNCHANGED <<inbound, disturbed>>
      <4>1. inbound'[f] = inbound[f] /\ done'[f]
        BY <3>6, <1>11, Zenon DEF Deliver
      <4> HIDE DEF m
      <4> QED BY <1>0, <3>1, <3>2, <3>3, <3>4, <4>1, FlightDelivered
    <3> QED BY <1>11, <2>2, <3>5, <3>6, Zenon DEF Deliver
  <2> QED BY <2>1, <2>2, Zenon
<1>12. ASSUME NEW e \in Ends, NEW l \in Links, TakeDisconnect(e, l) PROVE FlightInv(f)' /\ ChainInv(f)'
  <2>1. Same(f)
    <3>1. /\ hand[e][l] = Idle /\ wire[e][l] # <<>> /\ wire' = [wire EXCEPT ![e][l] = Tail(wire[e][l])]
          /\ hand' = hand
      BY <1>12, Zenon DEF TakeDisconnect, NextIs
    <3>2. Head(wire[e][l]).n = 0 /\ hand[e][l].n = 0
      <4>1. Head(wire[e][l]) \in Messages /\ Head(wire[e][l]).kind = "disconnect"
        BY <1>0, <3>1, <1>12 DEF WireType, TakeDisconnect, NextIs
      <4> QED BY <3>1, <4>1, MessageFacts DEF Idle
    <3>3. \A k \in Links : f # e \/ k # l => hand'[f][k] = hand[f][k]
      BY <3>1, Zenon
    <3>4. hand'[e][l].n = Head(wire[e][l]).n
      BY <3>1, <3>2, Zenon
    <3> QED BY <1>0, <1>p, <3>1, <3>3, <3>4, FlyTaken, Zenon
  <2>2. Rests(f) /\ Leaves(f) /\ Idles(f)
    BY <1>0, <1>p, <1>12, Zenon DEF TakeDisconnect, NextIs, Finish, Idle, Rests, Leaves, Idles, Unwritten, Settled, FlagType, AtType, FrameType
  <2> QED BY <1>0, <2>1, <2>2, FlightKept, Zenon
<1>13. ASSUME NEW e \in Ends, Seal(e) PROVE FlightInv(f)' /\ ChainInv(f)'
  <2>1. Same(f)
    BY <1>0, <1>p, <1>13, FlyStill, Zenon DEF Seal
  <2>2. Rests(f) /\ Leaves(f)
    BY <1>13, Zenon DEF Seal, Rests, Leaves
  <2>3. CASE e = f
    <3>1. Idles(f)
      BY <1>0, <1>p, <1>13, <2>3, Zenon DEF Seal, Idles, Unwritten, FrameType
    <3> QED BY <1>0, <2>1, <2>2, <3>1, FlightKept, Zenon
  <2>4. CASE e = Peer(f)
    <3>1. sent'[e] = sent[e] + 1 /\ writing'[e] /\ ~Unwritten(e)
      BY <1>0, <1>13, Zenon DEF Seal, FrameType, Unwritten
    <3> QED BY <1>0, <2>1, <2>2, <2>4, <3>1, FlightSealed, Zenon
  <2> QED BY <1>p, <2>3, <2>4, Zenon
<1>14. ASSUME NEW e \in Ends, WriteFails(e) PROVE FlightInv(f)' /\ ChainInv(f)'
  <2>1. Same(f)
    BY <1>0, <1>p, <1>14, FlyStill, Zenon DEF WriteFails
  <2>2. Rests(f)
    BY <1>14, Zenon DEF WriteFails, Rests
  <2>3. Leaves(f)
    BY <1>0, <1>14, Zenon DEF WriteFails, RunFails, Finish, Leaves, FlagType
  <2>4. Idles(f)
    <3>1. sent' = sent /\ \A g \in Ends : writing'[g] => writing[g]
      BY <1>0, <1>14, Zenon DEF WriteFails, FrameType
    <3>2. CASE e = Peer(f)
      <4>1. done'[e]
        BY <1>0, <1>14, Zenon DEF WriteFails, RunFails, Finish, FlagType
      <4>2. at'[e] \in Settled
        <5>1. CASE InHandshake(e)
          BY <1>0, <1>14, <5>1, Zenon DEF WriteFails, RunFails, AtType, Settled
        <5>2. CASE ~InHandshake(e)
          <6>1. at'[e] = AfterWrite(at[e]) /\ writing[e]
            BY <1>0, <1>14, <5>2, Zenon DEF WriteFails, AtType
          <6>2. at[e] \in Settled \cup {"refuse"}
            BY <1>0, <5>2, <6>1, Zenon DEF InHandshake, EntryInv, DialerInv, Settled, Ends
          <6> QED BY <6>1, <6>2, Zenon DEF AfterWrite, Settled
        <5> QED BY <5>1, <5>2, Zenon
      <4> QED BY <1>p, <3>1, <3>2, <4>1, <4>2, Zenon DEF Idles, Unwritten
    <3>3. CASE e = f
      <4>1. writing'[Peer(f)] = writing[Peer(f)]
        BY <1>0, <1>p, <1>14, <3>3, Zenon DEF WriteFails, FrameType
      <4>2. at'[Peer(f)] = at[Peer(f)] /\ done'[Peer(f)] = done[Peer(f)]
        BY <1>0, <1>p, <1>14, <3>3, Zenon DEF WriteFails, RunFails, Finish, AtType, FlagType
      <4> QED BY <3>1, <4>1, <4>2, Zenon DEF Idles, Unwritten
    <3> QED BY <1>p, <3>2, <3>3, Zenon
  <2> QED BY <1>0, <2>1, <2>2, <2>3, <2>4, FlightKept, Zenon
<1>15. ASSUME NEW e \in Ends, AwaitFrame(e) PROVE FlightInv(f)' /\ ChainInv(f)'
  <2>1. Same(f)
    BY <1>0, <1>p, <1>15, FlyStill, Zenon DEF AwaitFrame
  <2>2. Leaves(f)
    BY <1>0, <1>15, Zenon DEF AwaitFrame, RunFails, Finish, Leaves, FlagType
  <2>3. CASE e = f
    <3>1. Idles(f)
      <4>1. sent'[Peer(f)] = sent[Peer(f)] /\ writing'[Peer(f)] = writing[Peer(f)]
        BY <1>0, <1>p, <1>15, <2>3, Zenon DEF AwaitFrame, FrameType
      <4>2. at'[Peer(f)] = at[Peer(f)] /\ done'[Peer(f)] = done[Peer(f)]
        BY <1>0, <1>p, <1>15, <2>3, Zenon DEF AwaitFrame, RunFails, Finish, FlagType, AtType
      <4> QED BY <4>1, <4>2, Zenon DEF Idles, Unwritten
    <3>2. inbound[f] # <<>> /\ inbound'[f] = Tail(inbound[f])
      BY <1>0, <1>15, <2>3, Zenon DEF AwaitFrame, InboundType
    <3>3. \/ Head(inbound[f]) = read[f] + 1 /\ read'[f] = read[f] + 1
          \/ read'[f] = read[f] /\ done'[f]
      BY <1>0, <1>15, <2>3, Zenon DEF AwaitFrame, RunFails, Finish, FrameType, FlagType
    <3> QED BY <1>0, <2>1, <2>2, <3>1, <3>2, <3>3, FlightRead, Zenon
  <2>4. CASE e = Peer(f)
    <3>1. Rests(f)
      BY <1>0, <1>p, <1>15, <2>4, Zenon DEF AwaitFrame, Rests, FrameType, InboundType
    <3>2. at[e] \notin Settled /\ at[e] \in {"await1", "await2", "await3"}
      BY <1>15, Zenon DEF AwaitFrame, Settled
    <3>3. CASE Head(inbound[e]) = read[e] + 1 /\ at[e] # "await3"
      <4>1. sent'[e] = sent[e] + 1 /\ writing'[e]
        BY <1>0, <1>15, <3>3, Zenon DEF AwaitFrame, FrameType
      <4>2. ~writing[e]
        BY <1>0, <3>2, <3>3, Zenon DEF EntryInv, DialerInv, Ends
      <4>3. ~Unwritten(e)
        BY <3>2, <4>2, Zenon DEF Unwritten
      <4> QED BY <1>0, <2>1, <2>2, <2>4, <3>1, <4>1, <4>3, FlightSealed, Zenon
    <3>4. CASE Head(inbound[e]) # read[e] + 1 \/ at[e] = "await3"
      <4>1. UNCHANGED <<sent, writing>>
        BY <1>15, <3>4, Zenon DEF AwaitFrame
      <4>2. Idles(f)
        BY <2>4, <3>2, <4>1, Zenon DEF Idles, Unwritten
      <4> QED BY <1>0, <2>1, <2>2, <3>1, <4>2, FlightKept, Zenon
    <3> QED BY <3>3, <3>4, Zenon
  <2> QED BY <1>p, <2>3, <2>4, Zenon
<1>16. ASSUME NEW e \in Ends, AwaitFails(e) PROVE Calm
  BY <1>0, <1>16, Zenon DEF AwaitFails, RunFails, Finish, Calm, Settled, FlagType, AtType
<1>17. ASSUME NEW e \in Ends, Park(e) PROVE Calm
  BY <1>0, <1>17, Zenon DEF Park, Calm, Settled, FlagType, AtType
<1>18. ASSUME NEW e \in Ends, Receive(e) PROVE FlightInv(f)' /\ ChainInv(f)'
  <2>1. Same(f)
    BY <1>0, <1>p, <1>18, FlyStill, Zenon DEF Receive
  <2>2. Leaves(f)
    BY <1>0, <1>18, Zenon DEF Receive, RunFails, Finish, Leaves, FlagType
  <2>3. Idles(f)
    <3>1. /\ UNCHANGED <<sent, writing>> /\ \A g \in Ends : at[g] \in Settled => at'[g] \in Settled
      BY <1>0, <1>18, Zenon DEF Receive, RunFails, AtType, Settled
    <3>2. \A g \in Ends : done[g] => done'[g]
      BY <1>0, <1>18, Zenon DEF Receive, RunFails, Finish, FlagType
    <3> QED BY <1>p, <3>1, <3>2, Zenon DEF Idles, Unwritten
  <2>4. CASE e = f
    <3>1. inbound[f] # <<>> /\ inbound'[f] = Tail(inbound[f])
      BY <1>0, <1>18, <2>4, Zenon DEF Receive, InboundType
    <3>2. \/ Head(inbound[f]) = read[f] + 1 /\ read'[f] = read[f] + 1
          \/ read'[f] = read[f] /\ done'[f]
      BY <1>0, <1>18, <2>4, Zenon DEF Receive, RunFails, Finish, FrameType, FlagType
    <3> QED BY <1>0, <2>1, <2>2, <2>3, <3>1, <3>2, FlightRead, Zenon
  <2>5. CASE e # f
    <3>1. Rests(f)
      BY <1>0, <1>18, <2>5, Zenon DEF Receive, Rests, FrameType, InboundType
    <3> QED BY <1>0, <2>1, <2>2, <2>3, <3>1, FlightKept, Zenon
  <2> QED BY <2>4, <2>5, Zenon
<1>19. ASSUME NEW e \in Ends, ReceiveDone(e) PROVE Calm
  BY <1>0, <1>19, Zenon DEF ReceiveDone, Calm, Settled, FlagType, AtType
<1>20. ASSUME NEW e \in Ends, PumpTake(e) PROVE Calm
  BY <1>20, Zenon DEF PumpTake, Calm
<1>21. ASSUME NEW e \in Ends, LocalEnd(e) PROVE FlightInv(f)' /\ ChainInv(f)'
  <2>1. Same(f)
    <3>1. PICK l \in Links : wire' = wire \/ Post(Peer(e), l, Control("disconnect"))
      BY <1>21, Zenon DEF LocalEnd
    <3>2. CASE wire' = wire
      BY <1>0, <1>p, <1>21, <3>2, FlyStill, Zenon DEF LocalEnd
    <3>3. CASE Post(Peer(e), l, Control("disconnect"))
      <4>1. Control("disconnect") \in Messages /\ Control("disconnect").n = 0 /\ Peer(e) \in Ends
        BY MessageFacts, Zenon DEF Ends, Peer
      <4>2. hand' = hand
        BY <1>21, Zenon DEF LocalEnd
      <4> QED BY <1>0, <1>p, <3>3, <4>1, <4>2, FlyControl, Zenon DEF Post
    <3> QED BY <3>1, <3>2, <3>3, Zenon
  <2>2. Rests(f) /\ Leaves(f) /\ Idles(f)
    BY <1>0, <1>p, <1>21, Zenon DEF LocalEnd, Post, Control, Peer, Up, Rests, Leaves, Idles, Unwritten, Settled, FlagType, AtType, FrameType
  <2> QED BY <1>0, <2>1, <2>2, FlightKept, Zenon
<1>22. ASSUME NEW e \in Ends, Cleanup(e) PROVE Calm
  BY <1>0, <1>22, Zenon DEF Cleanup, Finish, Calm, Settled, FlagType, AtType
<1>23. OpenGraceExpires => Calm
  BY <1>0, Zenon DEF OpenGraceExpires, Finish, Calm, Settled, FlagType, AtType
<1>24. OpenReady => Calm
  BY Zenon DEF OpenReady, Calm
<1>25. OpenFails => Calm
  BY <1>0, Zenon DEF OpenFails, Finish, Calm, Settled, FlagType, AtType
<1>26. DeliverToQueue => Calm
  BY <1>0, Zenon DEF DeliverToQueue, Calm, Settled, FlagType, AtType
<1>27. DispatchData => Calm
  BY <1>0, Zenon DEF DispatchData, Calm, Settled, FlagType, AtType
<1>28. ConnectGivesUp => Calm
  BY Zenon DEF ConnectGivesUp, Calm
<1>29. ASSUME NEW o \in {"dialled", "failed", "blocked"}, DispatchConnect(o) PROVE FlightInv(f)' /\ ChainInv(f)'
  <2>1. Same(f)
    BY <1>0, <1>p, <1>29, FlyStill, Zenon DEF DispatchConnect
  <2>2. Rests(f) /\ Leaves(f)
    BY <1>29, Zenon DEF DispatchConnect, Rests, Leaves
  <2>3. CASE f = "dialer" \/ done["dialer"]
    <3>1. sent'[Peer(f)] = sent[Peer(f)] /\ writing'[Peer(f)] = writing[Peer(f)]
      BY <1>0, <1>29, <2>3, Zenon DEF DispatchConnect, Peer, FrameType, Ends
    <3>2. Unwritten(Peer(f)) => Unwritten(Peer(f))'
      BY <1>0, <1>29, <2>3, <3>1, Zenon DEF DispatchConnect, Peer, Unwritten, AtType, Settled, Ends
    <3>3. Idles(f)
      BY <3>1, <3>2, Zenon DEF Idles
    <3> QED BY <1>0, <2>1, <2>2, <3>3, FlightKept, Zenon
  <2>4. CASE f = "entry" /\ ~done["dialer"]
    <3>1. Peer(f) = "dialer" /\ sent'["dialer"] = sent["dialer"] + 1 /\ writing'["dialer"]
      BY <1>0, <1>29, <2>4, Zenon DEF DispatchConnect, Peer, FrameType, Ends
    <3>2. at["dialer"] = "held" /\ read["dialer"] = 3
      BY <1>29, Zenon DEF DispatchConnect, Connect
    <3>3. dial = "none"
      BY <1>0, <3>2 DEF DialerInv
    <3>4. ~writing["dialer"]
      BY <1>0, <3>2, <3>3, Zenon DEF DialerInv
    <3>5. ~Unwritten("dialer")
      BY <2>4, <3>4, Zenon DEF Unwritten
    <3> QED BY <1>0, <2>1, <2>2, <3>1, <3>5, FlightSealed, Zenon
  <2> QED BY <2>3, <2>4, Zenon DEF Ends
<1>30. UNCHANGED vars => Calm
  BY Zenon DEF vars, Calm
<1> QED
  BY <1>c, <1>1, <1>2, <1>3, <1>4, <1>5, <1>6, <1>7, <1>8, <1>9, <1>10, <1>11, <1>12, <1>13, <1>14, <1>15, <1>16, <1>17, <1>18, <1>19, <1>20, <1>21, <1>22, <1>23, <1>24, <1>25, <1>26, <1>27, <1>28, <1>29, <1>30, Zenon DEF Next, LinkStep, EndStep

-----------------------------------------------------------------------------
(* The nonce chain.                                                        *)

\* Only the frame after the last one read is ever taken from a chain that is whole.
LEMMA NonceNext ==
  TypeInv /\ StageInv /\ (\A e \in Ends : FlightInv(e) /\ ChainInv(e)) /\ NonceChain /\ [Next]_vars => NonceChain'
<1> SUFFICES ASSUME TypeInv, StageInv, \A e \in Ends : ChainInv(e), NonceChain, [Next]_vars, NEW f \in Ends,
                    cause'[f] = "decrypt"
             PROVE  disturbed'
  BY Zenon DEF NonceChain
<1>0. FlagType /\ CauseType /\ FrameType /\ InboundType /\ CauseInv /\ ChainInv(f) /\ (cause[f] = "decrypt" => disturbed)
  BY Zenon DEF TypeInv, StageInv, NonceChain
<1> USE DEF transport, claim, session, channel
<1>n. ASSUME inbound[f] # <<>>, Head(inbound[f]) # read[f] + 1, cause[f] = "none" PROVE disturbed
  <2>1. 1 \in DOMAIN inbound[f] /\ Head(inbound[f]) = inbound[f][1]
    BY <1>0, <1>n DEF InboundType
  <2>2. ~done[f]
    BY <1>0, <1>n, Zenon DEF CauseInv
  <2> QED BY <1>0, <1>n, <2>1, <2>2, Zenon DEF ChainInv
<1>1. ASSUME NEW l \in Links, Reconnect(l) PROVE disturbed'
  BY <1>0, <1>1, Zenon DEF Reconnect, CauseType
<1>2. ASSUME NEW l \in Links, Resume(l) PROVE disturbed'
  BY <1>0, <1>2, Zenon DEF Resume, Up, Post, Control, CauseType
<1>3. ASSUME NEW l \in Links, Break(l) PROVE disturbed'
  <2>1. disturbed
    BY <1>0, <1>3, Zenon DEF Break
  <2>2. PICK i \in Nat, j \in Nat : disturbed' = (disturbed \/ Loses("entry", l, i) \/ Loses("dialer", l, j))
    BY <1>3 DEF Break
  <2> QED BY <2>1, <2>2, Zenon
<1>4. ASSUME NEW l \in Links, OpenChannel(l) PROVE disturbed'
  BY <1>0, <1>4, Zenon DEF OpenChannel, Post, Control, Up, CauseType
<1>5. ASSUME NEW l \in Links, AcceptChannel(l) PROVE disturbed'
  BY <1>0, <1>5, Zenon DEF AcceptChannel, Control, Idle, Up, CauseType
<1>6. ASSUME NEW l \in Links, Subscribe(l) PROVE disturbed'
  BY <1>0, <1>6, Zenon DEF Subscribe, CauseType
<1>7. ASSUME NEW l \in Links, Claimed(l) PROVE disturbed'
  BY <1>0, <1>7, Zenon DEF Claimed, CauseType
<1>8. ASSUME NEW l \in Links, ClaimTimeout(l) PROVE disturbed'
  <2>1. disturbed
    BY <1>0, <1>8, Zenon DEF ClaimTimeout
  <2> QED BY <2>1, <1>8, Zenon DEF ClaimTimeout
<1>9. ASSUME NEW e \in Ends, NEW l \in Links, WriteFrame(e, l) PROVE disturbed'
  BY <1>0, <1>9, Zenon DEF WriteFrame, FrameWritten, CauseType
<1>10. ASSUME NEW e \in Ends, NEW l \in Links, TakeSealed(e, l) PROVE disturbed'
  BY <1>0, <1>10, Zenon DEF TakeSealed, NextIs, Idle, CauseType
<1>11. ASSUME NEW e \in Ends, NEW l \in Links, Deliver(e, l) PROVE disturbed'
  <2>1. disturbed
    BY <1>0, <1>11, Zenon DEF Deliver
  <2>2. (disturbed' = (disturbed \/ \E n \in Elsewhere(e, l) : 0 < n /\ n < hand[e][l].n)) \/ UNCHANGED <<inbound, disturbed>>
    BY <1>11, Zenon DEF Deliver
  <2>3. CASE UNCHANGED <<inbound, disturbed>>
    BY <2>1, <2>3, Zenon
  <2>4. CASE disturbed' = (disturbed \/ \E n \in Elsewhere(e, l) : 0 < n /\ n < hand[e][l].n)
    BY <2>1, <2>4, Zenon
  <2> QED BY <2>2, <2>3, <2>4, Zenon
<1>12. ASSUME NEW e \in Ends, NEW l \in Links, TakeDisconnect(e, l) PROVE disturbed'
  BY <1>0, <1>12, Zenon DEF TakeDisconnect, NextIs, Finish, Idle, CauseType
<1>13. ASSUME NEW e \in Ends, Seal(e) PROVE disturbed'
  BY <1>0, <1>13, Zenon DEF Seal, CauseType
<1>14. ASSUME NEW e \in Ends, WriteFails(e) PROVE disturbed'
  BY <1>0, <1>14, Zenon DEF WriteFails, RunFails, Finish, AfterWrite, CauseType
<1>15. ASSUME NEW e \in Ends, AwaitFrame(e) PROVE disturbed'
  <2>1. disturbed' = disturbed
    BY <1>15, Zenon DEF AwaitFrame
  <2>2. CASE cause[f] = "decrypt"
    BY <1>0, <2>1, <2>2, Zenon
  <2>3. CASE cause[f] # "decrypt"
    <3>1. inbound[f] # <<>> /\ Head(inbound[f]) # read[f] + 1 /\ cause[f] = "none"
      BY <1>0, <1>15, <2>3, Zenon DEF AwaitFrame, RunFails, Finish, CauseType
    <3> QED BY <1>n, <2>1, <3>1, Zenon
  <2> QED BY <2>2, <2>3, Zenon
<1>16. ASSUME NEW e \in Ends, AwaitFails(e) PROVE disturbed'
  BY <1>0, <1>16, Zenon DEF AwaitFails, RunFails, Finish, CauseType
<1>17. ASSUME NEW e \in Ends, Park(e) PROVE disturbed'
  BY <1>0, <1>17, Zenon DEF Park, CauseType
<1>18. ASSUME NEW e \in Ends, Receive(e) PROVE disturbed'
  <2>1. disturbed' = disturbed
    BY <1>18, Zenon DEF Receive
  <2>2. CASE cause[f] = "decrypt"
    BY <1>0, <2>1, <2>2, Zenon
  <2>3. CASE cause[f] # "decrypt"
    <3>1. inbound[f] # <<>> /\ Head(inbound[f]) # read[f] + 1 /\ cause[f] = "none"
      BY <1>0, <1>18, <2>3, Zenon DEF Receive, RunFails, Finish, CauseType
    <3> QED BY <1>n, <2>1, <3>1, Zenon
  <2> QED BY <2>2, <2>3, Zenon
<1>19. ASSUME NEW e \in Ends, ReceiveDone(e) PROVE disturbed'
  BY <1>0, <1>19, Zenon DEF ReceiveDone, CauseType
<1>20. ASSUME NEW e \in Ends, PumpTake(e) PROVE disturbed'
  BY <1>0, <1>20, Zenon DEF PumpTake, CauseType
<1>21. ASSUME NEW e \in Ends, LocalEnd(e) PROVE disturbed'
  BY <1>0, <1>21, Zenon DEF LocalEnd, Post, Control, Peer, Up, CauseType
<1>22. ASSUME NEW e \in Ends, Cleanup(e) PROVE disturbed'
  BY <1>0, <1>22, Zenon DEF Cleanup, Finish, CauseType
<1>23. CASE OpenGraceExpires
  BY <1>0, <1>23, Zenon DEF OpenGraceExpires, Finish, CauseType
<1>24. CASE OpenReady
  BY <1>0, <1>24, Zenon DEF OpenReady, CauseType
<1>25. CASE OpenFails
  BY <1>0, <1>25, Zenon DEF OpenFails, Finish, CauseType
<1>26. CASE DeliverToQueue
  BY <1>0, <1>26, Zenon DEF DeliverToQueue, Enqueue, HasRoom, CauseType
<1>27. CASE DispatchData
  BY <1>0, <1>27, Zenon DEF DispatchData, Enqueue, HasRoom, CauseType
<1>28. CASE ConnectGivesUp
  BY <1>0, <1>28, Zenon DEF ConnectGivesUp, CauseType
<1>29. ASSUME NEW o \in {"dialled", "failed", "blocked"}, DispatchConnect(o) PROVE disturbed'
  BY <1>0, <1>29, Zenon DEF DispatchConnect, CauseType
<1>30. CASE UNCHANGED vars
  BY <1>0, <1>30, Zenon DEF vars
<1> QED
  BY <1>1, <1>2, <1>3, <1>4, <1>5, <1>6, <1>7, <1>8, <1>9, <1>10, <1>11, <1>12, <1>13, <1>14, <1>15, <1>16, <1>17, <1>18, <1>19, <1>20, <1>21, <1>22, <1>23, <1>24, <1>25, <1>26, <1>27, <1>28, <1>29, <1>30, Zenon DEF Next, LinkStep, EndStep

-----------------------------------------------------------------------------
(* What the pumps get.                                                     *)

\* A step that dispatches nothing and opens no session.
Quiet == /\ UNCHANGED <<plan, got, queue, read>>
         /\ \A e \in Ends : /\ ~done'[e] /\ bound'[e] => ~done[e] /\ bound[e]
                            /\ at'[e] = at[e] \/ (at[e] \notin {"held", "block"} /\ at'[e] \notin {"held", "block"})

\* The messages of a pump and of its queue.
LEMMA PayloadFacts ==
  ASSUME QueueType, NEW e \in Ends
  PROVE  got[e] \in Seq(Frames) /\ queue[e] \in Seq(Frames) /\ Payload(e) \in Seq(Frames) /\ Len(Payload(e)) = Len(got[e]) + Len(queue[e])
BY DEF QueueType, Payload

\* A message moves from the head of one sequence to the end of the other.
LEMMA Slide ==
  ASSUME NEW S, NEW s \in Seq(S), NEW t \in Seq(S), t # <<>>
  PROVE  Append(s, Head(t)) \o Tail(t) = s \o t
<1> DEFINE a == Append(s, Head(t)) \o Tail(t)
           b == s \o t
<1>1. Head(t) \in S /\ Tail(t) \in Seq(S) /\ Len(t) \in Nat \ {0} /\ Len(s) \in Nat /\ Len(Tail(t)) = Len(t) - 1
  OBVIOUS
<1>2. a \in Seq(S) /\ b \in Seq(S) /\ Len(a) = Len(s) + Len(t) /\ Len(b) = Len(s) + Len(t)
  BY <1>1
<1>3. ASSUME NEW i \in 1 .. Len(s) + Len(t) PROVE a[i] = b[i]
  BY <1>1
<1> HIDE DEF a, b
<1>4. a = b
  BY <1>2, <1>3
<1> QED BY <1>4, Zenon DEF a, b

\* A message joins the second sequence.
LEMMA AppendBehind ==
  \A s, t \in Seq(Frames), x \in Frames : s \o Append(t, x) = Append(s \o t, x)
<1> TAKE s, t \in Seq(Frames), x \in Frames
<1> DEFINE a == s \o Append(t, x)
           b == Append(s \o t, x)
<1>1. Append(t, x) \in Seq(Frames) /\ s \o t \in Seq(Frames) /\ Len(t) \in Nat /\ Len(s) \in Nat
      /\ Len(s \o t) = Len(s) + Len(t) /\ Len(Append(t, x)) = Len(t) + 1
  OBVIOUS
<1>2. a \in Seq(Frames) /\ b \in Seq(Frames) /\ Len(a) = Len(s) + Len(t) + 1 /\ Len(b) = Len(s) + Len(t) + 1
  BY <1>1
<1>3. ASSUME NEW i \in 1 .. Len(s) + Len(t) + 1 PROVE a[i] = b[i]
  BY <1>1
<1> HIDE DEF a, b
<1>4. a = b
  BY <1>2, <1>3
<1> QED BY <1>4, Zenon DEF a, b

\* A message is dispatched behind the others.
LEMMA WholeGrows ==
  ASSUME QueueType, FrameType, NEW e \in Ends, Whole(e), at[e] \in {"held", "block"}, read[e] >= FirstPayload(e),
         read'[e] = read[e], at'[e] \notin {"held", "block"},
         got'[e] = got[e], queue'[e] = Append(queue[e], read[e])
  PROVE  Whole(e)'
<1>1. /\ got[e] \in Seq(Frames) /\ queue[e] \in Seq(Frames) /\ Payload(e) \in Seq(Frames) /\ read[e] \in Nat
      /\ FirstPayload(e) \in Nat \ {0} /\ FirstPayload(e)' = FirstPayload(e)
  <2>1. got[e] \in Seq(Frames) /\ queue[e] \in Seq(Frames) /\ Payload(e) \in Seq(Frames)
    BY PayloadFacts, Zenon
  <2>2. FirstPayload(e) \in Nat \ {0} /\ FirstPayload(e)' = FirstPayload(e)
    BY DEF FirstPayload, ConnectResponse, Connect
  <2>3. read[e] \in Nat
    BY Zenon DEF FrameType
  <2> QED BY <2>1, <2>2, <2>3, Zenon
<1>2. Payload(e)' = Append(Payload(e), read[e])
  <2>1. got[e] \in Seq(Frames) /\ queue[e] \in Seq(Frames) /\ read[e] \in Frames
    BY <1>1 DEF Frames
  <2>2. got[e] \o Append(queue[e], read[e]) = Append(got[e] \o queue[e], read[e])
    BY <2>1, AppendBehind, Zenon
  <2> QED BY <2>2, Zenon DEF Payload
<1>3. Len(Payload(e)) = read[e] - FirstPayload(e) /\ Len(Payload(e)) \in Nat
  BY <1>1 DEF Whole, Count, Dispatched
<1>4. Count(e)' = read[e] - FirstPayload(e) + 1
  BY <1>1, Zenon DEF Count, Dispatched
<1>5. read[e] \in Frames
  BY <1>1 DEF Frames
<1>6. Len(Payload(e)') = Count(e)'
  BY <1>1, <1>2, <1>3, <1>4, <1>5
<1>7. Contiguous(e)'
  <2>1. \A i \in 1 .. Len(Payload(e)) : Payload(e)[i] = FirstPayload(e) + i - 1
    <3>1. DOMAIN Payload(e) = 1 .. Len(Payload(e))
      BY <1>1
    <3> QED BY <3>1, Zenon DEF Whole, Contiguous
  <2>2. read[e] = FirstPayload(e) + (Len(Payload(e)) + 1) - 1
    BY <1>1, <1>3
  <2>3. \A i \in 1 .. Len(Payload(e)) + 1 : i \in 1 .. Len(Payload(e)) \/ i = Len(Payload(e)) + 1
    BY <1>3
  <2>4. \A i \in DOMAIN Append(Payload(e), read[e]) : Append(Payload(e), read[e])[i] = FirstPayload(e) + i - 1
    BY <1>1, <1>5, <2>1, <2>2, <2>3, AppendFacts
  <2> QED BY <1>1, <1>2, <2>4, Zenon DEF Contiguous
<1> QED BY <1>6, <1>7, Zenon DEF Whole

\* Nothing is dispatched, and no session opens again.
LEMMA WholeKept ==
  ASSUME NEW e \in Ends, PumpWhole(e), Payload(e)' = Payload(e), Count(e)' = Count(e),
         ~done'[e] /\ bound'[e] => ~done[e] /\ bound[e]
  PROVE  PumpWhole(e)'
BY Zenon DEF PumpWhole, Whole, Contiguous, FirstPayload

\* The same for what the client's pump gets while its session closes.
LEMMA EntryKept ==
  ASSUME FrameType, EntryWhole, plan' = plan, Payload("entry")' = Payload("entry"), Count("entry")' = Count("entry"),
         at'["entry"] = "block" => at["entry"] = "block",
         at'["entry"] \in {"held", "block"} => at["entry"] \in {"held", "block"},
         read'["entry"] = read["entry"]
  PROVE  EntryWhole'
BY Zenon DEF EntryWhole, Whole, Contiguous, FirstPayload

\* The pumps at first.
LEMMA PumpInit == Init => PumpInv
<1> SUFFICES ASSUME Init PROVE PumpInv
  BY Zenon
<1>0. \A e \in Ends : at[e] = "idle" /\ read[e] = 0 /\ got[e] = <<>> /\ queue[e] = <<>>
  BY Zenon DEF Init
<1>1. \A e \in Ends : Payload(e) = <<>> /\ Count(e) = 0
  BY <1>0 DEF Payload, Count, Dispatched, FirstPayload, ConnectResponse, Connect
<1>2. \A e \in Ends : Whole(e)
  BY <1>1 DEF Whole, Contiguous
<1>3. at["entry"] = "idle" /\ "entry" \in Ends
  BY Zenon DEF Init, Ends
<1> QED BY <1>2, <1>3, Zenon DEF PumpInv, PumpWhole, EntryWhole, Whole

\* Every action leaves what the pumps get whole.
LEMMA PumpNext ==
  TypeInv /\ StageInv /\ (\A e \in Ends : FlightInv(e) /\ ChainInv(e)) /\ PumpInv /\ [Next]_vars => PumpInv'
<1> SUFFICES ASSUME TypeInv, StageInv, \A e \in Ends : FlightInv(e), PumpInv, [Next]_vars
             PROVE  PumpInv'
  BY Zenon
<1>0. /\ LinkType /\ FlagType /\ AtType /\ FrameType /\ InboundType /\ ChannelType /\ QueueType
      /\ EntryInv /\ OpenInv /\ DialerInv /\ WireType
      /\ FlightInv("entry") /\ (\A e \in Ends : PumpWhole(e)) /\ EntryWhole /\ "entry" \in Ends /\ "dialer" \in Ends
  BY Zenon DEF TypeInv, StageInv, PumpInv, Ends
<1> USE DEF transport, claim, session, channel
<1>q. ASSUME Quiet PROVE PumpInv'
  <2>1. \A e \in Ends : Payload(e)' = Payload(e) /\ Count(e)' = Count(e)
    BY <1>q, Zenon DEF Quiet, Payload, Count, Dispatched, FirstPayload
  <2>2. \A e \in Ends : PumpWhole(e)'
    BY <1>0, <1>q, <2>1, WholeKept, Zenon DEF Quiet
  <2>3. EntryWhole'
    BY <1>0, <1>q, <2>1, EntryKept, Zenon DEF Quiet
  <2> QED BY <2>2, <2>3, Zenon DEF PumpInv
<1>1. ASSUME NEW l \in Links, Reconnect(l) PROVE Quiet
  BY <1>1, Zenon DEF Reconnect, Quiet
<1>2. ASSUME NEW l \in Links, Resume(l) PROVE Quiet
  BY <1>2, Zenon DEF Resume, Quiet
<1>3. ASSUME NEW l \in Links, Break(l) PROVE Quiet
  BY <1>3, Zenon DEF Break, Quiet
<1>4. ASSUME NEW l \in Links, OpenChannel(l) PROVE Quiet
  BY <1>0, <1>4, Zenon DEF OpenChannel, Quiet, FlagType, AtType, ChannelType, EntryInv
<1>5. ASSUME NEW l \in Links, AcceptChannel(l) PROVE Quiet
  <2>1. UNCHANGED <<plan, got, queue, read, done, bound>>
    BY <1>5, Zenon DEF AcceptChannel
  <2>2. CASE at' = at
    BY <2>1, <2>2, Zenon DEF Quiet
  <2>3. CASE Head(wire["dialer"][l]).kind = "open" /\ at' = [at EXCEPT !["dialer"] = "await1"]
    <3>1. Opens(l, 1)
      BY <1>0, <1>5, <2>3 DEF AcceptChannel, Opens, WireType
    <3>2. at["dialer"] = "idle"
      BY <1>0, <3>1, Zenon DEF OpenInv
    <3> QED BY <1>0, <2>1, <2>3, <3>2, Zenon DEF AtType, Quiet
  <2> QED BY <1>5, <2>2, <2>3, Zenon DEF AcceptChannel
<1>6. ASSUME NEW l \in Links, Subscribe(l) PROVE Quiet
  BY <1>6, Zenon DEF Subscribe, Quiet
<1>7. ASSUME NEW l \in Links, Claimed(l) PROVE Quiet
  BY <1>7, Zenon DEF Claimed, Quiet
<1>8. ASSUME NEW l \in Links, ClaimTimeout(l) PROVE Quiet
  BY <1>8, Zenon DEF ClaimTimeout, Quiet
<1>9. ASSUME NEW e \in Ends, NEW l \in Links, WriteFrame(e, l) PROVE Quiet
  BY <1>0, <1>9, Zenon DEF WriteFrame, FrameWritten, AfterWrite, Quiet, FlagType, AtType, ChannelType
<1>10. ASSUME NEW e \in Ends, NEW l \in Links, TakeSealed(e, l) PROVE Quiet
  BY <1>10, Zenon DEF TakeSealed, Quiet
<1>11. ASSUME NEW e \in Ends, NEW l \in Links, Deliver(e, l) PROVE Quiet
  BY <1>11, Zenon DEF Deliver, Quiet
<1>12. ASSUME NEW e \in Ends, NEW l \in Links, TakeDisconnect(e, l) PROVE Quiet
  BY <1>0, <1>12, Zenon DEF TakeDisconnect, Finish, Quiet, FlagType, AtType, ChannelType
<1>13. ASSUME NEW e \in Ends, Seal(e) PROVE Quiet
  BY <1>13, Zenon DEF Seal, Quiet
<1>14. ASSUME NEW e \in Ends, WriteFails(e) PROVE Quiet
  BY <1>0, <1>14 DEF WriteFails, RunFails, Finish, AfterWrite, Quiet, FlagType, AtType, ChannelType, InHandshake
<1>15. ASSUME NEW e \in Ends, AwaitFrame(e) PROVE PumpInv'
  <2>1. /\ UNCHANGED <<plan, got, queue, bound>>
        /\ \A f \in Ends : Payload(f)' = Payload(f)
    BY <1>15, Zenon DEF AwaitFrame, Payload
  <2>2. \A f \in Ends : ~done'[f] /\ bound'[f] => ~done[f] /\ bound[f]
    BY <1>0, <1>15, Zenon DEF AwaitFrame, RunFails, Finish, FlagType
  <2>3. at[e] \notin {"held", "block"} /\ at'[e] \notin {"held", "block"} /\ \A f \in Ends : f # e => at'[f] = at[f]
    BY <1>0, <1>15, Zenon DEF AwaitFrame, RunFails, AtType
  <2>4. (read'[e] = read[e] \/ read'[e] = read[e] + 1) /\ \A f \in Ends : f # e => read'[f] = read[f]
    BY <1>0, <1>15, Zenon DEF AwaitFrame, FrameType
  <2>5. read[e] \in Nat /\ (e = "entry" => read[e] = 0) /\ (e = "dialer" => read[e] <= 1)
    <3>1. at[e] \in {"await1", "await2", "await3"} /\ read[e] \in Nat
      BY <1>0, <1>15, Zenon DEF AwaitFrame, FrameType
    <3>2. CASE e = "entry"
      BY <1>0, <3>1, <3>2, Zenon DEF EntryInv, Settled
    <3>3. CASE e = "dialer"
      BY <1>0, <3>1, <3>3 DEF DialerInv
    <3> QED BY <3>1, <3>2, <3>3, Zenon DEF Ends
  <2>6. \A f \in Ends : Count(f)' = Count(f)
    <3>1. Count(e)' = 0 /\ Count(e) = 0
      BY <2>3, <2>4, <2>5 DEF Count, Dispatched, FirstPayload, ConnectResponse, Connect, Ends
    <3>2. ASSUME NEW f \in Ends, f # e PROVE Count(f)' = Count(f)
      BY <2>3, <2>4, <3>2, Zenon DEF Count, Dispatched, FirstPayload
    <3> QED BY <3>1, <3>2, Zenon
  <2>7. \A f \in Ends : PumpWhole(f)'
    BY <1>0, <2>1, <2>2, <2>6, WholeKept, Zenon
  <2>8. EntryWhole'
    <3>1. CASE e = "dialer"
      BY <1>0, <2>1, <2>3, <2>4, <2>6, <3>1, EntryKept, Zenon
    <3>2. CASE e = "entry"
      <4>1. Whole("entry") \/ ~(plan.queue + 2 >= plan.down)
        BY <1>0, <2>5, <3>2 DEF EntryWhole
      <4>2. Whole("entry") => Whole("entry")'
        BY <1>0, <2>1, <2>6, Zenon DEF Whole, Contiguous, FirstPayload
      <4> QED BY <2>1, <2>3, <3>2, <4>1, <4>2, Zenon DEF EntryWhole, Whole
    <3> QED BY <3>1, <3>2, Zenon DEF Ends
  <2> QED BY <2>7, <2>8, Zenon DEF PumpInv
<1>16. ASSUME NEW e \in Ends, AwaitFails(e) PROVE Quiet
  BY <1>0, <1>16, Zenon DEF AwaitFails, RunFails, Finish, Quiet, FlagType, AtType, ChannelType
<1>17. ASSUME NEW e \in Ends, Park(e) PROVE Quiet
  BY <1>0, <1>17, Zenon DEF Park, Quiet, FlagType, AtType, ChannelType
<1>18. ASSUME NEW e \in Ends, Receive(e) PROVE PumpInv'
  <2>1. /\ UNCHANGED <<plan, got, queue, bound>>
        /\ \A f \in Ends : Payload(f)' = Payload(f)
    BY <1>18, Zenon DEF Receive, Payload
  <2>2. \A f \in Ends : ~done'[f] /\ bound'[f] => ~done[f] /\ bound[f]
    BY <1>0, <1>18, Zenon DEF Receive, RunFails, Finish, FlagType
  <2>3. \A f \in Ends : f # e => at'[f] = at[f] /\ read'[f] = read[f]
    BY <1>0, <1>18, Zenon DEF Receive, RunFails, AtType, FrameType
  <2>4. /\ at[e] \notin {"held", "block"} /\ read[e] \in Nat /\ inbound[e] # <<>>
        /\ \/ at'[e] = "held" /\ read'[e] = read[e] + 1 /\ Head(inbound[e]) = read[e] + 1
           \/ at'[e] = "ended" /\ read'[e] = read[e]
    BY <1>0, <1>18, Zenon DEF Receive, RunFails, AtType, FrameType
  <2>5. \A f \in Ends : Count(f)' = Count(f)
    <3>1. Dispatched(e)' = Dispatched(e)
      BY <2>4 DEF Dispatched
    <3>2. ASSUME NEW f \in Ends, f # e PROVE Dispatched(f)' = Dispatched(f)
      BY <2>3, <3>2, Zenon DEF Dispatched
    <3> QED BY <3>1, <3>2, Zenon DEF Count, FirstPayload
  <2>6. \A f \in Ends : PumpWhole(f)'
    BY <1>0, <2>1, <2>2, <2>5, WholeKept, Zenon
  <2>7. EntryWhole'
    <3>1. CASE e = "dialer" \/ at'[e] = "ended"
      BY <1>0, <2>1, <2>3, <2>4, <2>5, <3>1, EntryKept, Zenon DEF Ends
    <3>2. CASE e = "entry" /\ at'[e] = "held"
      <4>1. inbound["entry"] \in Seq(Frames) /\ Head(inbound["entry"]) = inbound["entry"][1] /\ 1 \in DOMAIN inbound["entry"]
        BY <1>0, <2>4, <3>2 DEF InboundType
      <4>2. read["entry"] + 1 <= sent["dialer"]
        BY <1>0, <2>4, <3>2, <4>1, Zenon DEF FlightInv, Peer
      <4>3. ~(read["entry"] >= plan.down /\ read["entry"] >= 2)
        BY <1>0, <2>4, <3>2, <4>2, SecureAssumption DEF DialerInv, FrameType, LinkType
      <4>4. Whole("entry") \/ ~(plan.queue + 2 >= plan.down)
        BY <1>0, <4>3, Zenon DEF EntryWhole
      <4>5. Whole("entry") => Whole("entry")'
        BY <1>0, <2>1, <2>5, Zenon DEF Whole, Contiguous, FirstPayload
      <4> QED BY <2>1, <3>2, <4>4, <4>5, Zenon DEF EntryWhole, Whole
    <3> QED BY <2>4, <3>1, <3>2, Zenon DEF Ends
  <2> QED BY <2>6, <2>7, Zenon DEF PumpInv
<1>19. ASSUME NEW e \in Ends, ReceiveDone(e) PROVE Quiet
  BY <1>0, <1>19, Zenon DEF ReceiveDone, Quiet, FlagType, AtType, ChannelType
<1>20. ASSUME NEW e \in Ends, PumpTake(e) PROVE PumpInv'
  <2>1. Payload(e)' = Payload(e)
    <3>1. got[e] \in Seq(Frames) /\ queue[e] \in Seq(Frames) /\ queue[e] # <<>>
      BY <1>0, <1>20, PayloadFacts, Zenon DEF PumpTake
    <3>2. got'[e] = Append(got[e], Head(queue[e])) /\ queue'[e] = Tail(queue[e])
      BY <1>0, <1>20, Zenon DEF PumpTake, QueueType
    <3>3. Append(got[e], Head(queue[e])) \o Tail(queue[e]) = got[e] \o queue[e]
      BY <3>1, Slide, Zenon
    <3> QED BY <3>2, <3>3, Zenon DEF Payload
  <2>2. \A f \in Ends : Payload(f)' = Payload(f)
    <3>1. ASSUME NEW f \in Ends, f # e PROVE Payload(f)' = Payload(f)
      BY <1>0, <1>20, <3>1, Zenon DEF PumpTake, QueueType, Payload
    <3> QED BY <2>1, <3>1, Zenon
  <2>3. UNCHANGED <<plan, at, read, done, bound>>
    BY <1>20, Zenon DEF PumpTake
  <2>4. \A f \in Ends : Count(f)' = Count(f)
    BY <2>3, Zenon DEF Count, Dispatched, FirstPayload
  <2>5. \A f \in Ends : PumpWhole(f)'
    BY <1>0, <2>2, <2>3, <2>4, WholeKept, Zenon
  <2>6. EntryWhole'
    BY <1>0, <2>2, <2>3, <2>4, EntryKept, Zenon
  <2> QED BY <2>5, <2>6, Zenon DEF PumpInv
<1>21. ASSUME NEW e \in Ends, LocalEnd(e) PROVE Quiet
  BY <1>21, Zenon DEF LocalEnd, Quiet
<1>22. ASSUME NEW e \in Ends, Cleanup(e) PROVE Quiet
  BY <1>0, <1>22, Zenon DEF Cleanup, Finish, Quiet, FlagType, AtType, ChannelType
<1>23. OpenGraceExpires => Quiet
  BY <1>0, Zenon DEF OpenGraceExpires, Finish, Quiet, FlagType, AtType, ChannelType
<1>24. OpenReady => Quiet
  BY Zenon DEF OpenReady, Quiet
<1>25. OpenFails => Quiet
  BY <1>0, Zenon DEF OpenFails, Finish, Quiet, FlagType, AtType, ChannelType
<1>26. CASE DeliverToQueue
  <2>1. /\ UNCHANGED <<plan, got, read, done, bound>> /\ at["entry"] \in {"held", "block"}
        /\ at'["dialer"] = at["dialer"] /\ queue'["dialer"] = queue["dialer"]
    BY <1>0, <1>26, Zenon DEF DeliverToQueue, Enqueue, AtType, QueueType
  <2>2. PumpWhole("dialer")'
    <3>1. Payload("dialer")' = Payload("dialer") /\ Count("dialer")' = Count("dialer")
      BY <2>1, Zenon DEF Payload, Count, Dispatched, FirstPayload
    <3> QED BY <1>0, <2>1, <3>1, WholeKept, Zenon
  <2>3. /\ read["entry"] >= FirstPayload("entry") /\ read["entry"] \in Nat /\ FirstPayload("entry") = 2 /\ read["entry"] >= 2
        /\ plan.queue \in Nat /\ plan.down \in Nat /\ plan.queue = Queue("entry")
    BY <1>0, <2>1, SecureAssumption, Zenon DEF EntryInv, Settled, FirstPayload, ConnectResponse, FrameType, LinkType, Queue
  <2>4. plan.queue + 2 >= plan.down => Whole("entry")
    BY <1>0, <2>1, Zenon DEF EntryWhole
  <2>5. CASE Enqueue("entry") /\ at' = [at EXCEPT !["entry"] = "loop"]
    <3>1. queue'["entry"] = Append(queue["entry"], read["entry"]) /\ at'["entry"] = "loop"
      BY <1>0, <2>5, Zenon DEF Enqueue, QueueType, AtType
    <3>2. Whole("entry") => Whole("entry")'
      BY <1>0, <2>1, <2>3, <3>1, WholeGrows, Zenon
    <3>3. PumpWhole("entry")'
      BY <1>0, <2>1, <3>2, Zenon DEF PumpWhole
    <3>4. EntryWhole'
      BY <2>1, <2>4, <3>1, <3>2, Zenon DEF EntryWhole, Whole
    <3> QED BY <2>2, <3>3, <3>4, Zenon DEF PumpInv, Ends
  <2>6. CASE at["entry"] = "held" /\ ~HasRoom("entry") /\ at' = [at EXCEPT !["entry"] = "block"] /\ UNCHANGED queue
    <3>1. at'["entry"] = "block" /\ Payload("entry")' = Payload("entry") /\ Count("entry")' = Count("entry")
      BY <1>0, <2>1, <2>6, Zenon DEF AtType, Payload, Count, Dispatched, FirstPayload
    <3>2. PumpWhole("entry")'
      BY <1>0, <2>1, <3>1, WholeKept, Zenon
    <3>3. Len(Payload("entry")) >= plan.queue
      <4>1. got["entry"] \in Seq(Frames) /\ queue["entry"] \in Seq(Frames) /\ Len(Payload("entry")) = Len(got["entry"]) + Len(queue["entry"])
        BY <1>0, PayloadFacts, Zenon
      <4>2. Len(got["entry"]) \in Nat /\ Len(queue["entry"]) \in Nat /\ ~(Len(queue["entry"]) < plan.queue)
        BY <2>3, <2>6, <4>1 DEF HasRoom
      <4>3. plan.queue \in Nat /\ Len(queue["entry"]) >= plan.queue
        BY <2>3, <4>2
      <4>4. \A a, b, q \in Nat : b >= q => a + b >= q
        OBVIOUS
      <4>5. Len(got["entry"]) + Len(queue["entry"]) >= plan.queue
        BY <4>2, <4>3, <4>4, Zenon
      <4> QED BY <4>1, <4>5, Zenon
    <3>4. Whole("entry") => Whole("entry")'
      BY <3>1, Zenon DEF Whole, Contiguous, FirstPayload
    <3>5. EntryWhole'
      BY <2>1, <2>4, <3>1, <3>3, <3>4, Zenon DEF EntryWhole, Whole
    <3> QED BY <2>2, <3>2, <3>5, Zenon DEF PumpInv, Ends
  <2>7. CASE at["entry"] = "block" /\ done["entry"] /\ at' = [at EXCEPT !["entry"] = "loop"] /\ UNCHANGED queue
    <3>1. at'["entry"] = "loop" /\ Payload("entry")' = Payload("entry")
      BY <1>0, <2>1, <2>7, Zenon DEF AtType, Payload
    <3>2. PumpWhole("entry")'
      BY <2>1, <2>7, Zenon DEF PumpWhole
    <3>3. ASSUME plan.queue + 2 >= plan.down PROVE read["entry"] >= plan.down
      <4>1. Whole("entry") /\ Len(Payload("entry")) >= plan.queue
        BY <1>0, <2>1, <2>7, <3>3, Zenon DEF EntryWhole
      <4>2. Len(Payload("entry")) = Count("entry") /\ Dispatched("entry") = read["entry"] - 1
        BY <4>1, <2>1, Zenon DEF Whole, Dispatched
      <4>3. Len(Payload("entry")) = read["entry"] - 2
        BY <2>3, <4>2 DEF Count
      <4> QED BY <2>3, <3>3, <4>1, <4>3
    <3>4. Contiguous("entry")' <=> Contiguous("entry")
      BY <3>1, Zenon DEF Contiguous, FirstPayload
    <3>5. EntryWhole'
      BY <1>0, <2>1, <2>3, <3>1, <3>3, <3>4, Zenon DEF EntryWhole
    <3> QED BY <2>2, <3>2, <3>5, Zenon DEF PumpInv, Ends
  <2> QED BY <1>26, <2>5, <2>6, <2>7, Zenon DEF DeliverToQueue
<1>27. CASE DispatchData
  <2>1. /\ UNCHANGED <<plan, got, read, done, bound>> /\ at["dialer"] = "held" /\ at'["dialer"] = "loop"
        /\ at'["entry"] = at["entry"] /\ queue'["entry"] = queue["entry"] /\ read["dialer"] > 3
    BY <1>0, <1>27, Zenon DEF DispatchData, Enqueue, AtType, QueueType, Connect
  <2>2. Payload("entry")' = Payload("entry") /\ Count("entry")' = Count("entry")
    BY <2>1, Zenon DEF Payload, Count, Dispatched, FirstPayload
  <2>3. PumpWhole("entry")'
    BY <1>0, <2>1, <2>2, WholeKept, Zenon
  <2>4. EntryWhole'
    BY <1>0, <2>1, <2>2, EntryKept, Zenon
  <2>5. PumpWhole("dialer")'
    <3>1. CASE done["dialer"] \/ ~bound["dialer"]
      BY <2>1, <3>1, Zenon DEF PumpWhole
    <3>2. CASE Enqueue("dialer")
      <4>1. queue'["dialer"] = Append(queue["dialer"], read["dialer"])
        BY <1>0, <3>2, Zenon DEF Enqueue, QueueType
      <4>2. read["dialer"] >= FirstPayload("dialer")
        BY <1>0, <2>1 DEF FirstPayload, Connect, FrameType
      <4>3. Whole("dialer") => Whole("dialer")'
        BY <1>0, <2>1, <4>1, <4>2, WholeGrows, Zenon
      <4> QED BY <1>0, <2>1, <4>3, Zenon DEF PumpWhole
    <3> QED BY <1>27, <3>1, <3>2, Zenon DEF DispatchData
  <2> QED BY <2>3, <2>4, <2>5, Zenon DEF PumpInv, Ends
<1>28. ConnectGivesUp => Quiet
  BY Zenon DEF ConnectGivesUp, Quiet
<1>29. ASSUME NEW o \in {"dialled", "failed", "blocked"}, DispatchConnect(o) PROVE PumpInv'
  <2>1. /\ UNCHANGED <<plan, got, queue, read, done>> /\ at["dialer"] = "held" /\ at'["dialer"] \in {"refuse", "loop"}
        /\ at'["entry"] = at["entry"] /\ bound'["entry"] = bound["entry"] /\ read["dialer"] = 3
    BY <1>0, <1>29, Zenon DEF DispatchConnect, AtType, ChannelType, Connect
  <2>2. Payload("entry")' = Payload("entry") /\ Count("entry")' = Count("entry")
    BY <2>1, Zenon DEF Payload, Count, Dispatched, FirstPayload
  <2>3. PumpWhole("entry")'
    BY <1>0, <2>1, <2>2, WholeKept, Zenon
  <2>4. EntryWhole'
    BY <1>0, <2>1, <2>2, EntryKept, Zenon
  <2>5. got["dialer"] = <<>> /\ queue["dialer"] = <<>>
    BY <1>0, <2>1 DEF DialerInv
  <2>6. Payload("dialer")' = <<>> /\ Count("dialer")' = 0
    BY <2>1, <2>5 DEF Payload, Count, Dispatched, FirstPayload, Connect
  <2>7. PumpWhole("dialer")'
    BY <2>6 DEF PumpWhole, Whole, Contiguous
  <2> QED BY <2>3, <2>4, <2>7, Zenon DEF PumpInv, Ends
<1>30. UNCHANGED vars => Quiet
  BY Zenon DEF vars, Quiet
<1> QED
  BY <1>q, <1>1, <1>2, <1>3, <1>4, <1>5, <1>6, <1>7, <1>8, <1>9, <1>10, <1>11, <1>12, <1>13, <1>14, <1>15, <1>16, <1>17, <1>18, <1>19, <1>20, <1>21, <1>22, <1>23, <1>24, <1>25, <1>26, <1>27, <1>28, <1>29, <1>30, Zenon DEF Next, LinkStep, EndStep

-----------------------------------------------------------------------------
(* The theorems.                                                           *)

\* The inductive invariant holds at first.
LEMMA FlightInit == Init => \A e \in Ends : FlightInv(e) /\ ChainInv(e)
<1> SUFFICES ASSUME Init, NEW e \in Ends PROVE FlightInv(e) /\ ChainInv(e)
  BY Zenon
<1>1. /\ Peer(e) \in Ends /\ read[e] = 0 /\ inbound[e] = <<>> /\ sent[Peer(e)] = 0 /\ ~writing[Peer(e)]
      /\ \A l \in Links : hand[e][l].n = 0 /\ wire[e][l] = <<>>
  BY Zenon DEF Init, Ends, Peer, Idle
<1>2. Top(e) = 0 /\ \A l \in Links, n \in Frames : ~Flies(e, l, n)
  BY <1>1 DEF Top, Flies, Has, Frames
<1>3. Orderly(e)
  <2>1. DOMAIN <<>> = {}
    OBVIOUS
  <2>2. Ascends(0, <<>>)
    BY <2>1, Zenon DEF Ascends
  <2> QED BY <1>1, <2>2, Zenon DEF Orderly
<1>4. DOMAIN inbound[e] = {} /\ read[e] <= sent[Peer(e)] /\ Used(Peer(e), Top(e))
  BY <1>1, <1>2 DEF Used
<1>5. \A n \in Frames : ~(n <= sent[Peer(e)])
  BY <1>1 DEF Frames
<1>6. FlightInv(e)
  BY <1>2, <1>3, <1>4, Zenon DEF FlightInv
<1>7. ChainInv(e)
  BY <1>2, <1>4, <1>5, Zenon DEF ChainInv
<1> QED BY <1>6, <1>7, Zenon

\* The invariant of all behaviours.
THEOREM Inductive == Spec => []IInv
<1>1. Init => IInv
  BY TypeInit, StageInit, FlightInit, PumpInit, Zenon DEF IInv, NonceChain, Init
<1>2. IInv /\ [Next]_vars => IInv'
  BY TypeNext, StageNext, FlightNext, NonceNext, PumpNext, Zenon DEF IInv
<1> QED BY <1>1, <1>2, PTL DEF Spec

\* The types of the variables, the buffers' capacities among them.
THEOREM TypeCorrect == Spec => []TypeOK
<1>1. IInv => TypeOK
  BY DEF IInv, TypeInv, TypeOK, LinkType, WireType, HandType, Hands, FlagType, AtType, CauseType, FrameType,
         InboundType, ChannelType, QueueType, Frames
<1> QED BY <1>1, Inductive, PTL

\* A frame that cannot be decrypted means that the links lost one or let it
\* overtake another: for any number of links, frames, breaks and buffers.
THEOREM NonceChainHolds == Spec => []NonceChain
<1>1. IInv => NonceChain
  BY Zenon DEF IInv
<1> QED BY <1>1, Inductive, PTL

\* What the pumps take has no hole.
THEOREM PumpInOrderHolds == Spec => []PumpInOrder
<1>1. IInv => PumpInOrder
  BY Zenon DEF IInv, PumpInv, PumpWhole, EntryWhole, Whole, Count, PumpInOrder, InOrderWhileOpen, EntryGapFree
<1> QED BY <1>1, Inductive, PTL

\* A dispatcher gives a frame up only while the relay has no session for it
\* (awaitChannel).
THEOREM ClaimNotMissedHolds == Spec => ClaimNotMissed
<1> DEFINE Missed == \A l \in Links : hand["dialer"][l].at = "wait" /\ hand'["dialer"][l] = Idle => ~registered["dialer"]
<1>1. TypeInv /\ [Next]_vars => [Missed]_vars
  <2> SUFFICES ASSUME TypeInv, Next, NEW k \in Links, hand["dialer"][k].at = "wait", hand'["dialer"][k] = Idle
               PROVE  ~registered["dialer"]
    BY Zenon
  <2>0. HandType /\ hand["dialer"][k] # Idle
    BY DEF TypeInv, Idle
  <2> USE DEF transport, claim
  <2>1. CASE hand' = hand
    BY <2>0, <2>1, Zenon
  <2>2. ASSUME NEW l \in Links, Subscribe(l) PROVE FALSE
    BY <2>0, <2>2, Zenon DEF Subscribe, HandType, Hands, Idle, Ends
  <2>3. ASSUME NEW l \in Links, Claimed(l) PROVE FALSE
    BY <2>0, <2>3, Zenon DEF Claimed, HandType, Hands, Idle, Ends
  <2>4. ASSUME NEW l \in Links, ClaimTimeout(l) PROVE ~registered["dialer"]
    BY <2>0, <2>4 DEF ClaimTimeout, HandType, Hands, Idle, Ends
  <2>5. ASSUME NEW l \in Links, NEW e \in Ends, TakeSealed(e, l) \/ Deliver(e, l) PROVE FALSE
    <3>1. hand[e][l].at # "wait"
      BY <2>5 DEF TakeSealed, NextIs, Deliver, Idle
    <3>2. CASE TakeSealed(e, l)
      BY <2>0, <3>1, <3>2 DEF TakeSealed, HandType
    <3>3. CASE Deliver(e, l)
      BY <2>0, <3>1, <3>3 DEF Deliver, HandType
    <3> QED BY <2>5, <3>2, <3>3, Zenon
  <2>6. ASSUME NEW l \in Links,
               \/ Reconnect(l) \/ Resume(l) \/ Break(l) \/ OpenChannel(l) \/ AcceptChannel(l)
               \/ \E e \in Ends : WriteFrame(e, l) \/ TakeDisconnect(e, l)
        PROVE  hand' = hand
    BY <2>6, Zenon DEF Reconnect, Resume, Break, OpenChannel, AcceptChannel, WriteFrame, FrameWritten, TakeDisconnect
  <2>7. ASSUME NEW e \in Ends, EndStep(e) PROVE hand' = hand
    BY <2>7, Zenon DEF EndStep, Seal, WriteFails, AwaitFrame, AwaitFails, Park, Receive, ReceiveDone, PumpTake, LocalEnd, Cleanup
  <2>8. CASE OpenGraceExpires \/ OpenReady \/ OpenFails \/ DeliverToQueue \/ DispatchData \/ ConnectGivesUp
             \/ \E o \in {"dialled", "failed", "blocked"} : DispatchConnect(o)
    BY <2>1, <2>8, Zenon DEF OpenGraceExpires, OpenReady, OpenFails, DeliverToQueue, DispatchData, ConnectGivesUp, DispatchConnect
  <2> QED BY <2>1, <2>2, <2>3, <2>4, <2>5, <2>6, <2>7, <2>8, Zenon DEF Next, LinkStep
<1>2. IInv => TypeInv
  BY Zenon DEF IInv
<1> QED BY <1>1, <1>2, Inductive, PTL DEF Spec, ClaimNotMissed, Missed

=============================================================================
