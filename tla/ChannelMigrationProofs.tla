----------------------- MODULE ChannelMigrationProofs -----------------------
(***************************************************************************)
(* The invariant of ChannelMigration and what follows from it, for any     *)
(* number of streams, link losses, payloads and any queue capacity.        *)
(***************************************************************************)
EXTENDS ChannelMigration, SequenceTheorems, TLAPS

WireType == [Transports -> [Peers -> Seq(Msg)]]

\* Updating a function, or a function of functions, within its type.
LEMMA Update ==
  ASSUME NEW D, NEW S, NEW f \in [D -> S], NEW d \in D, NEW e \in S
  PROVE  [f EXCEPT ![d] = e] \in [D -> S]
BY Zenon

\* Updating a function of functions within its type.
LEMMA Update2 ==
  ASSUME NEW C, NEW D, NEW S, NEW f \in [C -> [D -> S]],
         NEW c \in C, NEW d \in D, NEW e \in S
  PROVE  [f EXCEPT ![c][d] = e] \in [C -> [D -> S]]
BY Zenon

\* What the two ways of changing the network do to its type.
LEMMA PushType ==
  ASSUME NEW w \in WireType, NEW t \in Transports, NEW p \in Peers,
         NEW msgs \in Seq(Msg)
  PROVE  Push(w, t, p, msgs) \in WireType
<1>1. w[t][p] \o msgs \in Seq(Msg)
  BY ConcatProperties, Zenon DEF WireType
<1> QED  BY <1>1, Zenon DEF Push, WireType

\* Taking the head off a transport: the network keeps its type, the head is a message.
LEMMA PopType ==
  ASSUME TypeOK, NEW t \in Transports, NEW p \in Peers, wire[t][p] # <<>>
  PROVE  /\ Pop(t, p) \in WireType
         /\ Head(wire[t][p]) \in Msg
<1>1. wire[t][p] \in Seq(Msg)
  BY Zenon DEF TypeOK
<1>2. Head(wire[t][p]) \in Msg /\ Tail(wire[t][p]) \in Seq(Msg)
  BY <1>1, HeadTailProperties, Zenon
<1> QED  BY <1>2, Zenon DEF Pop, TypeOK, WireType

\* Losing what a transport carried keeps the type of the network.
LEMMA ClearType ==
  ASSUME wire \in WireType, NEW t \in Transports
  PROVE  Clear(t) \in WireType
<1> DEFINE none == [p \in Peers |-> <<>>]
<1>1. none \in [Peers -> Seq(Msg)]
  OBVIOUS
<1> HIDE DEF none
<1>2. [wire EXCEPT ![t] = none] \in WireType
  BY <1>1, Zenon DEF WireType
<1> QED  BY <1>2, Zenon DEF none, Clear

\* The messages the channel sends are messages.
LEMMA MsgType ==
  /\ Migrate \in Msg /\ Resume \in Msg
  /\ \A s \in Nat : DataAck(s) \in Msg
  /\ \A s, v \in Nat : Data(s, v) \in Msg
BY Zenon DEF Msg, Migrate, Resume, DataAck, Data

\* There are two peers, and the other of the other is the first.
LEMMA OtherPeer == \A p \in Peers : Other(p) \in Peers /\ Other(p) # p /\ Other(Other(p)) = p
BY Zenon DEF Peers, Other, Dialer, Acceptor

\* The invariant holds of a channel just connected, over either path.
LEMMA InitInv == Init => IInv
<1> SUFFICES ASSUME Init PROVE IInv
  BY Zenon
<1> USE MigrationAssumption
<1>1. TypeOK
  BY DEF Init, TypeOK, Transports, Streams, Relay, Replayers, Peers, Dialer, Acceptor
<1>2. AssignedInv
  BY Zenon DEF Init, AssignedInv
<1>3. AcceptedInv
  BY DEF Init, AcceptedInv, Accepted
<1>4. OrderInv
  BY DEF Init, OrderInv, Ordered
<1>5. AckInv
  BY OtherPeer DEF Init, AckInv, AcksUpTo
<1>6. LockInv
  BY DEF Init, LockInv, AcksUpTo
<1> QED  BY <1>1, <1>2, <1>3, <1>4, <1>5, <1>6, Zenon DEF IInv
-----------------------------------------------------------------------------
(* Type correctness.                                                       *)

LockType == [Peers -> Seq(Msg)]
ReplayType == [Peers -> [Replayers -> SUBSET Nat]]

\* Acknowledging (with its fallback) keeps the types of what it writes.
LEMMA AckType ==
  ASSUME TypeOK, NEW p \in Peers, NEW s \in Nat, NEW w \in WireType,
         WriteAck(p, s, w)
  PROVE  /\ writer' \in [Peers -> Transports]
         /\ replay' \in ReplayType
         /\ lock' \in LockType
         /\ wire' \in WireType
<1>1. writer \in [Peers -> Transports] /\ writer[p] \in Transports
  BY Zenon DEF TypeOK
<1>2. Relay \in Transports /\ Holder \in Replayers
  BY MigrationAssumption DEF Relay, Transports, Holder, Replayers
<1>3. <<DataAck(s)>> \in Seq(Msg) /\ <<Migrate>> \in Seq(Msg)
  BY MsgType
<1>4. /\ Push(w, writer[p], Other(p), <<DataAck(s)>>) \in WireType
      /\ Push(w, Relay, Other(p), <<Migrate>>) \in WireType
  BY <1>1, <1>2, <1>3, PushType, OtherPeer, Zenon
<1>5. wire' \in WireType
  BY <1>4, Zenon DEF WriteAck
<1>6. writer' \in [Peers -> Transports]
  <2>1. writer' = writer \/ writer' = [writer EXCEPT ![p] = Relay]
    BY Zenon DEF WriteAck
  <2> QED  BY <2>1, <1>1, <1>2, Zenon
<1>7. replay' \in ReplayType
  <2>1. replay' = replay \/ replay' = [replay EXCEPT ![p][Holder] = pending[p]]
    BY Zenon DEF WriteAck
  <2>2. replay \in [Peers -> [Replayers -> SUBSET Nat]] /\ pending[p] \in SUBSET Nat
    BY Zenon DEF TypeOK
  <2>3. CASE replay' = [replay EXCEPT ![p][Holder] = pending[p]]
    BY <2>2, <2>3, <1>2, Update2, Zenon DEF ReplayType
  <2> QED  BY <2>1, <2>2, <2>3, Zenon DEF ReplayType
<1>8. lock' \in LockType
  <2>1. lock' = lock \/ lock' = [lock EXCEPT ![p] = <<DataAck(s)>>]
    BY Zenon DEF WriteAck
  <2>2. lock \in LockType
    BY Zenon DEF TypeOK, LockType
  <2> QED  BY <2>1, <2>2, <1>3, Update, Zenon DEF LockType
<1> QED  BY <1>5, <1>6, <1>7, <1>8, Zenon

\* Writing data, with numbering and fallback, keeps the types.
LEMMA WriteDataType ==
  ASSUME TypeOK, NEW p \in Peers, WriteData(p)
  PROVE  TypeOK'
<1> DEFINE v == IF retrying[p] THEN written[p] ELSE written[p] + 1
           s == IF migration[p] THEN sequence[p] + 1 ELSE 0
<1>a. Relay \in Transports /\ Holder \in Replayers
  BY MigrationAssumption DEF Relay, Transports, Holder, Replayers
<1>b. v \in Nat /\ s \in Nat
  <2>1. written[p] \in Nat /\ sequence[p] \in Nat
    BY Zenon DEF TypeOK
  <2> QED  BY <2>1
<1>c. /\ <<Data(s, v)>> \in Seq(Msg)
      /\ <<Migrate>> \in Seq(Msg)
      /\ RelayData(p, Data(s, v)) \in Seq(Msg)
  BY <1>b, MsgType DEF RelayData
<1>1. wire' \in WireType
  <2>1. wire \in WireType /\ writer[p] \in Transports /\ Other(p) \in Peers
    BY OtherPeer, Zenon DEF TypeOK, WireType
  <2>2. /\ Push(wire, writer[p], Other(p), <<Data(s, v)>>) \in WireType
        /\ Push(wire, writer[p], Other(p), RelayData(p, Data(s, v))) \in WireType
        /\ Push(wire, Relay, Other(p), RelayData(p, Data(s, v))) \in WireType
        /\ Push(wire, Relay, Other(p), <<Migrate>>) \in WireType
    <3> HIDE DEF v, s
    <3> QED  BY <1>a, <1>c, <2>1, PushType, Zenon
  <2> QED  BY <2>1, <2>2, Zenon DEF WriteData
<1>2. writer' \in [Peers -> Transports]
  <2>1. writer' = writer \/ writer' = [writer EXCEPT ![p] = Relay]
    BY Zenon DEF WriteData
  <2>2. writer \in [Peers -> Transports]
    BY Zenon DEF TypeOK
  <2> QED  BY <2>1, <2>2, <1>a, Zenon
<1>3. written' \in [Peers -> Nat]
  <2>1. written' = [written EXCEPT ![p] = v]
    BY Zenon DEF WriteData
  <2>2. written \in [Peers -> Nat]
    BY Zenon DEF TypeOK
  <2> HIDE DEF v
  <2> QED  BY <2>1, <2>2, <1>b, Zenon
<1>4. retrying' \in [Peers -> BOOLEAN]
  <2>1. \E b \in BOOLEAN : retrying' = [retrying EXCEPT ![p] = b]
    BY Zenon DEF WriteData
  <2>2. retrying \in [Peers -> BOOLEAN]
    BY Zenon DEF TypeOK
  <2> QED  BY <2>1, <2>2, Zenon
<1>5. lock' \in LockType
  <2>1. lock' = lock \/ lock' = [lock EXCEPT ![p] = <<Data(s, v)>>]
    BY Zenon DEF WriteData
  <2>2. lock \in LockType
    BY Zenon DEF TypeOK, LockType
  <2> HIDE DEF s, v
  <2> QED  BY <2>1, <2>2, <1>c, Update, Zenon DEF LockType
<1>6. sequence' \in [Peers -> Nat]
  <2>1. sequence' = sequence \/ sequence' = [sequence EXCEPT ![p] = s]
    BY Zenon DEF WriteData
  <2>2. sequence \in [Peers -> Nat]
    BY Zenon DEF TypeOK
  <2> HIDE DEF s
  <2> QED  BY <2>1, <2>2, <1>b, Zenon
<1>7. stamp' \in [Peers -> Seq(Nat)]
  <2>1. stamp' = stamp \/ stamp' = [stamp EXCEPT ![p] = Append(stamp[p], v)]
    BY Zenon DEF WriteData
  <2>2. stamp \in [Peers -> Seq(Nat)]
    BY Zenon DEF TypeOK
  <2> HIDE DEF v
  <2>3. Append(stamp[p], v) \in Seq(Nat)
    BY <2>2, <1>b
  <2> QED  BY <2>1, <2>2, <2>3, Update, Zenon
<1>8. pending' \in [Peers -> SUBSET Nat]
  <2>1. pending' = pending \/ pending' = [pending EXCEPT ![p] = pending[p] \cup {s}]
    BY Zenon DEF WriteData
  <2>2. pending \in [Peers -> SUBSET Nat]
    BY Zenon DEF TypeOK
  <2> HIDE DEF s
  <2> QED  BY <2>1, <2>2, <1>b, Zenon
<1>9. replay' \in ReplayType
  <2>1. replay' = replay \/ replay' = [replay EXCEPT ![p][Holder] = pending'[p]]
    BY Zenon DEF WriteData
  <2>2. replay \in [Peers -> [Replayers -> SUBSET Nat]] /\ pending'[p] \in SUBSET Nat
    BY <1>8, Zenon DEF TypeOK
  <2>3. CASE replay' = [replay EXCEPT ![p][Holder] = pending'[p]]
    BY <2>2, <2>3, <1>a, Update2, Zenon DEF ReplayType
  <2> QED  BY <2>1, <2>2, <2>3, Zenon DEF ReplayType
<1> QED  BY <1>1, <1>2, <1>3, <1>4, <1>5, <1>6, <1>7, <1>8, <1>9, Zenon
         DEF WriteData, TypeOK, WireType, LockType, ReplayType, net

\* A replayed number was assigned, so its payload exists: replaying keeps the types.
LEMMA ReplayPendingType ==
  ASSUME TypeOK, AssignedInv, NEW p \in Peers, NEW t \in Replayers, ReplayPending(p, t)
  PROVE  TypeOK'
<1> DEFINE dest == IF t = Agent THEN opened ELSE Relay
<1>a. replay \in [Peers -> [Replayers -> SUBSET Nat]]
  BY Zenon DEF TypeOK
<1>1. wire' \in WireType
  <2>1. wire \in WireType /\ stamp[p] \in Seq(Nat) /\ dest \in Transports
    <3>1. wire \in WireType /\ stamp[p] \in Seq(Nat) /\ opened \in Transports
      BY Zenon DEF TypeOK, WireType
    <3>2. Relay \in Transports
      BY MigrationAssumption DEF Relay, Transports
    <3> QED  BY <3>1, <3>2, Zenon
  <2>2. ASSUME NEW s \in replay[p][t]
        PROVE  Push(wire, dest, Other(p), <<Data(s, stamp[p][s])>>) \in WireType
    <3>1. s \in 1 .. Len(stamp[p])
      BY Zenon DEF AssignedInv
    <3>2. s \in Nat /\ stamp[p][s] \in Nat
      BY <3>1, <2>1, ElementOfSeq
    <3>3. <<Data(s, stamp[p][s])>> \in Seq(Msg)
      BY <3>2, MsgType
    <3> HIDE DEF dest
    <3> QED  BY <3>3, <2>1, PushType, OtherPeer, Zenon
  <2> QED  BY <2>1, <2>2, Zenon DEF ReplayPending
<1>2. replay' \in ReplayType
  <2>1. PICK s \in replay[p][t] : \/ replay' = [replay EXCEPT ![p][t] = @ \ {s}]
                                  \/ replay' = [replay EXCEPT ![p][t] = {}]
    BY Zenon DEF ReplayPending
  <2>2. CASE replay' = [replay EXCEPT ![p][t] = @ \ {s}]
    BY <1>a, <2>2, Update2 DEF ReplayType
  <2>3. CASE replay' = [replay EXCEPT ![p][t] = {}]
    BY <1>a, <2>3, Update2, Zenon DEF ReplayType
  <2> QED  BY <2>1, <2>2, <2>3, Zenon
<1>3. retrying' \in [Peers -> BOOLEAN]
  <2>1. retrying' = retrying \/ \E b \in BOOLEAN : retrying' = [retrying EXCEPT ![p] = b]
    BY Zenon DEF ReplayPending, TypeOK
  <2>2. retrying \in [Peers -> BOOLEAN]
    BY Zenon DEF TypeOK
  <2> QED  BY <2>1, <2>2, Zenon
<1>4. lock' \in LockType
  <2>1. lock \in LockType
    BY Zenon DEF TypeOK, LockType
  <2>2. \/ lock' = lock
        \/ lock' = [lock EXCEPT ![p] = <<>>]
        \/ lock' = [lock EXCEPT ![p] = lock[p]]
    BY Zenon DEF ReplayPending
  <2>3. <<>> \in Seq(Msg) /\ lock[p] \in Seq(Msg)
    BY <2>1 DEF LockType
  <2> QED  BY <2>1, <2>2, <2>3, Update, Zenon DEF LockType
<1> QED  BY <1>1, <1>2, <1>3, <1>4, Zenon
         DEF ReplayPending, TypeOK, WireType, LockType, ReplayType, chan, net

\* The first half of deliverDataMessage keeps the types.
LEMMA ReceiveDataType ==
  ASSUME TypeOK, NEW p \in Peers, NEW t \in Transports, ReceiveData(p, t)
  PROVE  TypeOK'
<1> DEFINE m == Head(wire[t][p])
<1>a. m \in Msg /\ m.seq \in Nat /\ Pop(t, p) \in WireType
  BY PopType, Zenon DEF ReceiveData, Reading, Msg
<1> HIDE DEF m
<1>1. /\ writer' \in [Peers -> Transports]
      /\ replay' \in ReplayType
      /\ lock' \in LockType
      /\ wire' \in WireType
  <2>1. CASE WriteAck(p, m.seq, Pop(t, p))
    BY <2>1, <1>a, AckType, Zenon
  <2>2. CASE wire' = Pop(t, p) /\ UNCHANGED <<writer, replay, lock>>
    BY <2>2, <1>a, Zenon DEF TypeOK, LockType, ReplayType
  <2> QED  BY <2>1, <2>2, Zenon DEF ReceiveData, m
<1>2. received' \in [Peers -> Nat]
  <2>1. \/ received' = received
        \/ received' = [received EXCEPT ![p] = received[p]]
        \/ received' = [received EXCEPT ![p] = m.seq]
    BY Zenon DEF ReceiveData, m
  <2>2. received \in [Peers -> Nat]
    BY Zenon DEF TypeOK
  <2> QED  BY <2>1, <2>2, <1>a, Zenon
<1>3. raced' \in [Peers -> BOOLEAN]
  <2>1. raced' = [raced EXCEPT ![p] = TRUE] \/ raced' = [raced EXCEPT ![p] = raced[p]]
    BY Zenon DEF ReceiveData, OthersHold, TypeOK
  <2>2. raced \in [Peers -> BOOLEAN]
    BY Zenon DEF TypeOK
  <2> QED  BY <2>1, <2>2, Zenon
<1>4. held' \in [Peers -> [Transports -> Seq(Msg)]]
  <2>1. held' = held \/ held' = [held EXCEPT ![p][t] = <<m>>]
    BY Zenon DEF ReceiveData, m
  <2>2. held \in [Peers -> [Transports -> Seq(Msg)]] /\ <<m>> \in Seq(Msg)
    BY <1>a DEF TypeOK
  <2>3. CASE held' = [held EXCEPT ![p][t] = <<m>>]
    BY <2>2, <2>3, Update2, Zenon
  <2> QED  BY <2>1, <2>2, <2>3, Zenon
<1> QED  BY <1>1, <1>2, <1>3, <1>4, Zenon
         DEF ReceiveData, TypeOK, WireType, LockType, ReplayType, local, net

\* Queueing, or giving the number back to a counter that is not zero, keeps the types.
LEMMA EnqueueType ==
  ASSUME TypeOK, NEW p \in Peers, NEW t \in Transports, Enqueue(p, t)
  PROVE  TypeOK'
<1> DEFINE m == Head(held[p][t])
<1>a. m \in Msg /\ m.seq \in Nat
  <2>1. held[p][t] \in Seq(Msg) /\ held[p][t] # <<>>
    BY DEF Enqueue, TypeOK
  <2>2. m \in Msg
    BY <2>1
  <2> QED  BY <2>2, Zenon DEF Msg
<1> HIDE DEF m
<1>1. held' \in [Peers -> [Transports -> Seq(Msg)]]
  <2>1. held' = [held EXCEPT ![p][t] = <<>>]
    BY Zenon DEF Enqueue
  <2>2. held \in [Peers -> [Transports -> Seq(Msg)]] /\ <<>> \in Seq(Msg)
    BY DEF TypeOK
  <2> QED  BY <2>1, <2>2, Update2, Zenon
<1>2. received' \in [Peers -> Nat]
  <2>1. \/ received' = received
        \/ m.seq # 0 /\ received' = [received EXCEPT ![p] = m.seq - 1]
        \/ received' = [received EXCEPT ![p] = received[p]]
    BY Zenon DEF Enqueue, m
  <2>2. received \in [Peers -> Nat]
    BY Zenon DEF TypeOK
  <2> QED  BY <2>1, <2>2, <1>a
<1>3. queue' \in [Peers -> Seq(Msg)]
  <2>1. queue' = queue \/ queue' = [queue EXCEPT ![p] = Append(queue[p], m)]
    BY Zenon DEF Enqueue, m
  <2>2. queue \in [Peers -> Seq(Msg)]
    BY Zenon DEF TypeOK
  <2>3. Append(queue[p], m) \in Seq(Msg)
    BY <2>2, <1>a
  <2> QED  BY <2>1, <2>2, <2>3, Update, Zenon
<1>4. order' \in [Peers -> Seq(Nat)]
  <2>1. order' = order \/ order' = [order EXCEPT ![p] = Append(order[p], m.seq)]
    BY Zenon DEF Enqueue, m
  <2>2. order \in [Peers -> Seq(Nat)]
    BY Zenon DEF TypeOK
  <2>3. Append(order[p], m.seq) \in Seq(Nat)
    BY <2>2, <1>a
  <2> QED  BY <2>1, <2>2, <2>3, Update, Zenon
<1> QED  BY <1>1, <1>2, <1>3, <1>4, Zenon DEF Enqueue, TypeOK, net

\* Writing to the local connection and acknowledging keeps the types.
LEMMA LocalWriteType ==
  ASSUME TypeOK, NEW p \in Peers, LocalWrite(p)
  PROVE  TypeOK'
<1> DEFINE m == Head(queue[p])
<1>a. m \in Msg /\ m.seq \in Nat /\ m.val \in Nat /\ Tail(queue[p]) \in Seq(Msg)
  <2>1. queue[p] \in Seq(Msg) /\ queue[p] # <<>>
    BY Zenon DEF LocalWrite, TypeOK
  <2>2. m \in Msg /\ Tail(queue[p]) \in Seq(Msg)
    BY <2>1
  <2> QED  BY <2>2, Zenon DEF Msg
<1> HIDE DEF m
<1>1. /\ writer' \in [Peers -> Transports]
      /\ replay' \in ReplayType
      /\ lock' \in LockType
      /\ wire' \in WireType
  <2>1. CASE WriteAck(p, m.seq, wire)
    <3>1. wire \in WireType
      BY Zenon DEF TypeOK, WireType
    <3> QED  BY <2>1, <3>1, <1>a, AckType, Zenon
  <2>2. CASE UNCHANGED <<writer, replay, lock, wire>>
    BY <2>2, Zenon DEF TypeOK, LockType, ReplayType, WireType
  <2> QED  BY <2>1, <2>2, Zenon DEF LocalWrite, m
<1>2. queue' \in [Peers -> Seq(Msg)]
  <2>1. queue' = [queue EXCEPT ![p] = Tail(queue[p])]
    BY Zenon DEF LocalWrite
  <2>2. queue \in [Peers -> Seq(Msg)]
    BY Zenon DEF TypeOK
  <2> QED  BY <2>1, <2>2, <1>a, Update, Zenon
<1>3. out' \in [Peers -> Seq(Nat)]
  <2>1. out' = [out EXCEPT ![p] = Append(out[p], m.val)]
    BY Zenon DEF LocalWrite, m
  <2>2. out \in [Peers -> Seq(Nat)]
    BY Zenon DEF TypeOK
  <2>3. Append(out[p], m.val) \in Seq(Nat)
    BY <2>2, <1>a
  <2> QED  BY <2>1, <2>2, <2>3, Update, Zenon
<1> QED  BY <1>1, <1>2, <1>3, Zenon
         DEF LocalWrite, TypeOK, WireType, LockType, ReplayType, net

\* The end of a write after its replay keeps the types.
LEMMA FinishWriteType ==
  ASSUME TypeOK, NEW p \in Peers, FinishWrite(p)
  PROVE  TypeOK'
<1>1. lock \in LockType /\ lock[p] \in Seq(Msg) /\ <<>> \in Seq(Msg)
  BY DEF TypeOK, LockType
<1>2. lock' \in LockType
  BY <1>1, Update, Zenon DEF FinishWrite, LockType
<1>3. wire \in WireType /\ writer[p] \in Transports /\ Other(p) \in Peers
  BY OtherPeer, Zenon DEF TypeOK, WireType
<1>4. wire' \in WireType
  BY <1>1, <1>3, PushType, Zenon DEF FinishWrite
<1> QED  BY <1>2, <1>4, Zenon DEF FinishWrite, TypeOK, WireType, LockType, chan, local, net

\* Every step of the channel keeps the types.
LEMMA TypeStep ==
  ASSUME TypeOK, AssignedInv, [Next]_vars
  PROVE  TypeOK'
<1>a. /\ Relay \in Transports /\ Streams \subseteq Transports
      /\ Transports \subseteq Replayers /\ Agent \in Replayers
      /\ Dialer \in Peers /\ Acceptor \in Peers
  BY MigrationAssumption
     DEF Relay, Transports, Streams, Agent, Replayers, Peers
<1>b. /\ writer \in [Peers -> Transports]
      /\ pending \in [Peers -> SUBSET Nat]
      /\ replay \in [Peers -> [Replayers -> SUBSET Nat]]
      /\ loops \in [Peers -> SUBSET Streams]
      /\ wire \in WireType
  BY Zenon DEF TypeOK, WireType
<1>c. <<Migrate>> \in Seq(Msg) /\ <<Resume>> \in Seq(Msg)
  BY MsgType
<1>1. ASSUME NEW p \in Peers, NEW t \in Transports, ReceiveAck(p, t)
      PROVE  TypeOK'
  <2>1. wire' \in WireType
    BY <1>1, PopType, Zenon DEF ReceiveAck, Reading
  <2>2. pending' \in [Peers -> SUBSET Nat]
    BY <1>1, <1>b, Zenon DEF ReceiveAck
  <2> QED  BY <1>1, <2>1, <2>2, Zenon DEF ReceiveAck, TypeOK, WireType, local, net
<1>2. ASSUME NEW p \in Peers, NEW t \in Transports, ReceiveMigrate(p, t)
      PROVE  TypeOK'
  <2>1. wire' \in WireType
    BY <1>2, PopType, Zenon DEF ReceiveMigrate, Reading
  <2>2. writer' \in [Peers -> Transports]
    <3>1. writer' = writer \/ writer' = [writer EXCEPT ![p] = Relay]
      BY <1>2, Zenon DEF ReceiveMigrate
    <3> QED  BY <3>1, <1>a, <1>b, Zenon
  <2>3. replay' \in ReplayType
    <3>1. replay' = replay \/ replay' = [replay EXCEPT ![p][t] = pending[p]]
      BY <1>2, Zenon DEF ReceiveMigrate
    <3>2. CASE replay' = [replay EXCEPT ![p][t] = pending[p]]
      BY <3>2, <1>a, <1>b, Update2, Zenon DEF ReplayType
    <3> QED  BY <3>1, <3>2, <1>b, Zenon DEF ReplayType
  <2> QED  BY <1>2, <2>1, <2>2, <2>3, Zenon DEF ReceiveMigrate, TypeOK, WireType, ReplayType, local, net
<1>3. ASSUME NEW p \in Peers, ReceiveResume(p)
      PROVE  TypeOK'
  <2>1. wire' \in WireType
    BY <1>3, <1>a, PopType, Zenon DEF ReceiveResume, Reading
  <2>2. writer' \in [Peers -> Transports]
    BY <1>3, <1>a, <1>b, Zenon DEF ReceiveResume
  <2> QED  BY <1>3, <2>1, <2>2, Zenon DEF ReceiveResume, TypeOK, WireType, local, net
<1>4. ASSUME BreakStream
      PROVE  TypeOK'
  <2>1. opened \in Streams
    BY <1>4, MigrationAssumption DEF BreakStream, TypeOK, Transports, Streams
  <2>3. wire' \in WireType
    BY <1>4, <2>1, <1>a, <1>b, ClearType, Zenon DEF BreakStream
  <2>4. broken' \in SUBSET Streams
    BY <1>4, <2>1, Zenon DEF BreakStream, TypeOK
  <2> QED  BY <1>4, <2>3, <2>4, Zenon DEF BreakStream, TypeOK, WireType, chan, local
<1>5. ASSUME NEW p \in Peers, NEW t \in Streams, ReadLoopFails(p, t)
      PROVE  TypeOK'
  <2>1. wire' \in WireType
    <3>1. Push(wire, Relay, Other(p), <<Migrate>>) \in WireType
      BY <1>a, <1>b, <1>c, PushType, OtherPeer, Zenon
    <3> QED  BY <1>5, <1>b, <3>1, Zenon DEF ReadLoopFails
  <2>2. writer' \in [Peers -> Transports] /\ loops' \in [Peers -> SUBSET Streams]
    BY <1>5, <1>a, <1>b, Zenon DEF ReadLoopFails
  <2>3. replay' \in ReplayType
    <3>1. replay' = replay \/ replay' = [replay EXCEPT ![p][t] = pending[p]]
      BY <1>5, Zenon DEF ReadLoopFails
    <3>2. CASE replay' = [replay EXCEPT ![p][t] = pending[p]]
      BY <3>2, <1>a, <1>b, Update2, Zenon DEF ReplayType
    <3> QED  BY <3>1, <3>2, <1>b, Zenon DEF ReplayType
  <2> QED  BY <1>5, <2>1, <2>2, <2>3, Zenon DEF ReadLoopFails, TypeOK, WireType, ReplayType, local, net
<1>6. ASSUME ResumeDirect
      PROVE  TypeOK'
  <2>1. opened + 1 \in Streams
    BY <1>6, MigrationAssumption DEF ResumeDirect, TypeOK, Transports, Streams
  <2>2. opened' \in Transports /\ migration' \in [Peers -> BOOLEAN]
    BY <1>6, <1>a, <2>1, Zenon DEF ResumeDirect, TypeOK
  <2>3. writer' \in [Peers -> Transports] /\ loops' \in [Peers -> SUBSET Streams]
    BY <1>6, <1>a, <1>b, <2>1, Zenon DEF ResumeDirect
  <2>4. wire' \in WireType
    BY <1>6, <1>a, <1>b, <1>c, <2>1, PushType, Zenon DEF ResumeDirect
  <2>5. replay' \in ReplayType
    <3>1. replay' = [replay EXCEPT ![Dialer][Agent] = pending[Dialer]]
      BY <1>6, Zenon DEF ResumeDirect
    <3> QED  BY <3>1, <1>a, <1>b, Update2, Zenon DEF ReplayType
  <2> QED  BY <1>6, <2>2, <2>3, <2>4, <2>5, Zenon DEF ResumeDirect, TypeOK, WireType, ReplayType, local
<1>7. ASSUME NEW t \in Streams, AcceptResume(t)
      PROVE  TypeOK'
  <2>1. wire' \in WireType
    BY <1>7, <1>a, PopType, Zenon DEF AcceptResume
  <2>2. writer' \in [Peers -> Transports] /\ loops' \in [Peers -> SUBSET Streams]
    BY <1>7, <1>a, <1>b, Zenon DEF AcceptResume
  <2> QED  BY <1>7, <2>1, <2>2, Zenon DEF AcceptResume, TypeOK, WireType, local, net
<1>8. ASSUME DropRelay
      PROVE  TypeOK'
  <2>2. wire' \in WireType
    BY <1>8, <1>a, <1>b, ClearType, Zenon DEF DropRelay
  <2>1. drops \in Nat
    BY Zenon DEF TypeOK
  <2>3. drops' \in Nat
    BY <1>8, <2>1 DEF DropRelay
  <2>4. relayUp' \in BOOLEAN
    BY <1>8, Zenon DEF DropRelay
  <2> QED  BY <1>8, <2>2, <2>3, <2>4, Zenon DEF DropRelay, TypeOK, WireType, chan, local
<1>9. ASSUME ReconnectRelay
      PROVE  TypeOK'
  <2>1. wire' \in WireType
    BY <1>9, <1>a, <1>b, <1>c, PushType, Zenon DEF ReconnectRelay
  <2> QED  BY <1>9, <2>1, Zenon DEF ReconnectRelay, TypeOK, WireType, chan, local
<1>10. CASE UNCHANGED vars
  BY <1>10, Zenon DEF TypeOK, vars
<1> QED
  BY <1>1, <1>2, <1>3, <1>4, <1>5, <1>6, <1>7, <1>8, <1>9, <1>10, WriteDataType,
     ReplayPendingType, ReceiveDataType, EnqueueType, LocalWriteType, FinishWriteType, Zenon
  DEF Next, PeerStep

-----------------------------------------------------------------------------
(* Pending and replayed numbers were assigned.                             *)

\* What every action but WriteData does to the state AssignedInv talks of.
AssignsNothing ==
  /\ UNCHANGED <<sequence, stamp>>
  /\ \A q \in Peers :
       /\ pending'[q] \subseteq pending[q]
       /\ \A u \in Replayers : replay'[q][u] \subseteq replay[q][u] \cup pending[q]

\* Acknowledging replays nothing but what was replayed or pending.
LEMMA AckAssigns ==
  ASSUME TypeOK, NEW p \in Peers, NEW s, NEW w, WriteAck(p, s, w)
  PROVE  \A q \in Peers : \A u \in Replayers :
           replay'[q][u] \subseteq replay[q][u] \cup pending[q]
<1>1. replay' = replay \/ replay' = [replay EXCEPT ![p][Holder] = pending[p]]
  BY Zenon DEF WriteAck
<1>2. replay \in [Peers -> [Replayers -> SUBSET Nat]]
  BY Zenon DEF TypeOK
<1> QED  BY <1>1, <1>2

\* Every step keeps pending and replayed numbers among the assigned ones.
LEMMA AssignedStep ==
  ASSUME TypeOK, AssignedInv, [Next]_vars
  PROVE  AssignedInv'
<1>a. replay \in [Peers -> [Replayers -> SUBSET Nat]]
  BY Zenon DEF TypeOK
<1>b. pending \in [Peers -> SUBSET Nat]
  BY Zenon DEF TypeOK
<1>c. ASSUME AssignsNothing
      PROVE  AssignedInv'
  BY <1>c, Zenon DEF AssignedInv, AssignsNothing
<1>1. ASSUME NEW p \in Peers, WriteData(p)
      PROVE  AssignedInv'
  <2> DEFINE v == IF retrying[p] THEN written[p] ELSE written[p] + 1
  <2>a. sequence \in [Peers -> Nat] /\ stamp \in [Peers -> Seq(Nat)]
    BY Zenon DEF TypeOK
  <2>b. v \in Nat
    <3>1. written[p] \in Nat
      BY Zenon DEF TypeOK
    <3> QED  BY <3>1
  <2>c. \/ replay' = replay
        \/ replay' = [replay EXCEPT ![p][Holder] = pending'[p]]
    BY <1>1, Zenon DEF WriteData
  <2>1. CASE ~migration[p]
    <3>1. UNCHANGED <<sequence, stamp, pending>>
      BY <1>1, <2>1, Zenon DEF WriteData
    <3>2. \A q \in Peers : \A u \in Replayers : replay'[q][u] \subseteq replay[q][u] \cup pending[q]
      BY <3>1, <2>c, <1>a
    <3> QED  BY <3>1, <3>2, <1>c, Zenon DEF AssignsNothing
  <2>2. CASE migration[p]
    <3>1. /\ sequence' = [sequence EXCEPT ![p] = sequence[p] + 1]
          /\ stamp' = [stamp EXCEPT ![p] = Append(stamp[p], v)]
          /\ pending' = [pending EXCEPT ![p] = pending[p] \cup {sequence[p] + 1}]
      BY <1>1, <2>2, Zenon DEF WriteData
    <3> HIDE DEF v
    <3>2. SUFFICES ASSUME NEW q \in Peers
                   PROVE  /\ Len(stamp'[q]) = sequence'[q]
                          /\ pending'[q] \subseteq 1 .. sequence'[q]
                          /\ \A u \in Replayers : replay'[q][u] \subseteq 1 .. sequence'[q]
      BY Zenon DEF AssignedInv
    <3>3. /\ Len(stamp[q]) = sequence[q]
          /\ pending[q] \subseteq 1 .. sequence[q]
          /\ \A u \in Replayers : replay[q][u] \subseteq 1 .. sequence[q]
      BY Zenon DEF AssignedInv
    <3>4. sequence'[q] \in Nat /\ sequence[q] \in Nat /\ sequence[q] <= sequence'[q]
      BY <3>1, <2>a
    <3>5. Len(stamp'[q]) = sequence'[q]
      <4>1. CASE q = p
        <5>1. stamp'[p] = Append(stamp[p], v) /\ stamp[p] \in Seq(Nat)
          BY <3>1, <2>a, Zenon
        <5>2. Len(stamp'[p]) = Len(stamp[p]) + 1
          BY <5>1, <2>b
        <5> QED  BY <5>2, <4>1, <3>1, <3>3, <2>a, Zenon
      <4>2. CASE q # p
        BY <4>2, <3>1, <3>3, <2>a, Zenon
      <4> QED  BY <4>1, <4>2, Zenon
    <3>6. pending'[q] \subseteq 1 .. sequence'[q]
      BY <3>1, <3>3, <3>4, <2>a, <1>b
    <3>7. \A u \in Replayers : replay'[q][u] \subseteq 1 .. sequence'[q]
      <4>1. \A u \in Replayers : replay[q][u] \subseteq 1 .. sequence'[q]
        BY <3>3, <3>4
      <4>2. \A u \in Replayers : replay'[q][u] = replay[q][u] \/ replay'[q][u] = pending'[q]
        BY <2>c, <1>a
      <4> QED  BY <4>1, <4>2, <3>6, Zenon
    <3> QED  BY <3>5, <3>6, <3>7, Zenon
  <2> QED  BY <2>1, <2>2, Zenon
<1>2. ASSUME NEW p \in Peers, NEW t \in Replayers, ReplayPending(p, t)
      PROVE  AssignsNothing
  <2>1. PICK s \in replay[p][t] : \/ replay' = [replay EXCEPT ![p][t] = @ \ {s}]
                                  \/ replay' = [replay EXCEPT ![p][t] = {}]
    BY <1>2, Zenon DEF ReplayPending
  <2>2. \A q \in Peers : \A u \in Replayers : replay'[q][u] \subseteq replay[q][u]
    BY <2>1, <1>a
  <2> QED  BY <1>2, <2>2, Zenon DEF ReplayPending, AssignsNothing, chan
<1>3. ASSUME NEW p \in Peers, NEW t \in Transports, ReceiveData(p, t)
      PROVE  AssignsNothing
  <2>1. UNCHANGED <<sequence, stamp, pending>>
    BY <1>3, Zenon DEF ReceiveData
  <2>2. CASE WriteAck(p, Head(wire[t][p]).seq, Pop(t, p))
    BY <2>1, <2>2, AckAssigns, Zenon DEF AssignsNothing
  <2>3. CASE UNCHANGED replay
    BY <2>1, <2>3, Zenon DEF AssignsNothing
  <2> QED  BY <1>3, <2>2, <2>3, Zenon DEF ReceiveData
<1>4. ASSUME NEW p \in Peers, LocalWrite(p)
      PROVE  AssignsNothing
  <2>1. UNCHANGED <<sequence, stamp, pending>>
    BY <1>4, Zenon DEF LocalWrite
  <2>2. CASE WriteAck(p, Head(queue[p]).seq, wire)
    BY <2>1, <2>2, AckAssigns, Zenon DEF AssignsNothing
  <2>3. CASE UNCHANGED replay
    BY <2>1, <2>3, Zenon DEF AssignsNothing
  <2> QED  BY <1>4, <2>2, <2>3, Zenon DEF LocalWrite
<1>5. ASSUME NEW p \in Peers, NEW t \in Transports, Enqueue(p, t)
      PROVE  AssignsNothing
  BY <1>5, Zenon DEF Enqueue, AssignsNothing
<1>6. ASSUME NEW p \in Peers, NEW t \in Transports, ReceiveAck(p, t)
      PROVE  AssignsNothing
  <2>1. \A q \in Peers : pending'[q] \subseteq pending[q]
    BY <1>6, <1>b, Zenon DEF ReceiveAck
  <2> QED  BY <1>6, <2>1, Zenon DEF ReceiveAck, AssignsNothing
<1>7. ASSUME NEW p \in Peers, NEW t \in Transports,
             ReceiveMigrate(p, t) \/ (t \in Streams /\ ReadLoopFails(p, t))
      PROVE  AssignsNothing
  <2>1. replay' = replay \/ replay' = [replay EXCEPT ![p][t] = pending[p]]
    BY <1>7, Zenon DEF ReceiveMigrate, ReadLoopFails
  <2>2. \A q \in Peers : \A u \in Replayers : replay'[q][u] \subseteq replay[q][u] \cup pending[q]
    BY <2>1, <1>a
  <2> QED  BY <1>7, <2>2, Zenon DEF ReceiveMigrate, ReadLoopFails, AssignsNothing
<1>8. ASSUME ResumeDirect
      PROVE  AssignsNothing
  <2>1. replay' = [replay EXCEPT ![Dialer][Agent] = pending[Dialer]]
    BY <1>8, Zenon DEF ResumeDirect
  <2>2. \A q \in Peers : \A u \in Replayers : replay'[q][u] \subseteq replay[q][u] \cup pending[q]
    BY <2>1, <1>a, Zenon
  <2> QED  BY <1>8, <2>2, Zenon DEF ResumeDirect, AssignsNothing
<1>9. CASE \/ \E p \in Peers : ReceiveResume(p) \/ FinishWrite(p)
           \/ \E t \in Streams : AcceptResume(t)
           \/ BreakStream \/ DropRelay \/ ReconnectRelay \/ UNCHANGED vars
  BY <1>9, <1>c, Zenon DEF ReceiveResume, FinishWrite, AcceptResume, BreakStream, DropRelay, ReconnectRelay,
                    AssignsNothing, chan, vars
<1>10. Streams \subseteq Transports
  BY MigrationAssumption DEF Streams, Transports
<1> QED
  BY <1>c, <1>1, <1>2, <1>3, <1>4, <1>5, <1>6, <1>7, <1>8, <1>9, <1>10, Zenon DEF Next, PeerStep

-----------------------------------------------------------------------------
(* Nothing is accepted twice.                                              *)

\* The message a reader holds is a message.
LEMMA HeldType ==
  ASSUME NEW h \in [Transports -> Seq(Msg)], NEW t \in Transports, h[t] # <<>>
  PROVE  h[t][1] \in Msg /\ h[t][1].seq \in Nat /\ Head(h[t]) = h[t][1]
<1>1. h[t] \in Seq(Msg)
  BY Zenon
<1>2. h[t][1] \in Msg
  BY <1>1, EmptySeq, ElementOfSeq
<1>3. Head(h[t]) = h[t][1]
  BY <1>1
<1> QED  BY <1>2, <1>3, Zenon DEF Msg

\* acceptData of the next number: it is above everything queued or held.
LEMMA AcceptedMessage ==
  ASSUME NEW h \in [Transports -> Seq(Msg)], NEW o \in Seq(Nat), NEW r \in Nat,
         Accepted(h, o, r), NEW t \in Transports, NEW m \in Msg, h[t] = <<>>,
         m.seq = r + 1
  PROVE  Accepted([h EXCEPT ![t] = <<m>>], o, r + 1)
<1> DEFINE g == [h EXCEPT ![t] = <<m>>]
<1>1. \A u \in Transports : g[u] = IF u = t THEN <<m>> ELSE h[u]
  BY Zenon
<1>2. <<m>> # <<>> /\ Len(<<m>>) = 1 /\ <<m>>[1] = m
  BY Zenon
<1>3. \A u \in Transports : h[u] # <<>> => h[u][1].seq <= r
  BY Zenon DEF Accepted
<1>a. \A u \in Transports : h[u] # <<>> => h[u][1].seq \in Nat
  BY HeldType, Zenon
<1>b. \A i \in 1 .. Len(o) : o[i] \in Nat /\ o[i] <= r /\ o[i] \in 1 .. r
  BY DEF Accepted
<1> HIDE DEF g
<1>5. \A i \in 1 .. Len(o) : o[i] \in 1 .. (r + 1)
  BY <1>b
<1>6. \A u \in Transports : g[u] # <<>> =>
        /\ g[u][1].seq <= r + 1
        /\ \A i \in 1 .. Len(o) : o[i] # g[u][1].seq
  <2> SUFFICES ASSUME NEW u \in Transports, g[u] # <<>>
               PROVE  /\ g[u][1].seq <= r + 1
                      /\ \A i \in 1 .. Len(o) : o[i] # g[u][1].seq
    BY Zenon
  <2>1. CASE u = t
    <3>1. g[u][1].seq = r + 1
      BY <2>1, <1>1, <1>2, Zenon
    <3> QED  BY <3>1, <1>b
  <2>2. CASE u # t
    <3>1. g[u] = h[u]
      BY <2>2, <1>1, Zenon
    <3>2. h[u][1].seq <= r /\ h[u][1].seq \in Nat
      BY <3>1, <1>3, <1>a, Zenon
    <3>3. \A i \in 1 .. Len(o) : o[i] # h[u][1].seq
      BY <3>1, Zenon DEF Accepted
    <3> QED  BY <3>1, <3>2, <3>3
  <2> QED  BY <2>1, <2>2, Zenon
<1>7. \A u, x \in Transports :
        /\ g[u] # <<>> /\ g[x] # <<>>
        /\ g[u][1].seq = g[x][1].seq
        /\ g[u][1].seq # 0
        => u = x
  <2> SUFFICES ASSUME NEW u \in Transports, NEW x \in Transports,
                      g[u] # <<>>, g[x] # <<>>, g[u][1].seq = g[x][1].seq, g[u][1].seq # 0
               PROVE  u = x
    BY Zenon
  <2>1. CASE u # t /\ x # t
    BY <2>1, <1>1, Zenon DEF Accepted
  <2>2. CASE u = t /\ x # t
    <3>1. g[u][1].seq = r + 1
      BY <2>2, <1>1, <1>2, Zenon
    <3>2. g[x] = h[x]
      BY <2>2, <1>1, Zenon
    <3>3. h[x][1].seq \in Nat /\ h[x][1].seq <= r
      BY <3>2, <1>3, <1>a, Zenon
    <3>4. h[x][1].seq = r + 1
      BY <3>1, <3>2, Zenon
    <3> QED  BY <3>3, <3>4
  <2>3. CASE u # t /\ x = t
    <3>1. g[x][1].seq = r + 1
      BY <2>3, <1>1, <1>2, Zenon
    <3>2. g[u] = h[u]
      BY <2>3, <1>1, Zenon
    <3>3. h[u][1].seq \in Nat /\ h[u][1].seq <= r
      BY <3>2, <1>3, <1>a, Zenon
    <3> QED  BY <3>1, <3>2, <3>3
  <2> QED  BY <2>1, <2>2, <2>3, Zenon
<1>8. Accepted(g, o, r + 1)
  BY <1>5, <1>6, <1>7, Zenon DEF Accepted
<1> QED  BY <1>8, Zenon DEF g

\* acceptData of unnumbered data does not touch what is known of the numbers.
LEMMA AcceptedUnnumbered ==
  ASSUME NEW h \in [Transports -> Seq(Msg)], NEW o \in Seq(Nat), NEW r \in Nat,
         Accepted(h, o, r), NEW t \in Transports, NEW m \in Msg, m.seq = 0
  PROVE  Accepted([h EXCEPT ![t] = <<m>>], o, r)
<1> DEFINE g == [h EXCEPT ![t] = <<m>>]
<1>1. \A u \in Transports : g[u] = IF u = t THEN <<m>> ELSE h[u]
  BY Zenon
<1>2. <<m>> # <<>> /\ Len(<<m>>) = 1 /\ <<m>>[1] = m
  BY Zenon
<1> HIDE DEF g
<1>b. \A i \in 1 .. Len(o) : o[i] \in 1 .. r /\ o[i] # 0
  BY DEF Accepted
<1>3. \A u \in Transports : g[u] # <<>> /\ u # t => g[u] = h[u]
  BY <1>1, Zenon
<1>4. g[t] = <<m>> /\ g[t][1].seq = 0
  BY <1>1, <1>2, Zenon
<1>6. \A u \in Transports : g[u] # <<>> =>
        /\ g[u][1].seq <= r
        /\ \A i \in 1 .. Len(o) : o[i] # g[u][1].seq
  <2> SUFFICES ASSUME NEW u \in Transports, g[u] # <<>>
               PROVE  /\ g[u][1].seq <= r
                      /\ \A i \in 1 .. Len(o) : o[i] # g[u][1].seq
    BY Zenon
  <2>1. CASE u = t
    BY <2>1, <1>4, <1>b
  <2>2. CASE u # t
    BY <2>2, <1>3 DEF Accepted
  <2> QED  BY <2>1, <2>2, Zenon
<1>7. \A u, x \in Transports :
        /\ g[u] # <<>> /\ g[x] # <<>>
        /\ g[u][1].seq = g[x][1].seq
        /\ g[u][1].seq # 0
        => u = x
  <2> SUFFICES ASSUME NEW u \in Transports, NEW x \in Transports, g[u] # <<>>, g[x] # <<>>,
                      g[u][1].seq = g[x][1].seq, g[u][1].seq # 0
               PROVE  u = x
    BY Zenon
  <2>1. u # t /\ x # t
    BY <1>4, Zenon
  <2>2. g[u] = h[u] /\ g[x] = h[x]
    BY <1>3, <2>1, Zenon
  <2> QED  BY <2>2, Zenon DEF Accepted
<1>8. Accepted(g, o, r)
  BY <1>6, <1>7, <1>b, Zenon DEF Accepted
<1> QED  BY <1>8, Zenon DEF g

\* A reader that drops what it holds keeps Accepted.
LEMMA AcceptedRelease ==
  ASSUME NEW h \in [Transports -> Seq(Msg)], NEW o \in Seq(Nat), NEW r \in Nat,
         Accepted(h, o, r), NEW t \in Transports
  PROVE  Accepted([h EXCEPT ![t] = <<>>], o, r)
<1> DEFINE g == [h EXCEPT ![t] = <<>>]
<1>1. \A u \in Transports : g[u] # <<>> => u # t /\ g[u] = h[u]
  BY Zenon
<1> HIDE DEF g
<1>2. Accepted(g, o, r)
  BY <1>1, Zenon DEF Accepted
<1> QED  BY <1>2, Zenon DEF g

\* Queueing the held number, which is in the queue or another hand nowhere else, keeps Accepted.
LEMMA AcceptedQueued ==
  ASSUME NEW h \in [Transports -> Seq(Msg)], NEW o \in Seq(Nat), NEW r \in Nat,
         Accepted(h, o, r), NEW t \in Transports, h[t] # <<>>, h[t][1].seq # 0
  PROVE  Accepted([h EXCEPT ![t] = <<>>], Append(o, h[t][1].seq), r)
<1> DEFINE g == [h EXCEPT ![t] = <<>>]
           s == h[t][1].seq
           n == Append(o, s)
<1>1. \A u \in Transports : g[u] # <<>> => u # t /\ g[u] = h[u]
  BY Zenon
<1>2. s \in Nat /\ s # 0 /\ s <= r /\ \A i \in 1 .. Len(o) : o[i] # s
  BY HeldType, Zenon DEF Accepted
<1>3. \A u \in Transports : g[u] # <<>> => g[u][1].seq # s
  BY <1>1, Zenon DEF Accepted
<1> HIDE DEF s
<1>4. /\ Len(n) = Len(o) + 1 /\ Len(o) \in Nat
      /\ \A i \in 1 .. Len(o) : n[i] = o[i]
      /\ n[Len(o) + 1] = s
  BY <1>2
<1> HIDE DEF g, n
<1>5. \A i \in 1 .. Len(n) : i \in 1 .. Len(o) \/ i = Len(o) + 1
  BY <1>4
<1>6. \A i \in 1 .. Len(n) : n[i] \in 1 .. r
  <2>1. s \in 1 .. r
    BY <1>2
  <2> QED  BY <2>1, <1>4, <1>5, Zenon DEF Accepted
<1>7. \A u \in Transports : g[u] # <<>> =>
        /\ g[u][1].seq <= r
        /\ \A i \in 1 .. Len(n) : n[i] # g[u][1].seq
  <2> SUFFICES ASSUME NEW u \in Transports, g[u] # <<>>
               PROVE  /\ g[u][1].seq <= r
                      /\ \A i \in 1 .. Len(n) : n[i] # g[u][1].seq
    BY Zenon
  <2>1. g[u] = h[u] /\ h[u] # <<>> /\ g[u][1].seq # s
    BY <1>1, <1>3, Zenon
  <2>2. g[u][1].seq <= r /\ \A i \in 1 .. Len(o) : o[i] # g[u][1].seq
    BY <2>1, Zenon DEF Accepted
  <2> QED  BY <2>1, <2>2, <1>4, <1>5, Zenon
<1>8. \A u, x \in Transports :
        /\ g[u] # <<>> /\ g[x] # <<>>
        /\ g[u][1].seq = g[x][1].seq
        /\ g[u][1].seq # 0
        => u = x
  BY <1>1 DEF Accepted
<1>9. \A i, j \in 1 .. Len(n) : n[i] = n[j] => i = j
  <2>1. \A i, j \in 1 .. Len(o) : o[i] = o[j] => i = j
    BY Zenon DEF Accepted
  <2> SUFFICES ASSUME NEW i \in 1 .. Len(n), NEW j \in 1 .. Len(n), n[i] = n[j]
               PROVE  i = j
    BY Zenon
  <2>2. CASE i \in 1 .. Len(o) /\ j \in 1 .. Len(o)
    BY <2>1, <2>2, <1>4, Zenon
  <2>3. CASE i \in 1 .. Len(o) /\ j = Len(o) + 1
    BY <2>3, <1>2, <1>4, Zenon
  <2>4. CASE i = Len(o) + 1 /\ j \in 1 .. Len(o)
    BY <2>4, <1>2, <1>4, Zenon
  <2> QED  BY <2>2, <2>3, <2>4, <1>5, Zenon
<1>10. Accepted(g, n, r)
  BY <1>6, <1>7, <1>8, <1>9, Zenon DEF Accepted
<1> QED  BY <1>10, Zenon DEF g, n, s

\* rejectData of the latest number keeps Accepted: nobody else has that number.
LEMMA AcceptedRejected ==
  ASSUME NEW h \in [Transports -> Seq(Msg)], NEW o \in Seq(Nat), NEW r \in Nat,
         Accepted(h, o, r), NEW t \in Transports, h[t] # <<>>, h[t][1].seq = r, r # 0
  PROVE  Accepted([h EXCEPT ![t] = <<>>], o, r - 1)
<1> DEFINE g == [h EXCEPT ![t] = <<>>]
<1>1. \A u \in Transports : g[u] # <<>> => u # t /\ g[u] = h[u]
  BY Zenon
<1> HIDE DEF g
<1>2. \A i \in 1 .. Len(o) : o[i] \in 1 .. (r - 1)
  <2>1. \A i \in 1 .. Len(o) : o[i] \in 1 .. r /\ o[i] # r
    BY Zenon DEF Accepted
  <2> QED  BY <2>1
<1>3. \A u \in Transports : g[u] # <<>> => g[u][1].seq <= r - 1
  <2> SUFFICES ASSUME NEW u \in Transports, g[u] # <<>>
               PROVE  g[u][1].seq <= r - 1
    BY Zenon
  <2>1. g[u] = h[u] /\ h[u] # <<>> /\ u # t
    BY <1>1, Zenon
  <2>2. h[u][1].seq \in Nat /\ h[u][1].seq <= r /\ h[u][1].seq # r
    BY <2>1, HeldType, Zenon DEF Accepted
  <2> QED  BY <2>1, <2>2
<1>4. Accepted(g, o, r - 1)
  BY <1>1, <1>2, <1>3 DEF Accepted
<1> QED  BY <1>4, Zenon DEF g

\* Every step keeps Accepted for both peers.
LEMMA AcceptedStep ==
  ASSUME TypeOK, AcceptedInv, [Next]_vars
  PROVE  AcceptedInv'
<1>a. /\ held \in [Peers -> [Transports -> Seq(Msg)]]
      /\ order \in [Peers -> Seq(Nat)]
      /\ received \in [Peers -> Nat]
  BY Zenon DEF TypeOK
<1>b. \A p \in Peers : /\ held[p] \in [Transports -> Seq(Msg)]
                       /\ order[p] \in Seq(Nat)
                       /\ received[p] \in Nat
                       /\ Accepted(held[p], order[p], received[p])
  BY <1>a, Zenon DEF AcceptedInv
<1>c. ASSUME NEW p \in Peers,
             Accepted(held'[p], order'[p], received'[p]),
             \A q \in Peers \ {p} : /\ held'[q] = held[q]
                                    /\ order'[q] = order[q]
                                    /\ received'[q] = received[q]
      PROVE  AcceptedInv'
  BY <1>b, <1>c, Zenon DEF AcceptedInv
<1>1. ASSUME NEW p \in Peers, NEW t \in Transports, ReceiveData(p, t)
      PROVE  AcceptedInv'
  <2> DEFINE m == Head(wire[t][p])
  <2>1. m \in Msg /\ m.seq \in Nat
    BY <1>1, PopType, Zenon DEF ReceiveData, Reading, Msg
  <2>2. held[p][t] = <<>> /\ order' = order
    BY <1>1, Zenon DEF ReceiveData, Reading
  <2>3. \/ /\ Accepts(p, m)
           /\ received' = [received EXCEPT ![p] = IF m.seq = 0 THEN @ ELSE m.seq]
           /\ held' = [held EXCEPT ![p][t] = <<m>>]
        \/ UNCHANGED <<received, held>>
    BY <1>1, Zenon DEF ReceiveData
  <2> HIDE DEF m
  <2>4. CASE UNCHANGED <<received, held>>
    BY <2>2, <2>4, Zenon DEF AcceptedInv
  <2>5. CASE /\ Accepts(p, m)
             /\ received' = [received EXCEPT ![p] = IF m.seq = 0 THEN @ ELSE m.seq]
             /\ held' = [held EXCEPT ![p][t] = <<m>>]
    <3>1. held'[p] = [held[p] EXCEPT ![t] = <<m>>]
      BY <2>5, <1>a, Zenon
    <3>2. \A q \in Peers \ {p} : held'[q] = held[q] /\ received'[q] = received[q]
      BY <2>5, <1>a, Zenon
    <3>3. Accepted(held'[p], order'[p], received'[p])
      <4>1. CASE m.seq = 0
        <5>1. received'[p] = received[p]
          BY <2>5, <4>1, <1>a, Zenon
        <5>2. Accepted([held[p] EXCEPT ![t] = <<m>>], order[p], received[p])
          BY <4>1, <2>1, <1>b, AcceptedUnnumbered, Zenon
        <5> QED  BY <5>1, <5>2, <3>1, <2>2, Zenon
      <4>2. CASE m.seq # 0
        <5>1. received'[p] = m.seq /\ m.seq = received[p] + 1
          BY <2>5, <4>2, <1>a, Zenon DEF Accepts
        <5>2. /\ held[p] \in [Transports -> Seq(Msg)]
              /\ order[p] \in Seq(Nat)
              /\ received[p] \in Nat
              /\ Accepted(held[p], order[p], received[p])
          BY <1>b, Zenon
        <5>3. Accepted([held[p] EXCEPT ![t] = <<m>>], order[p], received[p] + 1)
          BY <5>1, <5>2, <2>1, <2>2, AcceptedMessage, Zenon
        <5> QED  BY <5>1, <5>3, <3>1, <2>2, Zenon
      <4> QED  BY <4>1, <4>2, Zenon
    <3> QED  BY <3>2, <3>3, <2>2, <1>c, Zenon
  <2> QED  BY <2>3, <2>4, <2>5, Zenon
<1>2. ASSUME NEW p \in Peers, NEW t \in Transports, Enqueue(p, t)
      PROVE  AcceptedInv'
  <2> DEFINE s == held[p][t][1].seq
  <2>1. held[p][t] # <<>> /\ held' = [held EXCEPT ![p][t] = <<>>]
    BY <1>2, Zenon DEF Enqueue
  <2>2. s \in Nat /\ Head(held[p][t]) = held[p][t][1]
    BY <2>1, <1>b, HeldType, Zenon
  <2>3. held'[p] = [held[p] EXCEPT ![t] = <<>>] /\ \A q \in Peers \ {p} : held'[q] = held[q]
    BY <2>1, <1>a, Zenon
  <2>4. \/ s = 0 /\ order' = order /\ received' = received
        \/ s # 0 /\ order' = [order EXCEPT ![p] = Append(order[p], s)] /\ received' = received
        \/ s # 0 /\ received[p] = s /\ order' = order /\ received' = [received EXCEPT ![p] = s - 1]
        \/ order' = order /\ received' = [received EXCEPT ![p] = received[p]]
    BY <1>2, <2>2, Zenon DEF Enqueue
  <2> HIDE DEF s
  <2>5. CASE order' = order /\ (received' = received \/ received' = [received EXCEPT ![p] = received[p]])
    <3>1. received' = received
      BY <2>5, <1>a, Zenon
    <3>2. Accepted(held'[p], order'[p], received'[p])
      <4>1. Accepted([held[p] EXCEPT ![t] = <<>>], order[p], received[p])
        BY <1>b, AcceptedRelease, Zenon
      <4> QED  BY <4>1, <2>5, <3>1, <2>3, Zenon
    <3> QED  BY <2>5, <3>1, <3>2, <2>3, <1>c, Zenon
  <2>6. CASE s # 0 /\ order' = [order EXCEPT ![p] = Append(order[p], s)] /\ received' = received
    <3>1. order'[p] = Append(order[p], s) /\ \A q \in Peers \ {p} : order'[q] = order[q]
      BY <2>6, <1>a, Zenon
    <3>2. Accepted(held'[p], order'[p], received'[p])
      <4>1. Accepted([held[p] EXCEPT ![t] = <<>>], Append(order[p], held[p][t][1].seq), received[p])
        <5>1. held[p][t][1].seq # 0
          BY <2>6, Zenon DEF s
        <5>2. /\ held[p] \in [Transports -> Seq(Msg)]
              /\ order[p] \in Seq(Nat)
              /\ received[p] \in Nat
              /\ Accepted(held[p], order[p], received[p])
          BY <1>b, Zenon
        <5> QED  BY <5>1, <5>2, <2>1, AcceptedQueued, Zenon
      <4>2. order'[p] = Append(order[p], held[p][t][1].seq) /\ received'[p] = received[p]
        BY <2>6, <3>1, Zenon DEF s
      <4> QED  BY <4>1, <4>2, <2>3, Zenon
    <3> QED  BY <2>6, <3>1, <3>2, <2>3, <1>c, Zenon
  <2>7. CASE s # 0 /\ received[p] = s /\ order' = order /\ received' = [received EXCEPT ![p] = s - 1]
    <3>1. received'[p] = received[p] - 1 /\ \A q \in Peers \ {p} : received'[q] = received[q]
      BY <2>7, <1>a, Zenon
    <3>2. Accepted(held'[p], order'[p], received'[p])
      <4>1. Accepted([held[p] EXCEPT ![t] = <<>>], order[p], received[p] - 1)
        BY <2>7, <2>1, <1>b, AcceptedRejected, Zenon DEF s
      <4> QED  BY <4>1, <2>7, <3>1, <2>3, Zenon
    <3> QED  BY <2>7, <3>1, <3>2, <2>3, <1>c, Zenon
  <2> QED  BY <2>4, <2>5, <2>6, <2>7, Zenon
<1>3. ASSUME UNCHANGED <<held, order, received>>
      PROVE  AcceptedInv'
  BY <1>3, Zenon DEF AcceptedInv
<1>4. CASE \/ \E p \in Peers : \/ WriteData(p) \/ LocalWrite(p) \/ ReceiveResume(p) \/ FinishWrite(p)
                               \/ \E t \in Replayers : ReplayPending(p, t)
                               \/ \E t \in Transports : ReceiveAck(p, t) \/ ReceiveMigrate(p, t)
                               \/ \E t \in Streams : ReadLoopFails(p, t)
           \/ \E t \in Streams : AcceptResume(t)
           \/ BreakStream \/ ResumeDirect \/ DropRelay \/ ReconnectRelay \/ UNCHANGED vars
  <2> DEFINE Same == UNCHANGED <<held, order, received>>
  <2>1. ASSUME NEW p \in Peers, WriteData(p)  PROVE  Same
    BY <2>1, Zenon DEF WriteData, chan
  <2>2. ASSUME NEW p \in Peers, LocalWrite(p)  PROVE  Same
    BY <2>2, Zenon DEF LocalWrite, chan
  <2>3. ASSUME NEW p \in Peers, ReceiveResume(p)  PROVE  Same
    BY <2>3, Zenon DEF ReceiveResume, chan
  <2>4. ASSUME NEW p \in Peers, FinishWrite(p)  PROVE  Same
    BY <2>4, Zenon DEF FinishWrite, chan
  <2>5. ASSUME NEW p \in Peers, NEW t \in Replayers, ReplayPending(p, t)  PROVE  Same
    BY <2>5, Zenon DEF ReplayPending, chan
  <2>6. ASSUME NEW p \in Peers, NEW t \in Transports, ReceiveAck(p, t)  PROVE  Same
    BY <2>6, Zenon DEF ReceiveAck, chan
  <2>7. ASSUME NEW p \in Peers, NEW t \in Transports, ReceiveMigrate(p, t)  PROVE  Same
    BY <2>7, Zenon DEF ReceiveMigrate, chan
  <2>8. ASSUME NEW p \in Peers, NEW t \in Streams, ReadLoopFails(p, t)  PROVE  Same
    BY <2>8, Zenon DEF ReadLoopFails, chan
  <2>9. ASSUME NEW t \in Streams, AcceptResume(t)  PROVE  Same
    BY <2>9, Zenon DEF AcceptResume, chan
  <2>10. ASSUME BreakStream  PROVE  Same
    BY <2>10, Zenon DEF BreakStream, chan
  <2>11. ASSUME ResumeDirect  PROVE  Same
    BY <2>11, Zenon DEF ResumeDirect, chan
  <2>12. ASSUME DropRelay  PROVE  Same
    BY <2>12, Zenon DEF DropRelay, chan
  <2>13. ASSUME ReconnectRelay  PROVE  Same
    BY <2>13, Zenon DEF ReconnectRelay, chan
  <2>14. ASSUME UNCHANGED vars  PROVE  Same
    BY <2>14, Zenon DEF vars, chan
  <2> HIDE DEF Same
  <2>a. Same
    BY <1>4, <2>1, <2>2, <2>3, <2>4, <2>5, <2>6, <2>7, <2>8, <2>9, <2>10, <2>11, <2>12, <2>13, <2>14, Zenon
  <2> QED  BY <2>a, <1>3, Zenon DEF Same
<1> QED  BY <1>1, <1>2, <1>4, Zenon DEF Next, PeerStep


-----------------------------------------------------------------------------
(* Without a race the queue sees the numbers in order.                     *)

\* With nothing held, acceptData leaves exactly one held message, the next in order.
LEMMA OrderedReceive ==
  ASSUME NEW h \in [Transports -> Seq(Msg)], NEW o \in Seq(Nat), NEW r \in Nat,
         NEW q \in Seq(Msg), Ordered(h, o, r, q), NEW t \in Transports, NEW m \in Msg,
         \A u \in Transports : h[u] = <<>>,
         m.seq = 0 \/ m.seq = r + 1
  PROVE  Ordered([h EXCEPT ![t] = <<m>>], o, IF m.seq = 0 THEN r ELSE m.seq, q)
<1> DEFINE g == [h EXCEPT ![t] = <<m>>]
<1>1. /\ g[t] # <<>> /\ g[t][1] = m
      /\ \A u \in Transports : g[u] # <<>> => u = t
  BY Zenon
<1>2. r = Len(o) /\ m.seq \in Nat
  BY Zenon DEF Ordered, Msg
<1> HIDE DEF g
<1>3. CASE m.seq = 0
  <2>1. Ordered(g, o, r, q)
    BY <1>1, <1>2, <1>3, Zenon DEF Ordered
  <2> QED  BY <2>1, <1>3, Zenon DEF g
<1>4. CASE m.seq # 0
  <2>1. m.seq = Len(o) + 1
    BY <1>2, <1>4, Zenon
  <2>2. ~(\A u \in Transports : g[u] = <<>> \/ g[u][1].seq = 0)
    BY <1>1, <1>4, Zenon
  <2>3. Ordered(g, o, m.seq, q)
    BY <1>1, <2>1, <2>2, Zenon DEF Ordered
  <2> QED  BY <2>3, <1>4, Zenon DEF g
<1> QED  BY <1>3, <1>4, Zenon

\* What is held once reader t has queued or dropped its message.
Released(h, t) == [h EXCEPT ![t] = <<>>]

\* Queueing or dropping unnumbered data keeps the numbered ones in order.
LEMMA OrderedUnnumbered ==
  ASSUME NEW h \in [Transports -> Seq(Msg)], NEW o \in Seq(Nat), NEW r \in Nat,
         NEW q \in Seq(Msg), Ordered(h, o, r, q), NEW t \in Transports, h[t] # <<>>,
         NEW m \in Msg, m = h[t][1], m.seq = 0
  PROVE  /\ Ordered(Released(h, t), o, r, Append(q, m))
         /\ Ordered(Released(h, t), o, r, q)
<1> DEFINE g == Released(h, t)
           n == Append(q, m)
<1>1. \A u \in Transports : g[u] = <<>>
  BY Zenon DEF Ordered, Released
<1>2. Len(o) \in Nat /\ Len(q) \in Nat
  OBVIOUS
<1>3. r = Len(o)
  BY Zenon DEF Ordered
<1> HIDE DEF g
<1>4. Ordered(g, o, r, q)
  BY <1>1, <1>3, Zenon DEF Ordered
<1>5. /\ Len(n) = Len(q) + 1
      /\ \A i \in 1 .. Len(q) : n[i] = q[i]
      /\ n[Len(q) + 1] = m
  OBVIOUS
<1> HIDE DEF n
<1>6. \A i \in 1 .. Len(n) : n[i].seq <= Len(o)
  <2>1. \A i \in 1 .. Len(n) : i \in 1 .. Len(q) \/ i = Len(q) + 1
    BY <1>2, <1>5
  <2> QED  BY <2>1, <1>2, <1>5 DEF Ordered
<1>7. Ordered(g, o, r, n)
  BY <1>4, <1>6, Zenon DEF Ordered
<1> QED  BY <1>4, <1>7, Zenon DEF g, n

\* Without a race, queueing the held number extends the order by one, and rejectData undoes acceptData.
LEMMA OrderedNumbered ==
  ASSUME NEW h \in [Transports -> Seq(Msg)], NEW o \in Seq(Nat), NEW r \in Nat,
         NEW q \in Seq(Msg), Ordered(h, o, r, q), NEW t \in Transports, h[t] # <<>>,
         NEW m \in Msg, m = h[t][1], m.seq # 0
  PROVE  /\ Ordered(Released(h, t), Append(o, m.seq), r, Append(q, m))
         /\ Ordered(Released(h, t), o, r - 1, q)
         /\ r = m.seq
<1>0. PICK s \in Nat : s = m.seq
  BY Zenon DEF Msg
<1> DEFINE g == Released(h, t)
           n == Append(q, m)
           k == Append(o, s)
<1>1. \A u \in Transports : g[u] = <<>>
  BY Zenon DEF Ordered, Released
<1>2. Len(o) \in Nat /\ Len(q) \in Nat
  OBVIOUS
<1>3. s = r /\ r = Len(o) + 1
  BY <1>0, Zenon DEF Ordered
<1> HIDE DEF g
<1>4. Ordered(g, o, r - 1, q)
  BY <1>1, <1>2, <1>3 DEF Ordered
<1>5. /\ Len(n) = Len(q) + 1
      /\ \A i \in 1 .. Len(q) : n[i] = q[i]
      /\ n[Len(q) + 1] = m
  OBVIOUS
<1>6. /\ Len(k) = Len(o) + 1
      /\ \A i \in 1 .. Len(o) : k[i] = o[i]
      /\ k[Len(o) + 1] = s
  OBVIOUS
<1> HIDE DEF n, k
<1>7. \A i \in 1 .. Len(k) : k[i] = i
  <2>1. \A i \in 1 .. Len(k) : i \in 1 .. Len(o) \/ i = Len(o) + 1
    BY <1>2, <1>6
  <2> QED  BY <2>1, <1>3, <1>6, Zenon DEF Ordered
<1>8. \A i \in 1 .. Len(n) : n[i].seq <= Len(k)
  <2>1. \A i \in 1 .. Len(n) : i \in 1 .. Len(q) \/ i = Len(q) + 1
    BY <1>2, <1>5
  <2>2. \A i \in 1 .. Len(q) : q[i].seq \in Nat /\ q[i].seq <= Len(o)
    <3>1. \A i \in 1 .. Len(q) : q[i] \in Msg
      BY ElementOfSeq, Zenon
    <3> QED  BY <3>1, Zenon DEF Ordered, Msg
  <2>3. \A i \in 1 .. Len(q) : q[i].seq <= Len(k)
    BY <2>2, <1>2, <1>6
  <2>4. m.seq <= Len(k)
    BY <1>0, <1>2, <1>3, <1>6
  <2> QED  BY <2>1, <2>3, <2>4, <1>5, Zenon
<1>9. Ordered(g, k, r, n)
  BY <1>1, <1>3, <1>6, <1>7, <1>8, Zenon DEF Ordered
<1> QED  BY <1>0, <1>3, <1>4, <1>9, Zenon DEF g, n, k

\* Writing the head of the queue to the local connection keeps Ordered; the head was queued.
LEMMA OrderedWrite ==
  ASSUME NEW h, NEW o \in Seq(Nat), NEW r, NEW q \in Seq(Msg), Ordered(h, o, r, q), q # <<>>
  PROVE  Ordered(h, o, r, Tail(q)) /\ Head(q).seq <= Len(o)
<1>1. /\ Len(Tail(q)) = Len(q) - 1 /\ Len(q) \in Nat \ {0} /\ Head(q) = q[1]
      /\ \A i \in 1 .. Len(Tail(q)) : Tail(q)[i] = q[i + 1]
  BY HeadTailProperties, EmptySeq
<1>2. \A i \in 1 .. Len(Tail(q)) : Tail(q)[i].seq <= Len(o)
  <2> SUFFICES ASSUME NEW i \in 1 .. Len(Tail(q)) PROVE Tail(q)[i].seq <= Len(o)
    BY Zenon
  <2>1. Tail(q)[i] = q[i + 1] /\ i + 1 \in 1 .. Len(q)
    BY <1>1
  <2> QED  BY <2>1, Zenon DEF Ordered
<1>3. 1 \in 1 .. Len(q)
  BY <1>1
<1> QED  BY <1>1, <1>2, <1>3, Zenon DEF Ordered

\* Every step that is not a race keeps Ordered.
LEMMA OrderStep ==
  ASSUME TypeOK, OrderInv, [Next]_vars
  PROVE  OrderInv'
<1>a. /\ held \in [Peers -> [Transports -> Seq(Msg)]]
      /\ order \in [Peers -> Seq(Nat)]
      /\ received \in [Peers -> Nat]
      /\ queue \in [Peers -> Seq(Msg)]
  BY Zenon DEF TypeOK
<1>b. raced \in [Peers -> BOOLEAN]
  BY Zenon DEF TypeOK
<1>c. ASSUME NEW p \in Peers,
             ~raced'[p] => Ordered(held'[p], order'[p], received'[p], queue'[p]),
             \A q \in Peers \ {p} : /\ held'[q] = held[q]
                                    /\ order'[q] = order[q]
                                    /\ received'[q] = received[q]
                                    /\ queue'[q] = queue[q]
                                    /\ raced'[q] = raced[q]
      PROVE  OrderInv'
  BY <1>c, Zenon DEF OrderInv
<1>1. ASSUME NEW p \in Peers, NEW t \in Transports, ReceiveData(p, t)
      PROVE  OrderInv'
  <2> DEFINE m == Head(wire[t][p])
  <2>1. m \in Msg /\ m.seq \in Nat
    BY <1>1, PopType, Zenon DEF ReceiveData, Reading, Msg
  <2>2. held[p][t] = <<>> /\ order' = order /\ queue' = queue
    BY <1>1, Zenon DEF ReceiveData, Reading, local
  <2>3. raced' = [raced EXCEPT ![p] = @ \/ OthersHold(p, t)]
    BY <1>1, Zenon DEF ReceiveData
  <2>4. \/ /\ Accepts(p, m)
           /\ received' = [received EXCEPT ![p] = IF m.seq = 0 THEN @ ELSE m.seq]
           /\ held' = [held EXCEPT ![p][t] = <<m>>]
        \/ UNCHANGED <<received, held>>
    BY <1>1, Zenon DEF ReceiveData
  <2> HIDE DEF m
  <2>5. \A q \in Peers \ {p} : raced'[q] = raced[q] /\ held'[q] = held[q] /\ received'[q] = received[q]
    <3>1. \A q \in Peers \ {p} : raced'[q] = raced[q]
      BY <2>3, <1>b, Zenon
    <3>2. \A q \in Peers \ {p} : held'[q] = held[q] /\ received'[q] = received[q]
      BY <2>4, <1>a, Zenon
    <3> QED  BY <3>1, <3>2, Zenon
  <2>6. ASSUME ~raced'[p]
        PROVE  Ordered(held'[p], order'[p], received'[p], queue'[p])
    <3>1. ~raced[p] /\ ~OthersHold(p, t)
      BY <2>6, <2>3, <1>b, Zenon
    <3>2. Ordered(held[p], order[p], received[p], queue[p])
      BY <3>1, Zenon DEF OrderInv
    <3>3. \A u \in Transports : held[p][u] = <<>>
      BY <3>1, <2>2, Zenon DEF OthersHold
    <3>4. CASE UNCHANGED <<received, held>>
      BY <3>2, <3>4, <2>2, Zenon
    <3>5. CASE /\ Accepts(p, m)
               /\ received' = [received EXCEPT ![p] = IF m.seq = 0 THEN @ ELSE m.seq]
               /\ held' = [held EXCEPT ![p][t] = <<m>>]
      <4>1. /\ held'[p] = [held[p] EXCEPT ![t] = <<m>>]
            /\ received'[p] = IF m.seq = 0 THEN received[p] ELSE m.seq
        BY <3>5, <1>a, Zenon
      <4>2. m.seq = 0 \/ m.seq = received[p] + 1
        BY <3>5, Zenon DEF Accepts
      <4>3. /\ held[p] \in [Transports -> Seq(Msg)] /\ order[p] \in Seq(Nat)
            /\ received[p] \in Nat /\ queue[p] \in Seq(Msg)
        BY <1>a, Zenon
      <4>4. Ordered([held[p] EXCEPT ![t] = <<m>>], order[p],
                    IF m.seq = 0 THEN received[p] ELSE m.seq, queue[p])
        BY <4>2, <4>3, <3>2, <3>3, <2>1, OrderedReceive, Zenon
      <4> QED  BY <4>1, <4>4, <2>2, Zenon
    <3> QED  BY <3>4, <3>5, <2>4, Zenon
  <2> QED  BY <2>2, <2>5, <2>6, <1>c, Zenon
<1>2. ASSUME NEW p \in Peers, NEW t \in Transports, Enqueue(p, t)
      PROVE  OrderInv'
  <2>0. PICK m : m = held[p][t][1]
    BY Zenon
  <2> DEFINE g == Released(held[p], t)
  <2>1. held[p][t] # <<>> /\ held' = [held EXCEPT ![p][t] = <<>>] /\ raced' = raced
    BY <1>2, Zenon DEF Enqueue
  <2>2. m.seq \in Nat /\ Head(held[p][t]) = m
    BY <2>0, <2>1, <1>a, HeldType, Zenon
  <2>3. held'[p] = g /\ \A q \in Peers \ {p} : held'[q] = held[q]
    BY <2>1, <1>a, Zenon DEF Released
  <2>4. /\ held[p] \in [Transports -> Seq(Msg)] /\ order[p] \in Seq(Nat)
        /\ received[p] \in Nat /\ queue[p] \in Seq(Msg)
    BY <1>a, Zenon
  <2>5. \/ /\ queue' = [queue EXCEPT ![p] = Append(queue[p], m)]
           /\ order' = IF m.seq = 0 THEN order ELSE [order EXCEPT ![p] = Append(order[p], m.seq)]
           /\ received' = received
        \/ /\ received' = [received EXCEPT
                             ![p] = IF m.seq # 0 /\ received[p] = m.seq THEN m.seq - 1 ELSE received[p]]
           /\ queue' = queue /\ order' = order
    BY <1>2, <2>2, Zenon DEF Enqueue
  <2>6. \A q \in Peers \ {p} : queue'[q] = queue[q] /\ order'[q] = order[q] /\ received'[q] = received[q]
    BY <2>5, <1>a, Zenon
  <2>7. ASSUME ~raced'[p]
        PROVE  Ordered(held'[p], order'[p], received'[p], queue'[p])
    <3>1. Ordered(held[p], order[p], received[p], queue[p])
      BY <2>1, <2>7, Zenon DEF OrderInv
    <3>2. held[p][t] # <<>> /\ m \in Msg
      BY <2>0, <2>1, <2>4, HeldType, Zenon
    <3>3. CASE m.seq = 0
      <4>1. /\ Ordered(g, order[p], received[p], Append(queue[p], m))
            /\ Ordered(g, order[p], received[p], queue[p])
        BY <3>1, <3>2, <3>3, <2>0, <2>4, OrderedUnnumbered, Zenon
      <4>2. /\ order'[p] = order[p] /\ received'[p] = received[p]
            /\ queue'[p] = Append(queue[p], m) \/ queue'[p] = queue[p]
        BY <3>3, <2>5, <1>a, Zenon
      <4> QED  BY <4>1, <4>2, <2>3, Zenon
    <3>4. CASE m.seq # 0
      <4>1. /\ Ordered(g, Append(order[p], m.seq), received[p], Append(queue[p], m))
            /\ Ordered(g, order[p], received[p] - 1, queue[p])
            /\ received[p] = m.seq
        <5>1. received[p] = m.seq
          BY <3>1, <3>2, <3>4, <2>0, Zenon DEF Ordered
        <5>2. Ordered(g, order[p], received[p] - 1, queue[p])
          BY <3>1, <3>2, <3>4, <2>0, <2>4, OrderedNumbered, Zenon
        <5>3. Ordered(g, Append(order[p], m.seq), received[p], Append(queue[p], m))
          BY <3>1, <3>2, <3>4, <2>0, <2>4, OrderedNumbered, Zenon
        <5> QED  BY <5>1, <5>2, <5>3, Zenon
      <4>2. \/ /\ order'[p] = Append(order[p], m.seq)
               /\ received'[p] = received[p]
               /\ queue'[p] = Append(queue[p], m)
            \/ order'[p] = order[p] /\ received'[p] = received[p] - 1 /\ queue'[p] = queue[p]
        BY <4>1, <3>4, <2>5, <1>a, Zenon
      <4> QED  BY <4>1, <4>2, <2>3, Zenon
    <3> QED  BY <3>3, <3>4, Zenon
  <2> QED  BY <2>1, <2>3, <2>6, <2>7, <1>c, Zenon
<1>3. ASSUME NEW p \in Peers, LocalWrite(p)
      PROVE  OrderInv'
  <2>1. /\ queue[p] # <<>> /\ queue' = [queue EXCEPT ![p] = Tail(@)]
        /\ UNCHANGED <<held, order, received, raced>>
    BY <1>3, Zenon DEF LocalWrite
  <2>2. queue'[p] = Tail(queue[p]) /\ \A q \in Peers \ {p} : queue'[q] = queue[q]
    BY <2>1, <1>a, Zenon
  <2>3. ASSUME ~raced'[p]
        PROVE  Ordered(held'[p], order'[p], received'[p], queue'[p])
    <3>1. Ordered(held[p], order[p], received[p], queue[p])
      BY <2>1, <2>3, Zenon DEF OrderInv
    <3>2. Ordered(held[p], order[p], received[p], Tail(queue[p]))
      BY <3>1, <2>1, <1>a, OrderedWrite, Zenon
    <3> QED  BY <3>2, <2>1, <2>2, Zenon
  <2> QED  BY <2>1, <2>2, <2>3, <1>c, Zenon
<1>4. ASSUME UNCHANGED <<held, order, received, queue, raced>>
      PROVE  OrderInv'
  BY <1>4, Zenon DEF OrderInv
<1>5. ASSUME NEW p \in Peers, \/ WriteData(p) \/ ReceiveResume(p) \/ FinishWrite(p)
                              \/ \E t \in Replayers : ReplayPending(p, t)
      PROVE  OrderInv'
  BY <1>4, <1>5, Zenon DEF WriteData, ReceiveResume, FinishWrite, ReplayPending, chan, local
<1>6. ASSUME NEW p \in Peers,
             \/ \E t \in Transports : ReceiveAck(p, t) \/ ReceiveMigrate(p, t)
             \/ \E t \in Streams : ReadLoopFails(p, t)
      PROVE  OrderInv'
  BY <1>4, <1>6, Zenon DEF ReceiveAck, ReceiveMigrate, ReadLoopFails, local
<1>7. CASE \/ \E t \in Streams : AcceptResume(t)
           \/ BreakStream \/ ResumeDirect \/ DropRelay \/ ReconnectRelay \/ UNCHANGED vars
  BY <1>4, <1>7, Zenon
     DEF AcceptResume, BreakStream, ResumeDirect, DropRelay, ReconnectRelay, chan, local, vars
<1> QED  BY <1>1, <1>2, <1>3, <1>5, <1>6, <1>7, Zenon DEF Next, PeerStep

-----------------------------------------------------------------------------
(* Without a race an acknowledgement follows the queueing.                 *)

\* Every acknowledgement on its way to p in the network w is at most n.
AcksTo(w, p, n) == \A t \in Transports : AcksUpTo(w[t][p], n)

\* Acknowledgements of a concatenation are those of its parts.
LEMMA AcksConcat ==
  ASSUME NEW a \in Seq(Msg), NEW b \in Seq(Msg), NEW n, AcksUpTo(a, n), AcksUpTo(b, n)
  PROVE  AcksUpTo(a \o b, n)
<1> DEFINE c == a \o b
<1>1. /\ Len(c) = Len(a) + Len(b) /\ Len(a) \in Nat /\ Len(b) \in Nat
      /\ \A i \in 1 .. Len(a) + Len(b) : c[i] = IF i <= Len(a) THEN a[i] ELSE b[i - Len(a)]
  BY ConcatProperties
<1> HIDE DEF c
<1>2. AcksUpTo(c, n)
  <2> SUFFICES ASSUME NEW i \in 1 .. Len(c), c[i].type = "ack"
               PROVE  c[i].seq <= n
    BY Zenon DEF AcksUpTo
  <2>1. CASE i <= Len(a)
    <3>1. i \in 1 .. Len(a) /\ c[i] = a[i]
      BY <2>1, <1>1
    <3> QED  BY <3>1, Zenon DEF AcksUpTo
  <2>2. CASE ~(i <= Len(a))
    <3>1. i - Len(a) \in 1 .. Len(b) /\ c[i] = b[i - Len(a)]
      BY <2>2, <1>1
    <3> QED  BY <3>1, Zenon DEF AcksUpTo
  <2> QED  BY <2>1, <2>2, Zenon
<1> QED  BY <1>2, Zenon DEF c

\* Acknowledgements of a tail, and of a head, are those of the sequence.
LEMMA AcksTail ==
  ASSUME NEW a \in Seq(Msg), NEW n, AcksUpTo(a, n), a # <<>>
  PROVE  /\ AcksUpTo(Tail(a), n)
         /\ Head(a).type = "ack" => Head(a).seq <= n
<1>1. /\ Len(Tail(a)) = Len(a) - 1 /\ Len(a) \in Nat \ {0} /\ Head(a) = a[1]
      /\ \A i \in 1 .. Len(Tail(a)) : Tail(a)[i] = a[i + 1]
  BY HeadTailProperties, EmptySeq
<1>2. AcksUpTo(Tail(a), n)
  <2> SUFFICES ASSUME NEW i \in 1 .. Len(Tail(a)), Tail(a)[i].type = "ack"
               PROVE  Tail(a)[i].seq <= n
    BY Zenon DEF AcksUpTo
  <2>1. Tail(a)[i] = a[i + 1] /\ i + 1 \in 1 .. Len(a)
    BY <1>1
  <2> QED  BY <2>1, Zenon DEF AcksUpTo
<1>3. 1 \in 1 .. Len(a)
  BY <1>1
<1> QED  BY <1>1, <1>2, <1>3, Zenon DEF AcksUpTo

\* Sending messages whose acknowledgements are low keeps all of them low.
LEMMA AcksPush ==
  ASSUME NEW w \in WireType, NEW t \in Transports, NEW p \in Peers, NEW msgs \in Seq(Msg),
         NEW q \in Peers, NEW n, AcksTo(w, q, n), q = p => AcksUpTo(msgs, n)
  PROVE  AcksTo(Push(w, t, p, msgs), q, n)
<1>1. CASE t \in broken
  BY <1>1, Zenon DEF Push
<1>2. CASE t \notin broken
  <2> SUFFICES ASSUME NEW u \in Transports
               PROVE  AcksUpTo(Push(w, t, p, msgs)[u][q], n)
    BY Zenon DEF AcksTo
  <2>1. AcksUpTo(w[u][q], n) /\ w[u][q] \in Seq(Msg)
    BY Zenon DEF AcksTo, WireType
  <2>2. CASE u = t /\ q = p
    <3>1. Push(w, t, p, msgs)[u][q] = w[u][q] \o msgs
      BY <1>2, <2>2, Zenon DEF Push, WireType
    <3> QED  BY <3>1, <2>1, <2>2, AcksConcat, Zenon
  <2>3. CASE ~(u = t /\ q = p)
    <3>1. Push(w, t, p, msgs)[u][q] = w[u][q]
      BY <1>2, <2>3, Zenon DEF Push, WireType
    <3> QED  BY <3>1, <2>1, Zenon
  <2> QED  BY <2>2, <2>3, Zenon
<1> QED  BY <1>1, <1>2, Zenon

\* Receiving a message keeps the acknowledgements in flight low.
LEMMA AcksPop ==
  ASSUME wire \in WireType, NEW t \in Transports, NEW p \in Peers, wire[t][p] # <<>>,
         NEW q \in Peers, NEW n, AcksTo(wire, q, n)
  PROVE  AcksTo(Pop(t, p), q, n)
<1> SUFFICES ASSUME NEW u \in Transports
             PROVE  AcksUpTo(Pop(t, p)[u][q], n)
  BY Zenon DEF AcksTo
<1>1. AcksUpTo(wire[u][q], n) /\ wire[u][q] \in Seq(Msg)
  BY Zenon DEF AcksTo, WireType
<1>2. CASE u = t /\ q = p
  <2>1. Pop(t, p)[u][q] = Tail(wire[u][q])
    BY <1>2, Zenon DEF Pop, WireType
  <2> QED  BY <2>1, <1>1, <1>2, AcksTail, Zenon
<1>3. CASE ~(u = t /\ q = p)
  <2>1. Pop(t, p)[u][q] = wire[u][q]
    BY <1>3, Zenon DEF Pop, WireType
  <2> QED  BY <2>1, <1>1, Zenon
<1> QED  BY <1>2, <1>3, Zenon

\* Losing a transport keeps the acknowledgements in flight low.
LEMMA AcksClear ==
  ASSUME wire \in WireType, NEW t \in Transports, NEW q \in Peers, NEW n, AcksTo(wire, q, n)
  PROVE  AcksTo(Clear(t), q, n)
<1>1. \A u \in Transports : Clear(t)[u][q] = <<>> \/ Clear(t)[u][q] = wire[u][q]
  BY Zenon DEF Clear, WireType
<1>2. AcksUpTo(<<>>, n)
  BY DEF AcksUpTo
<1> QED  BY <1>1, <1>2, Zenon DEF AcksTo

\* Messages other than acknowledgements do not matter here.
LEMMA NoAcks ==
  ASSUME NEW n
  PROVE  /\ AcksUpTo(<<Migrate>>, n) /\ AcksUpTo(<<Resume>>, n)
         /\ \A s, v : AcksUpTo(<<Data(s, v)>>, n)
         /\ \A p, s, v : AcksUpTo(RelayData(p, Data(s, v)), n)
<1>1. Migrate.type # "ack" /\ Resume.type # "ack" /\ \A s, v : Data(s, v).type # "ack"
  BY Zenon DEF Migrate, Resume, Data
<1>2. \A m, x : /\ Len(<<m>>) = 1 /\ <<m>>[1] = m
                /\ Len(<<x, m>>) = 2 /\ <<x, m>>[1] = x /\ <<x, m>>[2] = m
  BY Zenon
<1>3. \A m : m.type # "ack" => AcksUpTo(<<m>>, n) /\ AcksUpTo(<<Resume, m>>, n)
  BY <1>1, <1>2 DEF AcksUpTo
<1> QED  BY <1>1, <1>3, Zenon DEF RelayData

\* Acknowledging a low number, over the current path or the fallback, keeps them low.
LEMMA AcksWriteAck ==
  ASSUME TypeOK, NEW p \in Peers, NEW s \in Nat, NEW w \in WireType, WriteAck(p, s, w),
         NEW q \in Peers, NEW n, AcksTo(w, q, n), q = Other(p) => s <= n
  PROVE  AcksTo(wire', q, n)
<1>1. writer[p] \in Transports /\ Relay \in Transports /\ Other(p) \in Peers
  BY MigrationAssumption, OtherPeer DEF TypeOK, Relay, Transports
<1>2. <<DataAck(s)>> \in Seq(Msg) /\ <<Migrate>> \in Seq(Msg)
  BY MsgType
<1>3. s <= n => AcksUpTo(<<DataAck(s)>>, n)
  BY DEF AcksUpTo, DataAck
<1>4. AcksTo(Push(w, writer[p], Other(p), <<DataAck(s)>>), q, n)
  BY <1>1, <1>2, <1>3, AcksPush, Zenon
<1>5. AcksTo(Push(w, Relay, Other(p), <<Migrate>>), q, n)
  BY <1>1, <1>2, NoAcks, AcksPush, Zenon
<1>6. \/ wire' = w
      \/ wire' = Push(w, writer[p], Other(p), <<DataAck(s)>>)
      \/ wire' = Push(w, Relay, Other(p), <<Migrate>>)
  BY Zenon DEF WriteAck
<1> QED  BY <1>4, <1>5, <1>6, Zenon

\* What AckInv says of one peer, n being the length of the other one's order.
AckedTo(w, sent, pend, p, n) ==
  AcksTo(w, p, n) /\ \A s \in 1 .. sent[p] : s \in pend[p] \/ s <= n

\* AckInv, peer by peer.
LEMMA AckInvDef ==
  AckInv <=> \A p \in Peers : ~raced[Other(p)] =>
               AckedTo(wire, sequence, pending, p, Len(order[Other(p)]))
BY Zenon DEF AckInv, AckedTo, AcksTo

\* AckInv', peer by peer.
LEMMA AckInvDefNext ==
  AckInv' <=> \A p \in Peers : ~raced'[Other(p)] =>
                AckedTo(wire', sequence', pending', p, Len(order'[Other(p)]))
BY Zenon DEF AckInv, AckedTo, AcksTo

\* A longer order covers the acknowledgements a shorter one covered.
LEMMA AcksMore ==
  ASSUME NEW w \in WireType, NEW p \in Peers, NEW n \in Nat, NEW m \in Nat, n <= m,
         AcksTo(w, p, n)
  PROVE  AcksTo(w, p, m)
<1> SUFFICES ASSUME NEW t \in Transports, NEW i \in 1 .. Len(w[t][p]), w[t][p][i].type = "ack"
             PROVE  w[t][p][i].seq <= m
  BY Zenon DEF AcksTo, AcksUpTo
<1>1. w[t][p] \in Seq(Msg)
  BY Zenon DEF WireType
<1>2. w[t][p][i] \in Msg
  BY <1>1, ElementOfSeq, Zenon
<1>3. w[t][p][i].seq \in Nat
  BY <1>2, Zenon DEF Msg
<1>4. w[t][p][i].seq <= n
  BY Zenon DEF AcksTo, AcksUpTo
<1> QED  BY <1>3, <1>4

\* An action that leaves order, sequence, pending and raced alone keeps AckInv
\* if it puts no acknowledgement in flight.
LEMMA AckFrame ==
  ASSUME AckInv, UNCHANGED <<order, sequence, pending, raced>>,
         \A q \in Peers : \A n : AcksTo(wire, q, n) => AcksTo(wire', q, n)
  PROVE  AckInv'
BY AckInvDef, AckInvDefNext, Zenon DEF AckedTo

\* A duplicate that is acknowledged again has been queued, no reader holding it.
LEMMA AckReceiveData ==
  ASSUME TypeOK, OrderInv, AckInv, NEW p \in Peers, NEW t \in Transports, ReceiveData(p, t)
  PROVE  AckInv'
<1> DEFINE m == Head(wire[t][p])
<1>a. wire \in WireType
  BY Zenon DEF TypeOK, WireType
<1>b. m \in Msg /\ m.seq \in Nat /\ wire[t][p] # <<>> /\ Pop(t, p) \in WireType
  BY PopType, Zenon DEF ReceiveData, Reading, Msg
<1>c. raced \in [Peers -> BOOLEAN] /\ raced' = [raced EXCEPT ![p] = @ \/ OthersHold(p, t)]
  BY Zenon DEF ReceiveData, TypeOK
<1>d. UNCHANGED <<order, sequence, pending>>
  BY Zenon DEF ReceiveData
<1>e. \/ wire' = Pop(t, p)
      \/ ~Accepts(p, m) /\ m.seq <= received[p] /\ WriteAck(p, m.seq, Pop(t, p))
  BY Zenon DEF ReceiveData
<1> HIDE DEF m
<1> SUFFICES ASSUME NEW q \in Peers, ~raced'[Other(q)]
             PROVE  AckedTo(wire', sequence', pending', q, Len(order'[Other(q)]))
  BY AckInvDefNext, Zenon
<1> DEFINE n == Len(order[Other(q)])
<1>1. ~raced[Other(q)] /\ (Other(q) = p => ~OthersHold(p, t))
  BY <1>c, OtherPeer, Zenon
<1>2. AckedTo(wire, sequence, pending, q, n)
  BY <1>1, AckInvDef, Zenon
<1>3. AcksTo(Pop(t, p), q, n)
  BY <1>2, <1>a, <1>b, AcksPop, Zenon DEF AckedTo
<1>4. AcksTo(wire', q, n)
  <2>1. CASE wire' = Pop(t, p)
    BY <2>1, <1>3, Zenon
  <2>2. CASE m.seq <= received[p] /\ WriteAck(p, m.seq, Pop(t, p))
    <3>1. ASSUME q = Other(p)
          PROVE  m.seq <= n
      <4>1. Other(q) = p
        BY <3>1, OtherPeer, Zenon
      <4>2. Ordered(held[p], order[p], received[p], queue[p])
        BY <4>1, <1>1, Zenon DEF OrderInv
      <4>3. \A u \in Transports : held[p][u] = <<>>
        BY <4>1, <1>1, Zenon DEF OthersHold, ReceiveData, Reading
      <4>4. received[p] = Len(order[p])
        BY <4>2, <4>3, Zenon DEF Ordered
      <4> QED  BY <4>1, <4>4, <2>2, Zenon
    <3> HIDE DEF n
    <3> QED  BY <3>1, <2>2, <1>3, <1>b, AcksWriteAck, Zenon
  <2> QED  BY <2>1, <2>2, <1>e, Zenon
<1> QED  BY <1>2, <1>4, <1>d, Zenon DEF AckedTo

\* What the forwarding loop acknowledges came out of the queue.
LEMMA AckLocalWrite ==
  ASSUME TypeOK, OrderInv, AckInv, NEW p \in Peers, LocalWrite(p)
  PROVE  AckInv'
<1> DEFINE m == Head(queue[p])
<1>a. wire \in WireType
  BY Zenon DEF TypeOK, WireType
<1>b. queue[p] \in Seq(Msg) /\ queue[p] # <<>> /\ order[p] \in Seq(Nat)
  BY Zenon DEF LocalWrite, TypeOK
<1>c. m \in Msg /\ m.seq \in Nat
  <2>1. m \in Msg
    BY <1>b
  <2> QED  BY <2>1, Zenon DEF Msg
<1>d. UNCHANGED <<order, sequence, pending, raced>>
  BY Zenon DEF LocalWrite
<1>e. wire' = wire \/ WriteAck(p, m.seq, wire)
  BY Zenon DEF LocalWrite
<1> HIDE DEF m
<1> SUFFICES ASSUME NEW q \in Peers, ~raced'[Other(q)]
             PROVE  AckedTo(wire', sequence', pending', q, Len(order'[Other(q)]))
  BY AckInvDefNext, Zenon
<1> DEFINE n == Len(order[Other(q)])
<1>1. AckedTo(wire, sequence, pending, q, n)
  BY <1>d, AckInvDef, Zenon
<1>2. AcksTo(wire', q, n)
  <2>1. CASE wire' = wire
    BY <2>1, <1>1, Zenon DEF AckedTo
  <2>2. CASE WriteAck(p, m.seq, wire)
    <3>1. ASSUME q = Other(p)
          PROVE  m.seq <= n
      <4>1. Other(q) = p
        BY <3>1, OtherPeer, Zenon
      <4>2. Ordered(held[p], order[p], received[p], queue[p])
        BY <4>1, <1>d, Zenon DEF OrderInv
      <4>3. Head(queue[p]).seq <= Len(order[p])
        BY <4>2, <1>b, OrderedWrite, Zenon
      <4> QED  BY <4>1, <4>3, Zenon DEF m
    <3>2. AcksTo(wire, q, n)
      BY <1>1, Zenon DEF AckedTo
    <3> HIDE DEF n
    <3> QED  BY <3>1, <3>2, <2>2, <1>a, <1>c, AcksWriteAck, Zenon
  <2> QED  BY <2>1, <2>2, <1>e, Zenon
<1> QED  BY <1>1, <1>2, <1>d, Zenon DEF AckedTo

\* Queueing only extends the order.
LEMMA AckEnqueue ==
  ASSUME TypeOK, AckInv, NEW p \in Peers, NEW t \in Transports, Enqueue(p, t)
  PROVE  AckInv'
<1>a. wire \in WireType /\ order \in [Peers -> Seq(Nat)]
  BY Zenon DEF TypeOK, WireType
<1>b. UNCHANGED <<wire, sequence, pending, raced>>
  BY Zenon DEF Enqueue
<1>c. PICK s : order' = order \/ order' = [order EXCEPT ![p] = Append(order[p], s)]
  BY Zenon DEF Enqueue
<1> SUFFICES ASSUME NEW q \in Peers, ~raced'[Other(q)]
             PROVE  AckedTo(wire', sequence', pending', q, Len(order'[Other(q)]))
  BY AckInvDefNext, Zenon
<1>1. AckedTo(wire, sequence, pending, q, Len(order[Other(q)]))
  BY <1>b, AckInvDef, Zenon
<1>2. PICK n \in Nat : n = Len(order[Other(q)])
  BY <1>a, OtherPeer
<1>3. PICK k \in Nat : k = Len(order'[Other(q)]) /\ n <= k
  <2>1. order'[Other(q)] = order[Other(q)] \/ order'[Other(q)] = Append(order[Other(q)], s)
    BY <1>a, <1>c, OtherPeer, Zenon
  <2>2. Len(Append(order[Other(q)], s)) = n + 1
    BY <1>2, <1>a, OtherPeer
  <2> QED  BY <2>1, <2>2, <1>2
<1>4. AcksTo(wire, q, k)
  BY <1>1, <1>2, <1>3, <1>a, AcksMore, Zenon DEF AckedTo
<1>5. sequence[q] \in Nat
  BY Zenon DEF TypeOK
<1>6. \A x \in 1 .. sequence[q] : x \in pending[q] \/ x <= k
  BY <1>1, <1>2, <1>3, <1>5 DEF AckedTo
<1> QED  BY <1>3, <1>4, <1>6, <1>b, Zenon DEF AckedTo

\* A number enters pending in the step that assigns it.
LEMMA AckWriteData ==
  ASSUME TypeOK, AckInv, NEW p \in Peers, WriteData(p)
  PROVE  AckInv'
<1> DEFINE v == IF retrying[p] THEN written[p] ELSE written[p] + 1
           s == IF migration[p] THEN sequence[p] + 1 ELSE 0
<1>a. wire \in WireType /\ sequence \in [Peers -> Nat] /\ pending \in [Peers -> SUBSET Nat]
  BY Zenon DEF TypeOK, WireType
<1>b. v \in Nat /\ s \in Nat
  BY DEF TypeOK
<1>c. writer[p] \in Transports /\ Relay \in Transports /\ Other(p) \in Peers
  BY MigrationAssumption, OtherPeer DEF TypeOK, Relay, Transports
<1>d. UNCHANGED <<order, raced>>
  BY Zenon DEF WriteData
<1>e. \/ UNCHANGED <<sequence, pending>>
      \/ /\ sequence' = [sequence EXCEPT ![p] = sequence[p] + 1]
         /\ pending' = [pending EXCEPT ![p] = pending[p] \cup {sequence[p] + 1}]
  BY Zenon DEF WriteData
<1>f. \/ wire' = wire
      \/ \E u \in Transports :
           \/ wire' = Push(wire, u, Other(p), <<Migrate>>)
           \/ wire' = Push(wire, u, Other(p), <<Data(s, v)>>)
           \/ wire' = Push(wire, u, Other(p), RelayData(p, Data(s, v)))
  BY <1>c, Zenon DEF WriteData
<1> HIDE DEF s, v
<1>1. Data(s, v) \in Msg /\ Migrate \in Msg /\ Resume \in Msg
  BY <1>b, MsgType, Zenon
<1>2. /\ <<Migrate>> \in Seq(Msg) /\ <<Data(s, v)>> \in Seq(Msg)
      /\ RelayData(p, Data(s, v)) \in Seq(Msg)
  BY <1>1 DEF RelayData
<1>3. ASSUME NEW q \in Peers, NEW n, AcksTo(wire, q, n)
      PROVE  AcksTo(wire', q, n)
  <2>1. /\ AcksUpTo(<<Migrate>>, n) /\ AcksUpTo(<<Data(s, v)>>, n)
        /\ AcksUpTo(RelayData(p, Data(s, v)), n)
    BY NoAcks, Zenon
  <2> QED  BY <1>3, <2>1, <1>2, <1>a, <1>c, <1>f, AcksPush, Zenon
<1> SUFFICES ASSUME NEW q \in Peers, ~raced'[Other(q)]
             PROVE  AckedTo(wire', sequence', pending', q, Len(order'[Other(q)]))
  BY AckInvDefNext, Zenon
<1> DEFINE n == Len(order[Other(q)])
<1>4. AckedTo(wire, sequence, pending, q, n)
  BY <1>d, AckInvDef, Zenon
<1>5. AcksTo(wire', q, n)
  BY <1>3, <1>4, Zenon DEF AckedTo
<1>6. \A x \in 1 .. sequence[q] : x \in pending[q] \/ x <= n
  BY <1>4, Zenon DEF AckedTo
<1> HIDE DEF n
<1>7. \A x \in 1 .. sequence'[q] : x \in pending'[q] \/ x <= n
  <2>1. CASE UNCHANGED <<sequence, pending>>
    BY <2>1, <1>6, Zenon
  <2>2. CASE /\ sequence' = [sequence EXCEPT ![p] = sequence[p] + 1]
             /\ pending' = [pending EXCEPT ![p] = pending[p] \cup {sequence[p] + 1}]
    <3>1. CASE q = p
      <4>1. sequence'[q] = sequence[q] + 1 /\ pending'[q] = pending[q] \cup {sequence[q] + 1}
        BY <3>1, <2>2, <1>a, Zenon
      <4>2. sequence[q] \in Nat
        BY <1>a, Zenon
      <4> QED  BY <4>1, <4>2, <1>6
    <3>2. CASE q # p
      BY <3>2, <2>2, <1>a, <1>6, Zenon
    <3> QED  BY <3>1, <3>2, Zenon
  <2> QED  BY <2>1, <2>2, <1>e, Zenon
<1> QED  BY <1>5, <1>7, <1>d, Zenon DEF AckedTo, n

\* A number leaves pending on an acknowledgement, which covers a queued message.
LEMMA AckReceiveAck ==
  ASSUME TypeOK, AckInv, NEW p \in Peers, NEW t \in Transports, ReceiveAck(p, t)
  PROVE  AckInv'
<1> DEFINE a == Head(wire[t][p]).seq
<1>a. wire \in WireType /\ pending \in [Peers -> SUBSET Nat]
  BY Zenon DEF TypeOK, WireType
<1>b. wire[t][p] # <<>> /\ Head(wire[t][p]).type = "ack" /\ wire' = Pop(t, p)
  BY Zenon DEF ReceiveAck, Reading
<1>c. pending' = [pending EXCEPT ![p] = pending[p] \ {a}]
  BY Zenon DEF ReceiveAck
<1>d. UNCHANGED <<order, raced, sequence>>
  BY Zenon DEF ReceiveAck
<1> SUFFICES ASSUME NEW q \in Peers, ~raced'[Other(q)]
             PROVE  AckedTo(wire', sequence', pending', q, Len(order'[Other(q)]))
  BY AckInvDefNext, Zenon
<1> DEFINE n == Len(order[Other(q)])
<1>1. AckedTo(wire, sequence, pending, q, n)
  BY <1>d, AckInvDef, Zenon
<1>2. AcksTo(wire, q, n) /\ \A x \in 1 .. sequence[q] : x \in pending[q] \/ x <= n
  BY <1>1, Zenon DEF AckedTo
<1> HIDE DEF n
<1>3. AcksTo(wire', q, n)
  BY <1>2, <1>a, <1>b, AcksPop, Zenon
<1>4. q = p => a <= n
  <2>1. wire[t][p] \in Seq(Msg)
    BY <1>a, Zenon DEF WireType
  <2>2. q = p => AcksUpTo(wire[t][p], n)
    BY <1>2, Zenon DEF AcksTo
  <2> QED  BY <2>1, <2>2, <1>b, AcksTail, Zenon
<1> HIDE DEF a
<1>5. pending'[q] = IF q = p THEN pending[q] \ {a} ELSE pending[q]
  BY <1>a, <1>c, Zenon
<1>6. \A x \in 1 .. sequence[q] : x \in pending'[q] \/ x <= n
  BY <1>2, <1>4, <1>5, Zenon
<1> QED  BY <1>3, <1>6, <1>d, Zenon DEF AckedTo, n

\* The acknowledgement written after a replay is the one LockInv speaks of.
LEMMA AckFinishWrite ==
  ASSUME TypeOK, AckInv, LockInv, NEW p \in Peers, FinishWrite(p)
  PROVE  AckInv'
<1>a. wire \in WireType /\ lock[p] \in Seq(Msg) /\ writer[p] \in Transports /\ Other(p) \in Peers
  BY OtherPeer, Zenon DEF TypeOK, WireType
<1>b. UNCHANGED <<order, sequence, pending, raced>>
  BY Zenon DEF FinishWrite, chan
<1>c. wire' = wire \/ wire' = Push(wire, writer[p], Other(p), lock[p])
  BY Zenon DEF FinishWrite
<1> SUFFICES ASSUME NEW q \in Peers, ~raced'[Other(q)]
             PROVE  AckedTo(wire', sequence', pending', q, Len(order'[Other(q)]))
  BY AckInvDefNext, Zenon
<1> DEFINE n == Len(order[Other(q)])
<1>1. AckedTo(wire, sequence, pending, q, n)
  BY <1>b, AckInvDef, Zenon
<1>2. q = Other(p) => AcksUpTo(lock[p], n)
  BY <1>b, OtherPeer, Zenon DEF LockInv
<1> HIDE DEF n
<1>3. AcksTo(wire', q, n)
  BY <1>1, <1>2, <1>a, <1>c, AcksPush, Zenon DEF AckedTo
<1> QED  BY <1>1, <1>3, <1>b, Zenon DEF AckedTo, n

\* Every step keeps AckInv.
LEMMA AckStep ==
  ASSUME TypeOK, AssignedInv, OrderInv, AckInv, LockInv, [Next]_vars
  PROVE  AckInv'
<1>a. /\ Relay \in Transports /\ Streams \subseteq Transports
      /\ Dialer \in Peers /\ Acceptor \in Peers
      /\ opened \in Transports /\ wire \in WireType
  <2>1. Relay \in Transports /\ Streams \subseteq Transports
    BY MigrationAssumption DEF Relay, Transports, Streams
  <2>2. opened \in Transports /\ wire \in WireType
    BY Zenon DEF TypeOK, WireType
  <2> QED  BY <2>1, <2>2, Zenon DEF Peers
<1>b. <<Migrate>> \in Seq(Msg) /\ <<Resume>> \in Seq(Msg)
  BY MsgType
<1>1. ASSUME NEW p \in Peers, NEW t \in Replayers, ReplayPending(p, t)
      PROVE  AckInv'
  <2> DEFINE dest == IF t = Agent THEN opened ELSE Relay
  <2>1. UNCHANGED <<order, sequence, pending, raced>>
    BY <1>1, Zenon DEF ReplayPending, chan
  <2>2. PICK s \in replay[p][t] :
          wire' = wire \/ wire' = Push(wire, dest, Other(p), <<Data(s, stamp[p][s])>>)
    BY <1>1, Zenon DEF ReplayPending
  <2>3. dest \in Transports /\ Other(p) \in Peers
    BY <1>a, OtherPeer, Zenon
  <2>4. s \in 1 .. Len(stamp[p]) /\ stamp[p] \in Seq(Nat)
    <3>1. replay[p][t] \subseteq 1 .. sequence[p] /\ Len(stamp[p]) = sequence[p]
      BY Zenon DEF AssignedInv
    <3>2. stamp[p] \in Seq(Nat)
      BY Zenon DEF TypeOK
    <3> QED  BY <3>1, <3>2, Zenon
  <2>5. s \in Nat /\ stamp[p][s] \in Nat
    BY <2>4, ElementOfSeq
  <2>6. <<Data(s, stamp[p][s])>> \in Seq(Msg)
    BY <2>5, MsgType
  <2> HIDE DEF dest
  <2>7. ASSUME NEW q \in Peers, NEW n, AcksTo(wire, q, n)
        PROVE  AcksTo(wire', q, n)
    <3>1. AcksUpTo(<<Data(s, stamp[p][s])>>, n)
      BY NoAcks, Zenon
    <3> QED  BY <2>7, <3>1, <2>2, <2>3, <2>6, <1>a, AcksPush, Zenon
  <2> QED  BY <2>1, <2>7, AckFrame, Zenon
<1>2. ASSUME UNCHANGED <<order, sequence, pending, raced>>,
             NEW p \in Peers, NEW t \in Transports, wire[t][p] # <<>>, wire' = Pop(t, p)
      PROVE  AckInv'
  BY <1>2, <1>a, AcksPop, AckFrame, Zenon
<1>3. ASSUME UNCHANGED <<order, sequence, pending, raced>>,
             NEW t \in Transports, wire' = Clear(t)
      PROVE  AckInv'
  BY <1>3, <1>a, AcksClear, AckFrame, Zenon
<1>4. ASSUME UNCHANGED <<order, sequence, pending, raced>>,
             NEW p \in Peers, NEW t \in Transports, NEW m, m \in {Migrate, Resume},
             wire' = Push(wire, t, p, <<m>>)
      PROVE  AckInv'
  <2>1. ASSUME NEW q \in Peers, NEW n, AcksTo(wire, q, n)
        PROVE  AcksTo(wire', q, n)
    <3>1. AcksUpTo(<<m>>, n) /\ <<m>> \in Seq(Msg)
      BY <1>4, <1>b, NoAcks, Zenon
    <3> QED  BY <1>4, <2>1, <3>1, <1>a, AcksPush, Zenon
  <2> QED  BY <1>4, <2>1, AckFrame, Zenon
<1>5. ASSUME UNCHANGED <<order, sequence, pending, raced>>, wire' = wire
      PROVE  AckInv'
  BY <1>5, AckFrame, Zenon
<1>6. ASSUME NEW p \in Peers, NEW t \in Transports, ReceiveMigrate(p, t)
      PROVE  AckInv'
  <2>1. wire[t][p] # <<>> /\ wire' = Pop(t, p) /\ UNCHANGED <<order, sequence, pending, raced>>
    BY <1>6, Zenon DEF ReceiveMigrate, Reading
  <2> QED  BY <2>1, <1>2, Zenon
<1>7. ASSUME NEW p \in Peers, ReceiveResume(p)
      PROVE  AckInv'
  <2>1. wire[Relay][p] # <<>> /\ wire' = Pop(Relay, p) /\ UNCHANGED <<order, sequence, pending, raced>>
    BY <1>7, Zenon DEF ReceiveResume, Reading
  <2> QED  BY <2>1, <1>2, <1>a, Zenon
<1>8. ASSUME NEW p \in Peers, NEW t \in Streams, ReadLoopFails(p, t)
      PROVE  AckInv'
  <2>1. UNCHANGED <<order, sequence, pending, raced>>
    BY <1>8, Zenon DEF ReadLoopFails
  <2>2. wire' = wire \/ wire' = Push(wire, Relay, Other(p), <<Migrate>>)
    BY <1>8, Zenon DEF ReadLoopFails
  <2>3. Other(p) \in Peers
    BY OtherPeer, Zenon
  <2> QED  BY <2>1, <2>2, <2>3, <1>4, <1>5, <1>a, Zenon
<1>9. ASSUME NEW t \in Streams, AcceptResume(t)
      PROVE  AckInv'
  <2>1. wire[t][Acceptor] # <<>> /\ wire' = Pop(t, Acceptor)
    BY <1>9, Zenon DEF AcceptResume
  <2>2. UNCHANGED <<order, sequence, pending, raced>>
    BY <1>9, Zenon DEF AcceptResume
  <2>3. t \in Transports
    BY <1>a, Zenon
  <2> QED  BY <2>1, <2>2, <2>3, <1>2, <1>a, Zenon
<1>10. ASSUME ResumeDirect
       PROVE  AckInv'
  <2>1. UNCHANGED <<order, sequence, pending, raced>>
    BY <1>10, Zenon DEF ResumeDirect
  <2>2. wire' = Push(wire, opened + 1, Acceptor, <<Resume>>)
    BY <1>10, Zenon DEF ResumeDirect
  <2>3. opened + 1 \in Transports
    BY <1>10, <1>a, MigrationAssumption DEF ResumeDirect, Transports
  <2> QED  BY <2>1, <2>2, <2>3, <1>4, <1>a, Zenon
<1>11. ASSUME ReconnectRelay
       PROVE  AckInv'
  <2>1. UNCHANGED <<order, sequence, pending, raced>>
    BY <1>11, Zenon DEF ReconnectRelay, chan
  <2>2. wire' = wire \/ wire' = Push(wire, Relay, Acceptor, <<Resume>>)
    BY <1>11, Zenon DEF ReconnectRelay
  <2> QED  BY <2>1, <2>2, <1>4, <1>5, <1>a, Zenon
<1>12. ASSUME BreakStream \/ DropRelay
       PROVE  AckInv'
  <2>1. UNCHANGED <<order, sequence, pending, raced>>
    BY <1>12, Zenon DEF BreakStream, DropRelay, chan
  <2>2. wire' = Clear(opened) \/ wire' = Clear(Relay)
    BY <1>12, Zenon DEF BreakStream, DropRelay
  <2> QED  BY <2>1, <2>2, <1>3, <1>a, Zenon
<1>13. ASSUME UNCHANGED vars
       PROVE  AckInv'
  <2>1. UNCHANGED <<order, sequence, pending, raced>> /\ wire' = wire
    BY <1>13, Zenon DEF vars
  <2> QED  BY <2>1, <1>5, Zenon
<1> QED
  BY <1>1, <1>6, <1>7, <1>8, <1>9, <1>10, <1>11, <1>12, <1>13, AckReceiveData, AckLocalWrite,
     AckEnqueue, AckWriteData, AckReceiveAck, AckFinishWrite, Zenon DEF Next, PeerStep

\* A step that replaces what one peer's writer holds by an acknowledgement of queued
\* data, by another message or by nothing keeps LockInv; the order only grows.
LEMMA LockFrame ==
  ASSUME TypeOK, LockInv, NEW p \in Peers, NEW m \in Seq(Msg),
         lock' = lock \/ lock' = [lock EXCEPT ![p] = m],
         ~raced'[p] => AcksUpTo(m, Len(order[p])),
         UNCHANGED order, \A q \in Peers : raced[q] => raced'[q]
  PROVE  LockInv'
<1>1. lock \in [Peers -> Seq(Msg)]
  BY Zenon DEF TypeOK
<1>2. \A q \in Peers : lock'[q] = lock[q] \/ (q = p /\ lock'[q] = m)
  BY <1>1, Zenon
<1> QED  BY <1>2, Zenon DEF LockInv

\* Every step keeps LockInv: a writer that falls back acknowledges queued data.
LEMMA LockStep ==
  ASSUME TypeOK, OrderInv, LockInv, [Next]_vars
  PROVE  LockInv'
<1>a. /\ lock \in [Peers -> Seq(Msg)] /\ raced \in [Peers -> BOOLEAN]
      /\ order \in [Peers -> Seq(Nat)]
  BY Zenon DEF TypeOK
<1>b. \A n : AcksUpTo(<<>>, n)
  BY DEF AcksUpTo
<1>c. \A s, n : s <= n => AcksUpTo(<<DataAck(s)>>, n)
  BY DEF AcksUpTo, DataAck
<1>1. ASSUME NEW p \in Peers, NEW t \in Transports, ReceiveData(p, t)
      PROVE  LockInv'
  <2> DEFINE m == Head(wire[t][p])
  <2>1. m.seq \in Nat
    BY <1>1, PopType, Zenon DEF ReceiveData, Reading, Msg
  <2>2. raced' = [raced EXCEPT ![p] = @ \/ OthersHold(p, t)] /\ UNCHANGED order
    BY <1>1, Zenon DEF ReceiveData
  <2>3. \/ lock' = lock
        \/ m.seq <= received[p] /\ lock' = [lock EXCEPT ![p] = <<DataAck(m.seq)>>]
    BY <1>1, Zenon DEF ReceiveData, WriteAck
  <2> HIDE DEF m
  <2>4. \A q \in Peers : raced[q] => raced'[q]
    BY <2>2, <1>a, Zenon
  <2>5. ASSUME m.seq <= received[p], ~raced'[p]
        PROVE  AcksUpTo(<<DataAck(m.seq)>>, Len(order[p]))
    <3>1. ~raced[p] /\ ~OthersHold(p, t)
      BY <2>5, <2>2, <1>a, Zenon
    <3>2. Ordered(held[p], order[p], received[p], queue[p])
      BY <3>1, Zenon DEF OrderInv
    <3>3. \A u \in Transports : held[p][u] = <<>>
      BY <3>1, <1>1, Zenon DEF OthersHold, ReceiveData, Reading
    <3>4. received[p] = Len(order[p])
      BY <3>2, <3>3, Zenon DEF Ordered
    <3> QED  BY <2>5, <3>4, <1>c, Zenon
  <2>6. <<DataAck(m.seq)>> \in Seq(Msg)
    BY <2>1, MsgType
  <2>7. CASE lock' = lock
    BY <2>7, <2>2, <2>4, Zenon DEF LockInv
  <2>8. CASE m.seq <= received[p] /\ lock' = [lock EXCEPT ![p] = <<DataAck(m.seq)>>]
    BY <2>8, <2>2, <2>4, <2>5, <2>6, LockFrame, Zenon
  <2> QED  BY <2>3, <2>7, <2>8, Zenon
<1>2. ASSUME NEW p \in Peers, LocalWrite(p)
      PROVE  LockInv'
  <2> DEFINE m == Head(queue[p])
  <2>1. queue[p] \in Seq(Msg) /\ queue[p] # <<>>
    BY <1>2, Zenon DEF LocalWrite, TypeOK
  <2>2. m \in Msg
    BY <2>1
  <2>3. m.seq \in Nat
    BY <2>2, Zenon DEF Msg
  <2>4. UNCHANGED <<order, raced>>
    BY <1>2, Zenon DEF LocalWrite
  <2>5. lock' = lock \/ lock' = [lock EXCEPT ![p] = <<DataAck(m.seq)>>]
    BY <1>2, Zenon DEF LocalWrite, WriteAck
  <2>6. ASSUME ~raced'[p]
        PROVE  m.seq <= Len(order[p])
    <3>1. Ordered(held[p], order[p], received[p], queue[p])
      BY <2>4, <2>6, Zenon DEF OrderInv
    <3> QED  BY <3>1, <2>1, <1>a, OrderedWrite, Zenon
  <2> HIDE DEF m
  <2>7. <<DataAck(m.seq)>> \in Seq(Msg)
    BY <2>3, MsgType
  <2> QED  BY <2>4, <2>5, <2>6, <2>7, <1>c, LockFrame, Zenon
<1>3. ASSUME NEW p \in Peers, WriteData(p)
      PROVE  LockInv'
  <2> DEFINE v == IF retrying[p] THEN written[p] ELSE written[p] + 1
             s == IF migration[p] THEN sequence[p] + 1 ELSE 0
  <2>a. s \in Nat /\ v \in Nat
    <3>1. written[p] \in Nat /\ sequence[p] \in Nat
      BY Zenon DEF TypeOK
    <3> QED  BY <3>1
  <2>1. lock' = lock \/ lock' = [lock EXCEPT ![p] = <<Data(s, v)>>]
    BY <1>3, Zenon DEF WriteData
  <2> HIDE DEF s, v
  <2>2. <<Data(s, v)>> \in Seq(Msg)
    BY <2>a, MsgType
  <2>3. UNCHANGED <<order, raced>>
    BY <1>3, Zenon DEF WriteData
  <2> QED  BY <2>1, <2>2, <2>3, NoAcks, LockFrame, Zenon
<1>4. ASSUME NEW p \in Peers, FinishWrite(p) \/ \E t \in Replayers : ReplayPending(p, t)
      PROVE  LockInv'
  <2>1. \A q \in Peers : lock'[q] = lock[q] \/ lock'[q] = <<>>
    BY <1>4, <1>a, Zenon DEF FinishWrite, ReplayPending
  <2>2. UNCHANGED <<order, raced>>
    BY <1>4, Zenon DEF FinishWrite, ReplayPending
  <2> QED  BY <2>1, <2>2, <1>b, Zenon DEF LockInv
<1>5. ASSUME NEW p \in Peers, NEW t \in Transports, Enqueue(p, t)
      PROVE  LockInv'
  <2>1. UNCHANGED <<lock, raced>>
    BY <1>5, Zenon DEF Enqueue
  <2>2. PICK s : order' = order \/ order' = [order EXCEPT ![p] = Append(order[p], s)]
    BY <1>5, Zenon DEF Enqueue
  <2>3. ASSUME NEW q \in Peers, ~raced'[q]
        PROVE  AcksUpTo(lock'[q], Len(order'[q]))
    <3>1. AcksUpTo(lock[q], Len(order[q]))
      BY <2>1, <2>3, Zenon DEF LockInv
    <3>2. order'[q] = order[q] \/ order'[q] = Append(order[q], s)
      BY <2>2, <1>a, Zenon
    <3>3. order[q] \in Seq(Nat) /\ lock[q] \in Seq(Msg)
      BY <1>a, Zenon
    <3>4. Len(Append(order[q], s)) = Len(order[q]) + 1 /\ Len(order[q]) \in Nat
      BY <3>3
    <3>5. Len(order'[q]) \in Nat /\ Len(order[q]) <= Len(order'[q])
      BY <3>2, <3>4
    <3>6. \A i \in 1 .. Len(lock[q]) : lock[q][i].seq \in Nat
      <4>1. \A i \in 1 .. Len(lock[q]) : lock[q][i] \in Msg
        BY <3>3, ElementOfSeq, Zenon
      <4> QED  BY <4>1, Zenon DEF Msg
    <3> QED  BY <3>1, <3>4, <3>5, <3>6, <2>1 DEF AcksUpTo
  <2> QED  BY <2>3, Zenon DEF LockInv
<1>6. ASSUME UNCHANGED <<lock, order, raced>>
      PROVE  LockInv'
  BY <1>6, Zenon DEF LockInv
<1>7. CASE \/ \E p \in Peers : \/ ReceiveResume(p)
                               \/ \E t \in Transports : ReceiveAck(p, t) \/ ReceiveMigrate(p, t)
                               \/ \E t \in Streams : ReadLoopFails(p, t)
           \/ \E t \in Streams : AcceptResume(t)
           \/ BreakStream \/ ResumeDirect \/ DropRelay \/ ReconnectRelay \/ UNCHANGED vars
  BY <1>6, <1>7, Zenon DEF ReceiveResume, ReceiveAck, ReceiveMigrate, ReadLoopFails, AcceptResume,
                    BreakStream, ResumeDirect, DropRelay, ReconnectRelay, vars
<1> QED  BY <1>1, <1>2, <1>3, <1>4, <1>5, <1>7, Zenon DEF Next, PeerStep

-----------------------------------------------------------------------------
\* The invariant is inductive.
LEMMA InvStep ==
  ASSUME IInv, [Next]_vars
  PROVE  IInv'
<1>1. TypeOK /\ AssignedInv /\ AcceptedInv /\ OrderInv /\ AckInv /\ LockInv
  BY Zenon DEF IInv
<1> QED  BY <1>1, TypeStep, AssignedStep, AcceptedStep, OrderStep, AckStep, LockStep, Zenon DEF IInv

\* The inductive invariant holds in every reachable state of the channel, for every
\* number of streams, link losses and payloads and every queue capacity.
THEOREM Invariance == Spec => []IInv
<1>1. IInv /\ [Next]_vars => IInv'
  BY InvStep, Zenon
<1> QED  BY InitInv, <1>1, PTL DEF Spec

\* Every variable keeps its type; in particular rejectData never takes the
\* duplicate filter's counter, a uint64 in channel.go, below zero.
THEOREM TypeCorrect == Spec => []TypeOK
<1>1. IInv => TypeOK
  BY Zenon DEF IInv
<1> QED  BY Invariance, <1>1, PTL

\* However acceptData, rejectData and the replays of channel.go interleave over both
\* transports, no numbered message enters the queue of a channel twice.
THEOREM QueuedOnceHolds == Spec => []QueuedOnce
<1>1. IInv => QueuedOnce
  BY Zenon DEF IInv, AcceptedInv, Accepted, QueuedOnce
<1> QED  BY Invariance, <1>1, PTL

\* Unless two readers of deliverDataMessage overlapped, numbered messages enter the
\* queue in the order WriteMessage numbered them and without a hole.
THEOREM QueuedInOrderHolds == Spec => []QueuedInOrder
<1>1. IInv => QueuedInOrder
  BY Zenon DEF IInv, OrderInv, Ordered, QueuedInOrder
<1> QED  BY Invariance, <1>1, PTL

\* Unless two readers of the peer overlapped, acknowledge drops a message from the
\* pending map only when the peer has it in its queue.
THEOREM AckedMeansQueuedHolds == Spec => []AckedMeansQueued
<1>1. ASSUME IInv
      PROVE  AckedMeansQueued
  <2> SUFFICES ASSUME NEW p \in Peers, ~raced[Other(p)], NEW s \in 1 .. sequence[p],
                      s \notin pending[p]
               PROVE  \E i \in 1 .. Len(order[Other(p)]) : order[Other(p)][i] = s
    BY Zenon DEF AckedMeansQueued
  <2>1. s <= Len(order[Other(p)]) /\ sequence[p] \in Nat
    BY <1>1, Zenon DEF IInv, AckInv, TypeOK
  <2>2. \A i \in 1 .. Len(order[Other(p)]) : order[Other(p)][i] = i
    BY <1>1, OtherPeer, Zenon DEF IInv, OrderInv, Ordered
  <2>3. Len(order[Other(p)]) \in Nat
    BY <1>1, OtherPeer DEF IInv, TypeOK
  <2>4. s \in 1 .. Len(order[Other(p)])
    BY <2>1, <2>3
  <2> QED  BY <2>2, <2>4, Zenon
<1> QED  BY Invariance, <1>1, PTL
=============================================================================
