---------------------------- MODULE ZoneStreams ----------------------------
(***************************************************************************)
(* TCP streams between two members of a zone.  A member that accepts a     *)
(* SOCKS connection opens a stream, the other member dials its local       *)
(* service, and each end runs a loop from its local connection to the      *)
(* coordinator's WebSocket and a loop from its queue to the connection.    *)
(* The member's single read loop feeds all queues.                         *)
(*                                                                         *)
(* zone/streams.go  frameQueue, streamTable, zoneStream                    *)
(* zone/client.go   serve, handleStream, handleOpen, openStream            *)
(* zone/socks.go    handleConnect                                          *)
(*                                                                         *)
(* Each member has at most one stream it opened ("out") and one it         *)
(* terminates ("in").  A payload is named by the end that read it and its  *)
(* number there.                                                           *)
(***************************************************************************)
EXTENDS Naturals, Sequences

CONSTANTS Members,     \* two members
          QueueLimit,  \* streamQueueLimit, in payloads
          MaxId,       \* bound on stream IDs
          Plans        \* what the environment may do, see Plan

Objects == {"out", "in"}

\* One scenario: the members whose SOCKS proxy gets a connection, the initial
\* values of streamTable.next, the payloads each end reads at most, the
\* members whose applications may end and those that may lose their connection.
Plan == [openers : SUBSET Members, seeds : [Members -> 0..MaxId], reads : [Members -> [Objects -> Nat]],
         apps : SUBSET Members, losses : SUBSET Members]

ASSUME ZoneStreamsAssumption ==
  /\ \E m, n \in Members : m # n /\ Members = {m, n}
  /\ QueueLimit \in Nat \ {0} /\ MaxId \in Nat \ {0}
  /\ Plans \subseteq Plan

Ids == 1..MaxId
Other(m) == CHOOSE n \in Members : n # m
Peer(o) == IF o = "out" THEN "in" ELSE "out"

VARIABLES
  plan,     \* the scenario of this behaviour
  ends,     \* ends[m][o]: a stream's end with its local connection and loops
  next,     \* streamTable.next
  handler,  \* handler[m]: the SOCKS handler of m's connection
  serve,    \* serve[m]: what m's read loop is doing
  ws,       \* ws[m]: m's WebSocket is "up" or "lost"
  peers,    \* peers[m]: m's roster holds the other member
  allowed,  \* allowed[m]: m's rules allow the streams
  net       \* net[m]: messages on their way to m

vars == <<plan, ends, next, handler, serve, ws, peers, allowed, net>>

Payloads == Members \X Objects \X Nat

\* zoneStream, its local connection and its two loops.  ready is the channel an
\* opener waits on; conn is "none" before the dial, then "open" or "closed" by
\* this process; app is what the local application did.
End == [id : 0..MaxId, listed : BOOLEAN, local : BOOLEAN, localClosed : BOOLEAN, remoteClosed : BOOLEAN,
        done : BOOLEAN, finished : Nat, queue : Seq(Payloads), qclosed : BOOLEAN,
        ready : {"none", "accepted", "refused"}, conn : {"none", "open", "closed"}, half : BOOLEAN,
        app : {"open", "eof", "reset"}, reader : {"off", "read", "send", "close", "reset", "end"},
        closed : BOOLEAN, writer : {"off", "pop", "write", "end"},
        chunk : Seq(Payloads), read : Nat,
        got : Seq(Payloads)]

NewEnd(conn) ==
  [id |-> 0, listed |-> FALSE, local |-> FALSE, localClosed |-> FALSE, remoteClosed |-> FALSE, done |-> FALSE,
   finished |-> 0, queue |-> <<>>, qclosed |-> FALSE, ready |-> "none", conn |-> conn, half |-> FALSE,
   app |-> "open", reader |-> "off", closed |-> FALSE, writer |-> "off", chunk |-> <<>>,
   read |-> 0, got |-> <<>>]

Idle == [pc |-> "read"]

\* What a read loop may be doing, and what may be on its way to it.
Tasks == [pc : {"read", "abort", "over"}] \cup [pc : {"dial"}, id : 0..MaxId]
         \cup [pc : {"push"}, o : Objects, payload : Payloads]
         \cup [pc : {"remote"}, o : Objects, local : BOOLEAN, closed : BOOLEAN]
Messages == [op : {"open", "accept", "refuse", "close", "reset"}, id : 0..MaxId]
            \cup [op : {"data"}, id : 0..MaxId, payload : Payloads]
            \cup [op : {"members"}, peer : BOOLEAN]

Init ==
  /\ plan \in Plans
  /\ ends = [m \in Members |-> [o \in Objects |-> NewEnd(IF o = "out" THEN "open" ELSE "none")]]
  /\ next = plan.seeds
  /\ handler = [m \in Members |-> "idle"]
  /\ serve = [m \in Members |-> Idle]
  /\ ws = [m \in Members |-> "up"]
  /\ peers = [m \in Members |-> TRUE]
  /\ allowed \in [Members -> BOOLEAN]
  /\ net = [m \in Members |-> <<>>]

TypeOK ==
  /\ plan \in Plans
  /\ ends \in [Members -> [Objects -> End]]
  /\ \A m \in Members, o \in Objects : Len(ends[m][o].queue) <= QueueLimit
  /\ next \in [Members -> 0..MaxId]
  /\ handler \in [Members -> {"idle", "wait", "attach", "reply", "hold", "done"}]
  /\ serve \in [Members -> Tasks]
  /\ ws \in [Members -> {"up", "lost"}]
  /\ peers \in [Members -> BOOLEAN]
  /\ allowed \in [Members -> BOOLEAN]
  /\ net \in [Members -> Seq(Messages)]

-----------------------------------------------------------------------------
(* Pieces of the handlers.                                                 *)

\* streamTable.get
Listed(m, id) == {o \in Objects : ends[m][o].listed /\ ends[m][o].id = id}

\* Mutant: done is not tested.
AbortTwice(e) ==
  [e EXCEPT !.done = TRUE, !.qclosed = TRUE, !.conn = IF e.local THEN "closed" ELSE @,
            !.listed = FALSE, !.finished = @ + 1]

\* abort, and discard with release: they leave the same state behind.
Abort(e) ==
  IF e.done THEN e
  ELSE [e EXCEPT !.done = TRUE, !.qclosed = TRUE, !.conn = IF e.local THEN "closed" ELSE @,
                 !.listed = FALSE, !.finished = @ + 1]

Update(m, o, e) == ends' = [ends EXCEPT ![m][o] = e]

\* The network with one more message of m, if m's WebSocket still takes it and
\* the coordinator has the other member.
Sent(m, msg) == IF ws[m] = "up" /\ ws[Other(m)] = "up" THEN [net EXCEPT ![Other(m)] = Append(@, msg)] ELSE net
Msg(op, id) == [op |-> op, id |-> id]

-----------------------------------------------------------------------------
(* The SOCKS handler of a member that opens a stream.                      *)

\* The next ID that is not in the table, from the counter on.  The wrap around
\* 2^32, which skips 0, is out of the bound.
FreeId(m) == {i \in Ids : i > next[m] /\ Listed(m, i) = {} /\ \A j \in Ids : j > next[m] /\ j < i => Listed(m, j) # {}}

\* The handler replies with an error and its deferred calls close the client.
GiveUp(e) == [e EXCEPT !.conn = "closed"]

\* openStream: no such member, or denied by the rules.
OpenDenied(m) ==
  /\ m \in plan.openers /\ handler[m] = "idle"
  /\ ~peers[m] \/ ~allowed[m]
  /\ Update(m, "out", GiveUp(ends[m]["out"]))
  /\ handler' = [handler EXCEPT ![m] = "done"]
  /\ UNCHANGED <<plan, next, serve, ws, peers, allowed, net>>

\* The stream is allocated and OPEN is sent; if that fails it is discarded.
OpenSends(m) ==
  /\ m \in plan.openers /\ handler[m] = "idle"
  /\ peers[m] /\ allowed[m]
  /\ \E id \in FreeId(m) :
       LET e == [ends[m]["out"] EXCEPT !.id = id, !.listed = TRUE] IN
       /\ Update(m, "out", IF ws[m] = "up" THEN e ELSE GiveUp(Abort(e)))
       /\ next' = [next EXCEPT ![m] = id]
       /\ net' = Sent(m, Msg("open", id))
  /\ handler' = [handler EXCEPT ![m] = IF ws[m] = "up" THEN "wait" ELSE "done"]
  /\ UNCHANGED <<plan, serve, ws, peers, allowed>>

\* ACCEPT was taken from the ready channel.
OpenAccepted(m) ==
  /\ handler[m] = "wait" /\ ends[m]["out"].ready = "accepted"
  /\ handler' = [handler EXCEPT ![m] = "attach"]
  /\ UNCHANGED <<plan, ends, next, serve, ws, peers, allowed, net>>

OpenRefused(m) ==
  /\ handler[m] = "wait" /\ ends[m]["out"].ready = "refused"
  /\ Update(m, "out", GiveUp(Abort(ends[m]["out"])))
  /\ handler' = [handler EXCEPT ![m] = "done"]
  /\ UNCHANGED <<plan, next, serve, ws, peers, allowed, net>>

\* streamOpenTimeout passes, or the context is cancelled: the peer is told.
OpenTimeout(m) ==
  /\ handler[m] = "wait"
  /\ Update(m, "out", GiveUp(Abort(ends[m]["out"])))
  /\ net' = Sent(m, Msg("reset", ends[m]["out"].id))
  /\ handler' = [handler EXCEPT ![m] = "done"]
  /\ UNCHANGED <<plan, next, serve, ws, peers, allowed>>

\* c.done is closed while the opener waits.
OpenSessionOver(m) ==
  /\ handler[m] = "wait" /\ serve[m].pc = "over"
  /\ Update(m, "out", GiveUp(ends[m]["out"]))
  /\ handler' = [handler EXCEPT ![m] = "done"]
  /\ UNCHANGED <<plan, next, serve, ws, peers, allowed, net>>

\* attach: both loops start, also on a stream that was aborted meanwhile.
Attached(e) == [e EXCEPT !.local = TRUE, !.writer = "pop", !.reader = "read"]

Attach(m) ==
  /\ handler[m] = "attach"
  /\ Update(m, "out", Attached(ends[m]["out"]))
  /\ handler' = [handler EXCEPT ![m] = "reply"]
  /\ UNCHANGED <<plan, next, serve, ws, peers, allowed, net>>

\* The reply is written after the loops have started.
Reply(m) ==
  /\ handler[m] = "reply"
  /\ \/ /\ ends[m]["out"].conn = "open" /\ ends[m]["out"].app # "reset"
        /\ handler' = [handler EXCEPT ![m] = "hold"]
        /\ UNCHANGED ends
     \/ /\ ends[m]["out"].conn = "closed" \/ ends[m]["out"].app = "reset"
        /\ handler' = [handler EXCEPT ![m] = "done"]
        /\ Update(m, "out", GiveUp(ends[m]["out"]))
  /\ UNCHANGED <<plan, next, serve, ws, peers, allowed, net>>

WaitEnds(m) ==
  /\ handler[m] = "hold" /\ ends[m]["out"].finished > 0
  /\ Update(m, "out", GiveUp(ends[m]["out"]))
  /\ handler' = [handler EXCEPT ![m] = "done"]
  /\ UNCHANGED <<plan, next, serve, ws, peers, allowed, net>>

-----------------------------------------------------------------------------
(* The loops of one end.                                                   *)

\* A payload from the local connection.
ReaderGets(m, o) ==
  LET e == ends[m][o] IN
  /\ e.reader = "read" /\ e.conn = "open" /\ e.app = "open" /\ e.read < plan.reads[m][o]
  /\ Update(m, o, [e EXCEPT !.read = @ + 1, !.reader = "send"])
  /\ UNCHANGED <<plan, next, handler, serve, ws, peers, allowed, net>>

\* It is sealed for the stream's peer, which must still be in the roster, and
\* written; a failure aborts the stream.
ReaderSends(m, o) ==
  LET e == ends[m][o] IN
  /\ e.reader = "send"
  /\ \/ /\ ws[m] = "up" /\ peers[m]
        /\ net' = Sent(m, [op |-> "data", id |-> e.id, payload |-> <<m, o, e.read>>])
        /\ Update(m, o, [e EXCEPT !.reader = "read"])
     \/ /\ ws[m] = "lost" \/ ~peers[m]
        /\ Update(m, o, [Abort(e) EXCEPT !.reader = "end"])
        /\ UNCHANGED net
  /\ UNCHANGED <<plan, next, handler, serve, ws, peers, allowed>>

\* The connection ended: localClosed is set and remoteClosed is read under s.mu.
ReaderEnds(m, o) ==
  LET e == ends[m][o] IN
  /\ e.reader = "read" /\ (e.conn = "closed" \/ e.app # "open")
  /\ Update(m, o, [e EXCEPT !.localClosed = TRUE, !.closed = e.remoteClosed,
                            !.reader = IF e.conn = "open" /\ e.app = "eof" THEN "close" ELSE "reset"])
  /\ UNCHANGED <<plan, next, handler, serve, ws, peers, allowed, net>>

\* The peer is told, and the stream is aborted after an error or when both
\* directions have ended.
ReaderTells(m, o) ==
  LET e == ends[m][o] IN
  /\ e.reader \in {"close", "reset"}
  /\ net' = Sent(m, Msg(e.reader, e.id))
  /\ Update(m, o, [(IF e.reader = "reset" \/ e.closed THEN Abort(e) ELSE e) EXCEPT !.reader = "end"])
  /\ UNCHANGED <<plan, next, handler, serve, ws, peers, allowed>>

\* pop
WriterPops(m, o) ==
  LET e == ends[m][o] IN
  /\ e.writer = "pop"
  /\ \/ /\ e.queue # <<>>
        /\ Update(m, o, [e EXCEPT !.writer = "write", !.chunk = <<Head(e.queue)>>, !.queue = Tail(@)])
     \/ /\ e.queue = <<>> /\ e.qclosed
        /\ Update(m, o, [e EXCEPT !.writer = "end"])
  /\ UNCHANGED <<plan, next, handler, serve, ws, peers, allowed, net>>

\* The chunk is written to the local connection.
WriterWrites(m, o) ==
  LET e == ends[m][o] IN
  /\ e.writer = "write" /\ e.conn = "open" /\ ~e.half /\ e.app # "reset"
  /\ Update(m, o, [e EXCEPT !.writer = "pop", !.chunk = <<>>, !.got = @ \o e.chunk])
  /\ UNCHANGED <<plan, next, handler, serve, ws, peers, allowed, net>>

\* fail: the connection, or its writing half, is closed.
WriterFails(m, o) ==
  LET e == ends[m][o] IN
  /\ e.writer = "write" /\ (e.conn = "closed" \/ e.half \/ e.app = "reset")
  /\ net' = Sent(m, Msg("reset", e.id))
  /\ Update(m, o, [Abort(e) EXCEPT !.writer = "end", !.chunk = <<>>])
  /\ UNCHANGED <<plan, next, handler, serve, ws, peers, allowed>>

-----------------------------------------------------------------------------
(* The read loop of a member: handleStream for each message.               *)

Take(m) == serve[m].pc = "read" /\ ws[m] = "up" /\ net[m] # <<>>
Rest(m) == [net EXCEPT ![m] = Tail(@)]
Answered(m, msg) == IF ws[Other(m)] = "up" THEN [Rest(m) EXCEPT ![Other(m)] = Append(@, msg)] ELSE Rest(m)

\* handleOpen up to the dial.
ReceiveOpen(m) ==
  /\ Take(m) /\ Head(net[m]).op = "open"
  /\ LET id == Head(net[m]).id IN
     \/ /\ ~peers[m] \/ Listed(m, id) # {}
        /\ net' = IF peers[m] THEN Answered(m, Msg("reset", id)) ELSE Rest(m)
        /\ UNCHANGED serve
     \/ /\ peers[m] /\ Listed(m, id) = {} /\ ~allowed[m]
        /\ net' = Answered(m, Msg("refuse", id)) /\ UNCHANGED serve
     \/ /\ peers[m] /\ Listed(m, id) = {} /\ allowed[m]
        /\ net' = Rest(m) /\ serve' = [serve EXCEPT ![m] = [pc |-> "dial", id |-> id]]
  /\ UNCHANGED <<plan, ends, next, handler, ws, peers, allowed>>

\* The local service does not answer.
DialFails(m) ==
  /\ serve[m].pc = "dial"
  /\ net' = Sent(m, Msg("refuse", serve[m].id))
  /\ serve' = [serve EXCEPT ![m] = Idle]
  /\ UNCHANGED <<plan, ends, next, handler, ws, peers, allowed>>

\* It does: the stream is inserted under the opener's ID, unless this member
\* has allocated that ID meanwhile, and accepted.  If ACCEPT cannot be sent the
\* stream is aborted and the connection, which it does not hold yet, stays open.
DialSucceeds(m) ==
  /\ serve[m].pc = "dial" /\ ends[m]["in"].conn = "none"
  /\ LET id == serve[m].id
         e == [ends[m]["in"] EXCEPT !.id = id, !.listed = TRUE, !.conn = "open"] IN
     \/ /\ Listed(m, id) # {}
        /\ Update(m, "in", [ends[m]["in"] EXCEPT !.conn = "closed"])
        /\ net' = Sent(m, Msg("reset", id))
     \/ /\ Listed(m, id) = {}
        /\ Update(m, "in", IF ws[m] = "up" THEN Attached(e) ELSE Abort(e))
        /\ net' = Sent(m, Msg("accept", id))
  /\ serve' = [serve EXCEPT ![m] = Idle]
  /\ UNCHANGED <<plan, next, handler, ws, peers, allowed>>

\* ACCEPT and REFUSE go to the ready channel of a stream opened here, if it is
\* still listed and the channel is empty.
ReceiveAnswer(m) ==
  /\ Take(m) /\ Head(net[m]).op \in {"accept", "refuse"}
  /\ LET e == ends[m]["out"]
         code == IF Head(net[m]).op = "accept" THEN "accepted" ELSE "refused" IN
     IF "out" \in Listed(m, Head(net[m]).id) /\ e.ready = "none"
     THEN Update(m, "out", [e EXCEPT !.ready = code]) ELSE UNCHANGED ends
  /\ net' = Rest(m)
  /\ UNCHANGED <<plan, next, handler, serve, ws, peers, allowed>>

\* DATA of an unknown stream, or of a peer that left the roster, is dropped.
ReceiveData(m) ==
  /\ Take(m) /\ Head(net[m]).op = "data"
  /\ net' = Rest(m)
  /\ \/ /\ Listed(m, Head(net[m]).id) = {} \/ ~peers[m]
        /\ UNCHANGED serve
     \/ \E o \in Listed(m, Head(net[m]).id) :
          /\ peers[m]
          /\ serve' = [serve EXCEPT ![m] = [pc |-> "push", o |-> o, payload |-> Head(net[m]).payload]]
  /\ UNCHANGED <<plan, ends, next, handler, ws, peers, allowed>>

\* Mutant: data that arrives before the client is attached is dropped.
PushNeedsLocal(m) ==
  /\ serve[m].pc = "push"
  /\ LET o == serve[m].o  e == ends[m][o] IN
     \/ (e.qclosed \/ ~e.local) /\ UNCHANGED ends
     \/ /\ ~e.qclosed /\ e.local /\ Len(e.queue) < QueueLimit
        /\ Update(m, o, [e EXCEPT !.queue = Append(@, serve[m].payload)])
  /\ serve' = [serve EXCEPT ![m] = Idle]
  /\ UNCHANGED <<plan, next, handler, ws, peers, allowed, net>>

\* push: the read loop waits while the queue is full and open.
Push(m) ==
  /\ serve[m].pc = "push"
  /\ LET o == serve[m].o  e == ends[m][o] IN
     \/ e.qclosed /\ UNCHANGED ends
     \/ /\ ~e.qclosed /\ Len(e.queue) < QueueLimit
        /\ Update(m, o, [e EXCEPT !.queue = Append(@, serve[m].payload)])
  /\ serve' = [serve EXCEPT ![m] = Idle]
  /\ UNCHANGED <<plan, next, handler, ws, peers, allowed, net>>

\* remoteClose under s.mu: remoteClosed is set, localClosed and local are read.
ReceiveClose(m) ==
  /\ Take(m) /\ Head(net[m]).op = "close"
  /\ net' = Rest(m)
  /\ \/ /\ \A o \in Listed(m, Head(net[m]).id) : ends[m][o].done \/ ends[m][o].remoteClosed
        /\ UNCHANGED <<plan, ends, serve>>
     \/ \E o \in Listed(m, Head(net[m]).id) :
          LET e == ends[m][o] IN
          /\ ~e.done /\ ~e.remoteClosed
          /\ Update(m, o, [e EXCEPT !.remoteClosed = TRUE])
          /\ serve' = [serve EXCEPT ![m] = [pc |-> "remote", o |-> o, local |-> e.local, closed |-> e.localClosed]]
  /\ UNCHANGED <<plan, next, handler, ws, peers, allowed>>

\* Mutant: a stream whose other direction has ended is not aborted.
RemoteCloseKeeps(m) ==
  /\ serve[m].pc = "remote"
  /\ LET o == serve[m].o IN
     Update(m, o, [ends[m][o] EXCEPT !.qclosed = TRUE, !.half = @ \/ serve[m].local])
  /\ serve' = [serve EXCEPT ![m] = Idle]
  /\ UNCHANGED <<plan, next, handler, ws, peers, allowed, net>>

\* The rest of remoteClose: the queue and the writing half of the connection
\* are closed, and the stream is aborted if the other direction has ended.
RemoteClose(m) ==
  /\ serve[m].pc = "remote"
  /\ LET o == serve[m].o
         e == [ends[m][o] EXCEPT !.qclosed = TRUE, !.half = @ \/ serve[m].local] IN
     Update(m, o, IF serve[m].closed THEN Abort(e) ELSE e)
  /\ serve' = [serve EXCEPT ![m] = Idle]
  /\ UNCHANGED <<plan, next, handler, ws, peers, allowed, net>>

ReceiveReset(m) ==
  /\ Take(m) /\ Head(net[m]).op = "reset"
  /\ net' = Rest(m)
  /\ ends' = [ends EXCEPT ![m] = [o \in Objects |-> IF o \in Listed(m, Head(net[m]).id) THEN Abort(@[o]) ELSE @[o]]]
  /\ UNCHANGED <<plan, next, handler, serve, ws, peers, allowed>>

\* Mutant: streams to a member that left are kept.
ReceiveMembersKeeps(m) ==
  /\ Take(m) /\ Head(net[m]).op = "members"
  /\ net' = Rest(m)
  /\ peers' = [peers EXCEPT ![m] = Head(net[m]).peer]
  /\ UNCHANGED <<plan, ends, next, handler, serve, ws, allowed>>

\* A new roster; dropStaleStreams.
ReceiveMembers(m) ==
  /\ Take(m) /\ Head(net[m]).op = "members"
  /\ net' = Rest(m)
  /\ peers' = [peers EXCEPT ![m] = Head(net[m]).peer]
  /\ ends' = [ends EXCEPT ![m] = [o \in Objects |-> IF @[o].listed /\ ~Head(net[m]).peer THEN Abort(@[o]) ELSE @[o]]]
  /\ UNCHANGED <<plan, next, handler, serve, ws, allowed>>

-----------------------------------------------------------------------------
(* The end of a session.                                                   *)

\* ReadMessage fails; the deferred function closes the SOCKS server with its
\* client connections.
ServeEnds(m) ==
  /\ serve[m].pc = "read" /\ ws[m] = "lost"
  /\ serve' = [serve EXCEPT ![m] = [pc |-> "abort"]]
  /\ Update(m, "out", GiveUp(ends[m]["out"]))
  /\ UNCHANGED <<plan, next, handler, ws, peers, allowed, net>>

\* Then it aborts the listed streams and closes c.done.
AbortAll(m) ==
  /\ serve[m].pc = "abort"
  /\ ends' = [ends EXCEPT ![m] = [o \in Objects |-> IF @[o].listed THEN Abort(@[o]) ELSE @[o]]]
  /\ serve' = [serve EXCEPT ![m] = [pc |-> "over"]]
  /\ UNCHANGED <<plan, next, handler, ws, peers, allowed, net>>

\* The connection is lost, or the user stops the member and its keepalive
\* goroutine closes the WebSocket.  The coordinator sends the other member a
\* roster without this one.
CloseWebSocket(m) ==
  /\ m \in plan.losses /\ ws[m] = "up"
  /\ ws' = [ws EXCEPT ![m] = "lost"]
  /\ net' = [net EXCEPT ![m] = <<>>, ![Other(m)] =
             IF ws[Other(m)] = "up" THEN Append(@, [op |-> "members", peer |-> FALSE]) ELSE @]
  /\ UNCHANGED <<plan, ends, next, handler, serve, peers, allowed>>

\* The local application ends its direction, or the whole connection.
AppEnds(m, o) ==
  LET e == ends[m][o] IN
  /\ m \in plan.apps /\ e.conn = "open" /\ e.app = "open" /\ e.local
  /\ \E how \in {"eof", "reset"} : Update(m, o, [e EXCEPT !.app = how])
  /\ UNCHANGED <<plan, next, handler, serve, ws, peers, allowed, net>>

-----------------------------------------------------------------------------
Handling(m) ==
  \/ OpenDenied(m) \/ OpenSends(m) \/ OpenAccepted(m) \/ OpenRefused(m) \/ OpenTimeout(m) \/ OpenSessionOver(m)
  \/ Attach(m) \/ Reply(m) \/ WaitEnds(m)
Serving(m) ==
  \/ ReceiveOpen(m) \/ DialFails(m) \/ DialSucceeds(m) \/ ReceiveAnswer(m) \/ ReceiveData(m) \/ Push(m)
  \/ ReceiveClose(m) \/ RemoteClose(m) \/ ReceiveReset(m) \/ ReceiveMembers(m) \/ ServeEnds(m) \/ AbortAll(m)
Writing(m, o) == WriterPops(m, o) \/ WriterWrites(m, o) \/ WriterFails(m, o)

Next ==
  \/ \E m \in Members : Handling(m) \/ Serving(m) \/ CloseWebSocket(m)
  \/ \E m \in Members, o \in Objects :
       \/ ReaderGets(m, o) \/ ReaderSends(m, o) \/ ReaderEnds(m, o) \/ ReaderTells(m, o)
       \/ Writing(m, o) \/ AppEnds(m, o)

Spec == Init /\ [][Next]_vars

\* Goroutines that can run do; timers fire; a local application takes what is
\* written to it.  Applications, losses and new requests are not fair.
FairSpec ==
  /\ Spec
  /\ \A m \in Members :
       /\ WF_vars(Serving(m))
       /\ WF_vars(OpenAccepted(m) \/ OpenRefused(m) \/ OpenTimeout(m) \/ OpenSessionOver(m))
       /\ WF_vars(Attach(m) \/ Reply(m) \/ WaitEnds(m))
       /\ \A o \in Objects :
            /\ WF_vars(ReaderSends(m, o) \/ ReaderEnds(m, o) \/ ReaderTells(m, o))
            /\ WF_vars(Writing(m, o))

-----------------------------------------------------------------------------
(* Properties.                                                             *)

\* What an end has written to its connection is what the other end read, in
\* order and without a gap, whatever closes, resets, losses and full queues
\* happened (enqueue and writeLoop), as long as the two streams have their own
\* IDs.
DeliveredInOrder ==
  \A m \in Members, o \in Objects :
    (\A n \in Members : ends[n]["out"].id # ends[Other(n)]["out"].id) =>
      LET got == ends[m][o].got IN
      /\ got = [i \in 1..Len(got) |-> <<Other(m), Peer(o), i>>]
      /\ Len(got) <= ends[Other(m)][Peer(o)].read

\* finished is closed at most once, by abort or by release, whoever of the read
\* loop, the two loops, the opener and the end of the session comes first; a
\* second close would panic.
FinishedOnce == \A m \in Members, o \in Objects : ends[m][o].finished <= 1

Quiet(e) == (e.listed => e.done) /\ e.reader \in {"off", "end"} /\ e.writer \in {"off", "end"}

\* After a session has ended, both members release every stream between them:
\* the loops end, also those attached to a stream that was aborted before, and
\* the opener's client is closed.
SessionLossReleases ==
  \A m \in Members :
    ws[m] = "lost" ~> \A n \in Members :
      /\ \A o \in Objects : Quiet(ends[n][o])
      /\ handler[n] \in {"idle", "done"} /\ (handler[n] = "done" => ends[n]["out"].conn = "closed")

\* When the applications at both ends have ended their directions of a stream,
\* both ends are released.
BothEndsRelease ==
  \A m \in Members :
    LET opened == ends[m]["out"]  taken == ends[Other(m)]["in"] IN
    opened.local /\ taken.local /\ opened.app # "open" /\ taken.app # "open"
      ~> Quiet(opened) /\ Quiet(taken) /\ opened.done /\ taken.done

\* A stream that ends in order delivers what was read before it ended: "the
\* local connection is half-closed and the queued data still drains".
QueuedDataDrains ==
  \A m \in Members, o \in Objects :
    LET e == ends[m][o]  p == ends[Other(m)][Peer(o)] IN
    /\ e.done /\ e.local /\ p.local /\ p.app = "eof" /\ e.app # "reset"
    /\ \A n \in Members : ws[n] = "up" /\ peers[n]
    => Len(e.got) = p.read

\* The SOCKS client gets its reply before data of the stream.
ReplyBeforeData == [][\A m \in Members : handler[m] = "reply" /\ handler'[m] = "hold" => ends[m]["out"].got = <<>>]_vars

\* The end of the peer's direction reaches the local application.
EndReachesApplication ==
  \A m \in Members, o \in Objects :
    ends[m][o].remoteClosed /\ ends[m][o].local ~> ends[m][o].half \/ ends[m][o].conn = "closed"

=============================================================================
