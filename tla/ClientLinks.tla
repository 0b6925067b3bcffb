----------------------------- MODULE ClientLinks -----------------------------
(***************************************************************************)
(* The WebSocket links of a client: one worker goroutine per thread keeps  *)
(* a link up and publishes it in the list the senders choose from; the     *)
(* connection status and its channels tell waiters about it.               *)
(*                                                                         *)
(* linksocks/client.go   startForward, startReverse,                       *)
(*                       maintainWebSocketConnection, getNextWebSocket,    *)
(*                       setConnectionStatus, handleSocksRequest (waiting  *)
(*                       for a link), DisconnectWebSockets, Close          *)
(*                                                                         *)
(* The client is used through WaitReady, so that Close cancels the context *)
(* of the workers.  Workers count from 0 and TLA+ sequences from 1: worker *)
(* w owns websockets[w + 1].                                               *)
(***************************************************************************)
EXTENDS Integers, Sequences, FiniteSets

CONSTANTS Threads,     \* ClientOption.Threads
          Requests,    \* local proxy requests
          MaxConns,    \* bound on the WebSocket connections dialled
          Reconnect    \* ClientOption.Reconnect

ASSUME LinksAssumption ==
  /\ Threads \in Nat \ {0}
  /\ MaxConns \in Nat
  /\ Reconnect \in BOOLEAN

Workers == 0 .. Threads - 1
Conns == 1 .. MaxConns

VARIABLES
  phase,        \* what worker w is doing
  conn,         \* connection of worker w, 0 if there is none
  dialled,      \* connections dialled so far
  open,         \* connections that are open
  websockets,   \* LinkSocksClient.websockets, nil as 0
  currentIndex, \* LinkSocksClient.currentIndex
  isConnected,  \* LinkSocksClient.IsConnected
  connected,    \* LinkSocksClient.Connected: the channels are numbered
  signalled,    \* channels that are closed
  closed,       \* LinkSocksClient.closed; the workers' context is cancelled
  request,      \* what a local proxy request is doing
  awaits        \* the channel a waiting request has subscribed to

links == <<phase, conn, dialled, open, websockets>>
status == <<isConnected, connected, signalled>>
vars == <<phase, conn, dialled, open, websockets, currentIndex, isConnected,
          connected, signalled, closed, request, awaits>>

TypeOK ==
  /\ phase \in [Workers -> {"idle", "dialling", "authenticating", "up", "asleep", "stopped"}]
  /\ conn \in [Workers -> Conns \cup {0}]
  /\ dialled \in 0 .. MaxConns
  /\ open \subseteq Conns
  /\ \E n \in 0 .. Threads : websockets \in [1 .. n -> Conns \cup {0}]
  /\ currentIndex \in Nat
  /\ isConnected \in BOOLEAN
  /\ connected \in Nat
  /\ signalled \subseteq Nat
  /\ closed \in BOOLEAN
  /\ request \in [Requests -> {"none", "checking", "subscribing", "waiting", "sent", "refused"}]
  /\ awaits \in [Requests -> Nat]

Init ==
  /\ phase = [w \in Workers |-> "idle"]
  /\ conn = [w \in Workers |-> 0]
  /\ dialled = 0
  /\ open = {}
  /\ websockets = <<>>
  /\ currentIndex = 0
  /\ isConnected = FALSE
  /\ connected = 0
  /\ signalled = {}
  /\ closed = FALSE
  /\ request = [r \in Requests |-> "none"]
  /\ awaits = [r \in Requests |-> 0]

-----------------------------------------------------------------------------
(* Connection status.                                                      *)

\* Faulty setConnectionStatus: no check whether the status changes.
SetStatusAlways(up) ==
  /\ isConnected' = up
  /\ IF up
       THEN LET ch == IF connected \in signalled THEN connected + 1 ELSE connected
            IN  connected' = ch /\ signalled' = signalled \cup {ch}
       ELSE connected' = connected + 1 /\ UNCHANGED signalled

\* setConnectionStatus: connecting closes the current channel, disconnecting
\* replaces it.
SetStatus(up) ==
  \/ up = isConnected /\ UNCHANGED status
  \/ /\ up /\ ~isConnected
     /\ isConnected' = TRUE
     /\ connected' = IF connected \in signalled THEN connected + 1 ELSE connected
     /\ signalled' = signalled \cup {connected'}
  \/ /\ ~up /\ isConnected
     /\ isConnected' = FALSE
     /\ connected' = connected + 1
     /\ UNCHANGED signalled

-----------------------------------------------------------------------------
(* Workers: startForward, startReverse and maintainWebSocketConnection.    *)

\* The loop looks at the context before every attempt.
NextAttempt(w) ==
  /\ phase[w] = "idle"
  /\ phase' = [phase EXCEPT ![w] = IF closed THEN "stopped" ELSE "dialling"]
  /\ UNCHANGED <<conn, dialled, open, websockets, currentIndex, status, closed, request, awaits>>

\* The link gets the worker's place in the list, or the next place if the list
\* is not that long yet.
Publish(w, c) ==
  websockets' = IF Len(websockets) <= w THEN Append(websockets, c)
                                        ELSE [websockets EXCEPT ![w + 1] = c]

Dialled(w) ==
  LET c == dialled + 1
  IN  /\ phase[w] = "dialling" /\ c \in Conns
      /\ dialled' = c
      /\ open' = open \cup {c}
      /\ conn' = [conn EXCEPT ![w] = c]
      /\ phase' = [phase EXCEPT ![w] = "authenticating"]
      /\ Publish(w, c)
      /\ UNCHANGED <<currentIndex, status, closed, request, awaits>>

\* A failed attempt ends the worker without Reconnect, and sleeps otherwise.
AfterFailure == IF Reconnect THEN "asleep" ELSE "stopped"

DialFails(w) ==
  /\ phase[w] = "dialling"
  /\ phase' = [phase EXCEPT ![w] = AfterFailure]
  /\ UNCHANGED <<conn, dialled, open, websockets, currentIndex, status, closed, request, awaits>>

\* The server accepted the link; only the first worker reports it.
Authenticated(w) ==
  /\ phase[w] = "authenticating" /\ conn[w] \in open
  /\ phase' = [phase EXCEPT ![w] = "up"]
  /\ IF w = 0 THEN SetStatus(TRUE) ELSE UNCHANGED status
  /\ UNCHANGED <<conn, dialled, open, websockets, currentIndex, closed, request, awaits>>

\* The early returns of maintainWebSocketConnection: the link is closed and
\* stays in the list.  A rejected token ends the worker for good.
AuthenticationFails(w) ==
  /\ phase[w] = "authenticating"
  /\ open' = open \ {conn[w]}
  /\ conn' = [conn EXCEPT ![w] = 0]
  /\ \E next \in {AfterFailure, "stopped"} : phase' = [phase EXCEPT ![w] = next]
  /\ UNCHANGED <<dialled, websockets, currentIndex, status, closed, request, awaits>>

\* Faulty worker: only a lost link ends it, not the cancelled context.
LinkEndsOnLossOnly(w) ==
  /\ phase[w] = "up" /\ conn[w] \notin open
  /\ conn' = [conn EXCEPT ![w] = 0]
  /\ phase' = [phase EXCEPT ![w] = AfterFailure]
  /\ websockets' = IF w < Len(websockets) THEN [websockets EXCEPT ![w + 1] = 0] ELSE websockets
  /\ IF \A i \in 1 .. Len(websockets') : websockets'[i] = 0
       THEN SetStatus(FALSE) ELSE UNCHANGED status
  /\ UNCHANGED <<open, dialled, currentIndex, closed, request, awaits>>

\* Dispatcher or heartbeat of an established link returned, because the link
\* is lost or the context is cancelled.
LinkEnds(w) ==
  /\ phase[w] = "up" /\ (conn[w] \notin open \/ closed)
  /\ open' = open \ {conn[w]}
  /\ conn' = [conn EXCEPT ![w] = 0]
  /\ phase' = [phase EXCEPT ![w] = AfterFailure]
  /\ websockets' = IF w < Len(websockets) THEN [websockets EXCEPT ![w + 1] = 0] ELSE websockets
  /\ IF \A i \in 1 .. Len(websockets') : websockets'[i] = 0
       THEN SetStatus(FALSE) ELSE UNCHANGED status
  /\ UNCHANGED <<dialled, currentIndex, closed, request, awaits>>

WakesUp(w) ==
  /\ phase[w] = "asleep"
  /\ phase' = [phase EXCEPT ![w] = "idle"]
  /\ UNCHANGED <<conn, dialled, open, websockets, currentIndex, status, closed, request, awaits>>

-----------------------------------------------------------------------------
(* A local proxy request looks for a link.                                 *)

\* The places getNextWebSocket tries, in its order, counted from 0.
Tried(i) == (currentIndex + i) % Len(websockets)

\* getNextWebSocket moves currentIndex to the next link in the list.
NextLink(i) ==
  /\ i \in 1 .. Len(websockets)
  /\ websockets[Tried(i) + 1] # 0
  /\ \A j \in 1 .. i - 1 : websockets[Tried(j) + 1] = 0

RequestArrives(r) ==
  /\ request[r] = "none"
  /\ request' = [request EXCEPT ![r] = "checking"]
  /\ UNCHANGED <<links, currentIndex, status, closed, awaits>>

\* getNextWebSocket: the request is sent, or will wait; without a link the
\* search goes round and leaves currentIndex where it was.
RequestChecks(r) ==
  /\ request[r] = "checking"
  /\ \/ \E i \in 1 .. Len(websockets) :
          /\ NextLink(i)
          /\ currentIndex' = Tried(i)
          /\ request' = [request EXCEPT ![r] = "sent"]
     \/ /\ \A i \in 1 .. Len(websockets) : websockets[i] = 0
        /\ currentIndex' = IF websockets = <<>> THEN currentIndex ELSE Tried(Len(websockets))
        /\ request' = [request EXCEPT ![r] = "subscribing"]
  /\ UNCHANGED <<links, status, closed, awaits>>

RequestSubscribes(r) ==
  /\ request[r] = "subscribing"
  /\ awaits' = [awaits EXCEPT ![r] = connected]
  /\ request' = [request EXCEPT ![r] = "waiting"]
  /\ UNCHANGED <<links, currentIndex, status, closed>>

RequestWakes(r) ==
  /\ request[r] = "waiting" /\ awaits[r] \in signalled
  /\ request' = [request EXCEPT ![r] = "checking"]
  /\ UNCHANGED <<links, currentIndex, status, closed, awaits>>

\* Ten seconds have passed, or the client was closed.
RequestRefused(r) ==
  /\ request[r] = "waiting"
  /\ request' = [request EXCEPT ![r] = "refused"]
  /\ UNCHANGED <<links, currentIndex, status, closed, awaits>>

-----------------------------------------------------------------------------
(* The environment and the client's own calls.                             *)

\* The network or the server ends a connection.
LinkLost(c) ==
  /\ c \in open
  /\ open' = open \ {c}
  /\ UNCHANGED <<phase, conn, dialled, websockets, currentIndex, status, closed, request, awaits>>

Listed == {websockets[i] : i \in 1 .. Len(websockets)}

DisconnectWebSockets ==
  /\ open \cap Listed # {}
  /\ open' = open \ Listed
  /\ UNCHANGED <<phase, conn, dialled, websockets, currentIndex, status, closed, request, awaits>>

Close ==
  /\ ~closed
  /\ closed' = TRUE
  /\ open' = open \ Listed
  /\ websockets' = <<>>
  /\ UNCHANGED <<phase, conn, dialled, currentIndex, status, request, awaits>>

-----------------------------------------------------------------------------
WorkerStep(w) ==
  \/ NextAttempt(w) \/ Dialled(w) \/ DialFails(w) \/ Authenticated(w)
  \/ AuthenticationFails(w) \/ LinkEnds(w) \/ WakesUp(w)

RequestStep(r) ==
  \/ RequestArrives(r) \/ RequestChecks(r) \/ RequestSubscribes(r)
  \/ RequestWakes(r) \/ RequestRefused(r)

Next ==
  \/ \E w \in Workers : WorkerStep(w)
  \/ \E r \in Requests : RequestStep(r)
  \/ \E c \in Conns : LinkLost(c)
  \/ DisconnectWebSockets \/ Close

Spec == Init /\ [][Next]_vars

\* Goroutines that can run do run; a dial and an authentication come to an end.
Fairness ==
  \A w \in Workers :
    /\ WF_vars(NextAttempt(w)) /\ WF_vars(WakesUp(w)) /\ WF_vars(LinkEnds(w))
    /\ WF_vars(Dialled(w) \/ DialFails(w))
    /\ WF_vars(Authenticated(w) \/ AuthenticationFails(w))

FairSpec == Spec /\ Fairness

-----------------------------------------------------------------------------
(* Properties.                                                             *)

\* Nobody waits on a dead channel: a waiting request has subscribed to the
\* current Connected channel or to one that was closed, although the channels
\* are replaced at every disconnect.
NoLostWakeup ==
  \A r \in Requests : request[r] = "waiting" =>
    awaits[r] = connected \/ awaits[r] \in signalled

\* Close leaves no connection open, not even one dialled before it and
\* published after it, or one that is missing from the list.
CloseEndsLinks == closed ~> [](open = {})

\* Unless the client is closed, the status goes down only when all connections
\* are down.
DownMeansDown ==
  [][isConnected /\ ~isConnected' /\ ~closed => \A w \in Workers : phase'[w] # "up"]_vars

\* A client that reports itself connected has a link, or is making one.
ConnectedMeansLink ==
  isConnected /\ ~closed => \E w \in Workers : phase[w] \in {"authenticating", "up"}

\* A request that waits for a connection wakes up when a link is (re)connected:
\* it is not refused, still asleep, while a link is up.
NotRefusedWithLink ==
  [][\A r \in Requests :
       /\ request[r] = "waiting" /\ awaits[r] \notin signalled
       /\ request'[r] = "refused"
       => \A w \in Workers : phase[w] # "up"]_vars
=============================================================================
