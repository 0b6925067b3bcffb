--------------------------- MODULE SocksListeners ---------------------------
(***************************************************************************)
(* The local SOCKS listeners of the server: a reverse token owns a port of *)
(* the pool, a server goroutine accepts on that port, and the socket       *)
(* manager shares and closes the listening sockets.                        *)
(*                                                                         *)
(* linksocks/portpool.go   PortPool                                        *)
(* linksocks/socket.go     SocketManager: reference count, delayed close   *)
(* linksocks/server.go     AddReverseToken, RemoveToken, handlePendingToken,*)
(*                         startReverseSocksServer, runSocksServer, Close  *)
(*                                                                         *)
(* A task is one run of runSocksServer: its accept loop, and the goroutine *)
(* (its stopper) that waits for the task's context.                        *)
(***************************************************************************)
EXTENDS Integers, FiniteSets

CONSTANTS Tokens, Ports,
          WaitClient,   \* ServerOption.SocksWaitClient
          MaxTasks      \* bound on the runs of runSocksServer

ASSUME ListenersAssumption ==
  /\ Ports \subseteq Nat \ {0}
  /\ WaitClient \in BOOLEAN
  /\ MaxTasks \in Nat \ {0}

Tasks == 1 .. MaxTasks
Sockets == 1 .. 2 * MaxTasks

VARIABLES
  tokens,      \* tokens[t]: port of reverse token t, 0 if there is none
  usedPorts,   \* PortPool.usedPorts
  pending,     \* tokens Serve has still to handle
  serving,     \* Serve has published wsServer
  closed,      \* LinkSocksServer.closed
  arriving,    \* tokens of providers authenticated and not registered yet
  socksTasks,  \* socksTasks[p]: the task to cancel, 0 if there is none
  taskPort,    \* port of a task
  loop,        \* what the accept loop of a task is doing
  stopper,     \* what the stopper of a task is doing
  listener,    \* the socket a task accepts on, 0 before GetListener
  cancelled,   \* tasks whose context is cancelled
  sockets,     \* SocketManager.sockets: socket of a port, 0 if there is none
  opened,      \* sockets opened so far
  refCount,    \* managedSocket.refCount
  timers,      \* close timers of a socket, see below
  expired,     \* sockets whose accept deadline has passed
  late         \* history: GetListener reused a socket whose timer had fired

server == <<tokens, usedPorts, pending, serving, closed, arriving, socksTasks>>
task == <<taskPort, loop, stopper, listener, cancelled>>
manager == <<sockets, opened, refCount, timers, late>>
vars == <<server, task, manager, expired>>

\* The timers of one socket are interchangeable: closeTimer points to the
\* latest one that is still armed, stale ones are armed and cannot be stopped
\* any more, and a fired one waits for the manager's mutex.
TimerKinds == {"latest", "stale", "fired"}

TypeOK ==
  /\ tokens \in [Tokens -> Ports \cup {0}]
  /\ usedPorts \subseteq Ports
  /\ pending \subseteq Tokens /\ arriving \subseteq Tokens
  /\ serving \in BOOLEAN /\ closed \in BOOLEAN
  /\ socksTasks \in [Ports -> Tasks \cup {0}]
  /\ taskPort \in [Tasks -> Ports \cup {0}]
  /\ loop \in [Tasks -> {"none", "starting", "accepting", "failed", "returning", "done"}]
  /\ stopper \in [Tasks -> {"none", "waiting", "expired", "done"}]
  /\ listener \in [Tasks -> Sockets \cup {0}]
  /\ cancelled \subseteq Tasks
  /\ sockets \in [Ports -> Sockets \cup {0}]
  /\ opened \in 0 .. 2 * MaxTasks
  /\ refCount \in [Sockets -> Int]
  /\ timers \in [Sockets -> SUBSET TimerKinds]
  /\ expired \subseteq Sockets
  /\ late \in BOOLEAN

Init ==
  /\ tokens = [t \in Tokens |-> 0]
  /\ usedPorts = {} /\ pending = {} /\ arriving = {}
  /\ serving = FALSE /\ closed = FALSE
  /\ socksTasks = [p \in Ports |-> 0]
  /\ taskPort = [i \in Tasks |-> 0]
  /\ loop = [i \in Tasks |-> "none"]
  /\ stopper = [i \in Tasks |-> "none"]
  /\ listener = [i \in Tasks |-> 0]
  /\ cancelled = {}
  /\ sockets = [p \in Ports |-> 0]
  /\ opened = 0
  /\ refCount = [s \in Sockets |-> 0]
  /\ timers = [s \in Sockets |-> {}]
  /\ expired = {}
  /\ late = FALSE

-----------------------------------------------------------------------------
(* The socket manager, under its mutex.                                    *)

Open(s) == \E p \in Ports : sockets[p] = s

\* Faulty GetListener: a reused socket keeps its close timer.
GetListenerKeepsTimer(p, s) ==
  \/ /\ s = sockets[p] /\ s # 0
     /\ refCount' = [refCount EXCEPT ![s] = @ + 1]
     /\ UNCHANGED <<sockets, opened, timers, late>>
  \/ /\ sockets[p] = 0 /\ s = opened + 1 /\ s \in Sockets
     /\ sockets' = [sockets EXCEPT ![p] = s]
     /\ opened' = s
     /\ refCount' = [refCount EXCEPT ![s] = 1]
     /\ UNCHANGED <<timers, late>>

\* GetListener(p); s is the socket it returns.
GetListener(p, s) ==
  \/ /\ s = sockets[p] /\ s # 0
     /\ refCount' = [refCount EXCEPT ![s] = @ + 1]
     /\ timers' = [timers EXCEPT ![s] = @ \ {"latest"}]
     /\ late' = (late \/ "fired" \in timers[s])
     /\ UNCHANGED <<sockets, opened>>
  \/ /\ sockets[p] = 0 /\ s = opened + 1 /\ s \in Sockets
     /\ sockets' = [sockets EXCEPT ![p] = s]
     /\ opened' = s
     /\ refCount' = [refCount EXCEPT ![s] = 1]
     /\ UNCHANGED <<timers, late>>

\* ReleaseListener(p): by port, whichever socket is there by now.
ReleaseListener(p) ==
  LET s == sockets[p]
  IN  /\ IF s = 0
           THEN UNCHANGED <<refCount, timers>>
           ELSE /\ refCount' = [refCount EXCEPT ![s] = @ - 1]
                /\ timers' = IF refCount[s] > 1 THEN timers
                             ELSE [timers EXCEPT ![s] = @ \cup {"latest"}
                                     \cup (IF "latest" \in @ THEN {"stale"} ELSE {})]
      /\ UNCHANGED <<sockets, opened, late>>

\* SocketCleanupDelay has passed for an armed timer of socket s; Stop comes
\* too late for it.
TimerFires(s) ==
  /\ \E k \in timers[s] \cap {"latest", "stale"} :
       timers' = [timers EXCEPT ![s] = (@ \ {k}) \cup {"fired"}]
  /\ UNCHANGED <<server, task, sockets, opened, refCount, expired, late>>

\* The callback of a fired timer gets the mutex: it closes the socket if the
\* port still has it.
TimerCloses(s) ==
  /\ "fired" \in timers[s]
  /\ timers' = [timers EXCEPT ![s] = @ \ {"fired"}]
  /\ sockets' = [p \in Ports |-> IF sockets[p] = s THEN 0 ELSE sockets[p]]
  /\ UNCHANGED <<server, task, opened, refCount, expired, late>>

-----------------------------------------------------------------------------
(* Tokens and tasks, under the server's mutex.                             *)

\* go runSocksServer on port p as task i; a task started on a closed server
\* has a cancelled context.
StartTask(i, p) ==
  /\ loop[i] = "none" /\ \A j \in Tasks : j < i => loop[j] # "none"
  /\ taskPort' = [taskPort EXCEPT ![i] = p]
  /\ loop' = [loop EXCEPT ![i] = "starting"]
  /\ socksTasks' = [socksTasks EXCEPT ![p] = i]
  /\ cancelled' = IF closed THEN cancelled \cup {i} ELSE cancelled
  /\ UNCHANGED <<stopper, listener>>

\* PortPool.Get: the requested port, or any port of the pool, if it is free.
PortGet(p) == p \notin usedPorts /\ usedPorts' = usedPorts \cup {p}

\* AddReverseToken of a token that is not there yet.  Nobody adds or removes
\* tokens on a closed server: its API is down.
AddReverseToken(t, p) ==
  /\ ~closed /\ tokens[t] = 0
  /\ PortGet(p)
  /\ tokens' = [tokens EXCEPT ![t] = p]
  /\ IF serving /\ ~WaitClient
       THEN \E i \in Tasks : StartTask(i, p)
       ELSE UNCHANGED <<task, socksTasks>>
  /\ UNCHANGED <<pending, serving, closed, arriving, manager, expired>>

\* RemoveToken of a reverse token: its task is cancelled, its port free.
RemoveToken(t) ==
  LET p == tokens[t]
  IN  /\ ~closed /\ p # 0
      /\ tokens' = [tokens EXCEPT ![t] = 0]
      /\ cancelled' = cancelled \cup ({socksTasks[p]} \ {0})
      /\ socksTasks' = [socksTasks EXCEPT ![p] = 0]
      /\ usedPorts' = usedPorts \ {p}
      /\ UNCHANGED <<pending, serving, closed, arriving, taskPort, loop, stopper, listener,
                     manager, expired>>

\* Serve publishes wsServer and collects the tokens that were added before.
Serve ==
  /\ ~serving /\ ~closed
  /\ serving' = TRUE
  /\ pending' = {t \in Tokens : tokens[t] # 0}
  /\ UNCHANGED <<tokens, usedPorts, closed, arriving, socksTasks, task, manager, expired>>

HandlePendingToken(t) ==
  /\ t \in pending
  /\ pending' = pending \ {t}
  /\ IF ~WaitClient /\ tokens[t] # 0 /\ socksTasks[tokens[t]] = 0
       THEN \E i \in Tasks : StartTask(i, tokens[t])
       ELSE UNCHANGED <<task, socksTasks>>
  /\ UNCHANGED <<tokens, usedPorts, serving, closed, arriving, manager, expired>>

\* authenticateWebSocketClient lets a provider with token t in.
Authenticate(t) ==
  /\ serving /\ ~closed /\ tokens[t] # 0
  /\ arriving' = arriving \cup {t}
  /\ UNCHANGED <<tokens, usedPorts, pending, serving, closed, socksTasks, task, manager, expired>>

\* startReverseSocksServer for that provider, which the token may not have
\* survived: it binds the port before it starts the task.
StartReverseSocksServer(t) ==
  /\ t \in arriving
  /\ arriving' = arriving \ {t}
  /\ IF tokens[t] # 0 /\ socksTasks[tokens[t]] = 0
       THEN /\ \E s \in Sockets : GetListener(tokens[t], s)
            /\ \E i \in Tasks : StartTask(i, tokens[t])
       ELSE UNCHANGED <<task, socksTasks, manager>>
  /\ UNCHANGED <<tokens, usedPorts, pending, serving, closed, expired>>

\* Faulty Close: the tasks are forgotten and not cancelled.
CloseKeepsTasks ==
  /\ serving /\ ~closed
  /\ closed' = TRUE
  /\ socksTasks' = [p \in Ports |-> 0]
  /\ sockets' = [p \in Ports |-> 0]
  /\ timers' = [s \in Sockets |-> IF Open(s) THEN timers[s] \ {"latest"} ELSE timers[s]]
  /\ UNCHANGED <<tokens, usedPorts, pending, serving, arriving, task, opened, refCount, expired, late>>

\* LinkSocksServer.Close with SocketManager.Close.
Close ==
  /\ serving /\ ~closed
  /\ closed' = TRUE
  /\ cancelled' = {i \in Tasks : loop[i] # "none"}
  /\ socksTasks' = [p \in Ports |-> 0]
  /\ sockets' = [p \in Ports |-> 0]
  /\ timers' = [s \in Sockets |-> IF Open(s) THEN timers[s] \ {"latest"} ELSE timers[s]]
  /\ UNCHANGED <<tokens, usedPorts, pending, serving, arriving, taskPort, loop, stopper,
                 listener, opened, refCount, expired, late>>

-----------------------------------------------------------------------------
(* One run of runSocksServer.                                              *)

TaskListens(i) ==
  /\ loop[i] = "starting"
  /\ \E s \in Sockets : /\ GetListener(taskPort[i], s)
                        /\ listener' = [listener EXCEPT ![i] = s]
  /\ loop' = [loop EXCEPT ![i] = "accepting"]
  /\ stopper' = [stopper EXCEPT ![i] = "waiting"]
  /\ UNCHANGED <<server, taskPort, cancelled, expired>>

\* Accept returns an error; a task that is not cancelled tries again.
AcceptFails(i) ==
  /\ loop[i] = "accepting" /\ i \in cancelled
  /\ listener[i] \in expired \/ ~Open(listener[i])
  /\ loop' = [loop EXCEPT ![i] = "failed"]
  /\ UNCHANGED <<server, taskPort, stopper, listener, cancelled, manager, expired>>

\* SetDeadline(time.Time{}) before the loop returns.
ClearDeadline(i) ==
  /\ loop[i] = "failed"
  /\ loop' = [loop EXCEPT ![i] = "returning"]
  /\ expired' = expired \ {listener[i]}
  /\ UNCHANGED <<server, taskPort, stopper, listener, cancelled, manager>>

\* The deferred ReleaseListener.
LoopReleases(i) ==
  /\ loop[i] = "returning"
  /\ loop' = [loop EXCEPT ![i] = "done"]
  /\ ReleaseListener(taskPort[i])
  /\ UNCHANGED <<server, taskPort, stopper, listener, cancelled, expired>>

\* The stopper makes Accept return, then releases the listener as well.
SetDeadline(i) ==
  /\ stopper[i] = "waiting" /\ i \in cancelled
  /\ stopper' = [stopper EXCEPT ![i] = "expired"]
  /\ expired' = IF Open(listener[i]) THEN expired \cup {listener[i]} ELSE expired
  /\ UNCHANGED <<server, taskPort, loop, listener, cancelled, manager>>

StopperReleases(i) ==
  /\ stopper[i] = "expired"
  /\ stopper' = [stopper EXCEPT ![i] = "done"]
  /\ ReleaseListener(taskPort[i])
  /\ UNCHANGED <<server, taskPort, loop, listener, cancelled, expired>>

TaskStep(i) ==
  \/ TaskListens(i) \/ AcceptFails(i) \/ ClearDeadline(i)
  \/ LoopReleases(i) \/ SetDeadline(i) \/ StopperReleases(i)

-----------------------------------------------------------------------------
Next ==
  \/ \E t \in Tokens : \/ \E p \in Ports : AddReverseToken(t, p)
                       \/ RemoveToken(t)
                       \/ HandlePendingToken(t) \/ Authenticate(t)
                       \/ StartReverseSocksServer(t)
  \/ Serve \/ Close
  \/ \E i \in Tasks : TaskStep(i)
  \/ \E s \in Sockets : TimerFires(s) \/ TimerCloses(s)

Spec == Init /\ [][Next]_vars

\* Goroutines that can run do run and timers fire.
Fairness ==
  /\ \A i \in Tasks : /\ WF_vars(TaskListens(i)) /\ WF_vars(AcceptFails(i))
                      /\ WF_vars(ClearDeadline(i)) /\ WF_vars(LoopReleases(i))
                      /\ WF_vars(SetDeadline(i)) /\ WF_vars(StopperReleases(i))
  /\ \A s \in Sockets : WF_vars(TimerFires(s)) /\ WF_vars(TimerCloses(s))

FairSpec == Spec /\ Fairness

-----------------------------------------------------------------------------
(* Properties.                                                             *)

Serves(i) == loop[i] = "accepting" /\ i \notin cancelled

\* The delayed close only hits unused sockets: the listener of a task that
\* serves a token is open, unless GetListener came after the timer had fired.
ServedWhileOpen == late \/ \A i \in Tasks : Serves(i) => Open(listener[i])

\* Removing a token ends its SOCKS server: a cancelled task stops accepting.
CancelledStops == \A i \in Tasks : i \in cancelled ~> loop[i] = "done"

\* Close leaves no listening socket behind, not even when a task or a provider
\* that was under way binds a port after it.
CloseUnbinds == closed ~> [](\A p \in Ports : sockets[p] = 0)
=============================================================================
