---------------------------- MODULE TokenRegistry ----------------------------
(***************************************************************************)
(* Tokens, clients and waiting requests of the server: tokens of three     *)
(* kinds are added and removed while connections authenticate, register,   *)
(* serve and leave, and requests wait for a provider of a token.           *)
(*                                                                         *)
(* linksocks/server.go   tokenExists, AddForwardToken, AddReverseToken,    *)
(*                       AddConnectorToken, RemoveToken, handleWebSocket,  *)
(*                       authenticateWebSocketClient,                      *)
(*                       registerWebSocketClient, cleanupConnection,       *)
(*                       broadcastPartners..., waitForNextWebSocket,       *)
(*                       getNextWebSocketLocked                            *)
(*                                                                         *)
(* One action is one critical section of LinkSocksServer.mu.  Ports and    *)
(* local listeners are in SocksListeners, channels in ConnectorRelay.      *)
(* Access rules, statistics and the URL form of authentication, which      *)
(* reaches the same states, are left out.                                  *)
(***************************************************************************)
EXTENDS Integers, Sequences, FiniteSets

CONSTANTS Tokens,      \* tokens an operator may add
          Internals,   \* internal tokens: the instance identifiers of clients
          Clients,     \* connections, each with a client ID of its own
          Requests,    \* requests that wait for a provider
          Instance,    \* the instance a connection belongs to
          Major,       \* the protocol generation a connection speaks
          MaxAdders,   \* bound on concurrent calls that add a token
          MaxChanges,  \* bound on the calls that add or remove one
          None

Names == Tokens \cup Internals
Majors == {0, 1, 2}    \* generation a request asks for, 0 for any

ASSUME RegistryAssumption ==
  /\ Tokens \cap Internals = {}
  /\ IsFiniteSet(Clients)
  /\ None \notin Names \cup Clients
  /\ Instance \in [Clients -> Internals]
  /\ Major \in [Clients -> Majors \ {0}]
  /\ MaxAdders \in Nat /\ MaxChanges \in Nat

VARIABLES
  forwardTokens,   \* LinkSocksServer.forwardTokens
  tokens,          \* LinkSocksServer.tokens: "port", "managed" for port -1, "none"
  connectorTokens, \* LinkSocksServer.connectorTokens
  internalTokens,  \* LinkSocksServer.internalTokens, as sets
  tokenClients,    \* LinkSocksServer.tokenClients
  tokenIndexes,    \* LinkSocksServer.tokenIndexes
  clients,         \* LinkSocksServer.clients
  clientMeta,      \* LinkSocksServer.clientMeta: role and reverse token
  changes,         \* calls that added or removed a token, for the bound
  adding,          \* calls between tokenExists and the lock
  handler,         \* handleWebSocket of a connection
  up,              \* connections that are open
  told,            \* count of the last PartnersMessage a client received, or -1
  request          \* requests in waitForNextWebSocket; sub is their channel

names == <<forwardTokens, tokens, connectorTokens, internalTokens>>
registry == <<tokenClients, tokenIndexes, clients, clientMeta>>
vars == <<names, registry, changes, adding, handler, up, told, request>>

Listed(n) == {tokenClients[n][i] : i \in DOMAIN tokenClients[n]}
Idle == [at |-> "none", token |-> None, major |-> 0, sub |-> "none"]
NoMeta == [role |-> "none", reverse |-> None]

Init ==
  /\ forwardTokens = {}
  /\ tokens = [n \in Names |-> "none"]
  /\ connectorTokens = [t \in Tokens |-> None]
  /\ internalTokens = [t \in Tokens |-> {}]
  /\ tokenClients = [n \in Names |-> <<>>]
  /\ tokenIndexes = [n \in Names |-> 0]
  /\ clients = {}
  /\ clientMeta = [c \in Clients |-> NoMeta]
  /\ changes = 0
  /\ adding = {}
  /\ handler = [c \in Clients |-> [at |-> "idle", role |-> "none", reverse |-> None,
                                   token |-> None, count |-> 0]]
  /\ up = [c \in Clients |-> TRUE]
  /\ told = [c \in Clients |-> -1]
  /\ request = [r \in Requests |-> Idle]

-----------------------------------------------------------------------------
(* Tokens.                                                                 *)

Change == changes < MaxChanges /\ changes' = changes + 1

TokenExists(t) ==
  t \in forwardTokens \/ tokens[t] # "none" \/ connectorTokens[t] # None

\* AddForwardToken and AddReverseToken ask tokenExists before they lock.
AddChecks(t, kind) ==
  /\ Change
  /\ ~TokenExists(t)
  /\ Cardinality(adding \cup {<<t, kind>>}) <= MaxAdders
  /\ adding' = adding \cup {<<t, kind>>}
  /\ UNCHANGED <<names, registry, handler, up, told, request>>

AddForwardToken(t) ==
  /\ <<t, "forward">> \in adding
  /\ adding' = adding \ {<<t, "forward">>}
  /\ forwardTokens' = forwardTokens \cup {t}
  /\ UNCHANGED <<changes, tokens, connectorTokens, internalTokens, registry, handler, up, told,
                 request>>

\* A managed (autonomy) token is stored without a second look.
AddReverseToken(t, kind) ==
  /\ <<t, kind>> \in adding
  /\ adding' = adding \ {<<t, kind>>}
  /\ tokens' = IF kind = "managed" \/ tokens[t] = "none"
                 THEN [tokens EXCEPT ![t] = kind] ELSE tokens
  /\ UNCHANGED <<changes, forwardTokens, connectorTokens, internalTokens, registry, handler, up,
                 told, request>>

\* Faulty AddConnectorToken: the reverse token is not looked up.
AddConnectorTokenBlindly(t, n) ==
  /\ Change
  /\ ~TokenExists(t)
  /\ connectorTokens' = [connectorTokens EXCEPT ![t] = n]
  /\ UNCHANGED <<forwardTokens, tokens, internalTokens, registry, adding, handler, up, told,
                 request>>

\* Called by an operator, or by a provider that manages the connectors of its
\* internal token (handleConnectorMessage).
AddConnectorToken(t, n) ==
  /\ Change
  /\ tokens[n] # "none"
  /\ ~TokenExists(t)
  /\ connectorTokens' = [connectorTokens EXCEPT ![t] = n]
  /\ UNCHANGED <<forwardTokens, tokens, internalTokens, registry, adding, handler, up, told,
                 request>>

\* Requests whose availability channel is deleted with its token.
Unsubscribed(gone) ==
  [r \in Requests |->
     IF request[r].sub = "live" /\ request[r].token \in gone
       THEN [request[r] EXCEPT !.sub = "lost"] ELSE request[r]]

\* RemoveToken closes the connections of every name it removes.
Disconnected(gone) ==
  LET lost == UNION {Listed(n) : n \in gone}
  IN  /\ up' = [c \in Clients |-> up[c] /\ c \notin lost]
      /\ clients' = clients \ lost
      /\ tokenClients' = [n \in Names |-> IF n \in gone THEN <<>> ELSE tokenClients[n]]

\* The internal tokens go first, then the token by its first kind.
RemoveToken(t) ==
  LET inner == internalTokens[t]
      asConnector == connectorTokens[t] # None
      asReverse == ~asConnector /\ tokens[t] # "none"
      asForward == ~asConnector /\ ~asReverse /\ t \in forwardTokens
      users == {u \in Tokens : asReverse /\ connectorTokens[u] = t}
      connectors == users \cup {u \in {t} : asConnector}
      reverse == inner \cup {u \in {t} : asReverse}
  IN  /\ Change
      /\ TokenExists(t) \/ inner # {}
      /\ Disconnected(connectors \cup reverse \cup {u \in {t} : asForward})
      /\ connectorTokens' = [u \in Tokens |-> IF u \in connectors THEN None ELSE connectorTokens[u]]
      /\ tokens' = [n \in Names |-> IF n \in reverse THEN "none" ELSE tokens[n]]
      /\ tokenIndexes' = [n \in Names |-> IF n \in reverse THEN 0 ELSE tokenIndexes[n]]
      /\ forwardTokens' = IF asForward THEN forwardTokens \ {t} ELSE forwardTokens
      /\ internalTokens' = [internalTokens EXCEPT ![t] = {}]
      /\ request' = Unsubscribed(reverse)
      /\ UNCHANGED <<clientMeta, adding, handler, told>>

-----------------------------------------------------------------------------
(* Connections: handleWebSocket.                                           *)

\* Role of a connection that presents token t, "none" if it is rejected.
RoleOf(t, reverse) ==
  CASE reverse /\ tokens[t] # "none" -> "reverse"
    [] ~reverse /\ connectorTokens[t] # None /\ tokens[connectorTokens[t]] # "none" -> "connector"
    [] ~reverse /\ t \in forwardTokens -> "forward"
    [] OTHER -> "none"

Authenticate(c, t, reverse) ==
  /\ handler[c].at = "idle"
  /\ RoleOf(t, reverse) # "none"
  /\ handler' = [handler EXCEPT ![c] = [@ EXCEPT !.at = "valid", !.role = RoleOf(t, reverse),
                                             !.token = t, !.reverse = connectorTokens[t]]]
  /\ UNCHANGED <<names, registry, changes, adding, up, told, request>>

\* A provider of a managed token is registered under its instance.
AssignToken(c) ==
  LET t == handler[c].token
      n == Instance[c]
      managed == handler[c].role = "reverse" /\ tokens[t] = "managed"
  IN  /\ handler[c].at = "valid"
      /\ handler' = [handler EXCEPT ![c] = [@ EXCEPT !.at = "accepted",
                                               !.token = IF managed THEN n ELSE t]]
      /\ tokens' = IF managed THEN [tokens EXCEPT ![n] = "managed"] ELSE tokens
      /\ tokenIndexes' = IF managed THEN [tokenIndexes EXCEPT ![n] = 0] ELSE tokenIndexes
      /\ internalTokens' = IF managed THEN [internalTokens EXCEPT ![t] = @ \cup {n}]
                                      ELSE internalTokens
      /\ UNCHANGED <<forwardTokens, connectorTokens, tokenClients, clients, clientMeta, changes,
                     adding, up, told, request>>

\* notifyTokenAvailabilityLocked closes the channel and replaces it.
Notified(n) ==
  [r \in Requests |->
     IF request[r].sub = "live" /\ request[r].token = n
       THEN [request[r] EXCEPT !.sub = "closed"] ELSE request[r]]

\* Metadata of a connection: the reverse token is kept for a connector.
MetaOf(h) ==
  [role |-> h.role, reverse |-> IF h.role = "connector" THEN h.reverse ELSE None]

\* Faulty registration: only the first provider of a token is announced.
RegisterNotifiesFirst(c) ==
  LET h == handler[c]
      n == h.token
  IN  /\ h.at = "accepted" /\ up[c]
      /\ tokenClients' = [tokenClients EXCEPT ![n] = Append(@, c)]
      /\ clients' = clients \cup {c}
      /\ clientMeta' = [clientMeta EXCEPT ![c] = MetaOf(h)]
      /\ request' = IF h.role = "reverse" /\ tokenClients[n] = <<>> THEN Notified(n) ELSE request
      /\ handler' = [handler EXCEPT ![c].at = IF h.role = "forward" THEN "serving"
                                               ELSE "announcing"]
      /\ UNCHANGED <<names, tokenIndexes, changes, adding, up, told>>

\* registerWebSocketClient: the response is written, then the connection is
\* published.
Register(c) ==
  LET h == handler[c]
      n == h.token
  IN  /\ h.at = "accepted" /\ up[c]
      /\ tokenClients' = [tokenClients EXCEPT ![n] = Append(@, c)]
      /\ clients' = clients \cup {c}
      /\ clientMeta' = [clientMeta EXCEPT ![c] = MetaOf(h)]
      /\ request' = IF h.role = "reverse" THEN Notified(n) ELSE request
      /\ handler' = [handler EXCEPT ![c].at = IF h.role = "forward" THEN "serving"
                                               ELSE "announcing"]
      /\ UNCHANGED <<names, tokenIndexes, changes, adding, up, told>>

\* The response could not be written.
RegisterFails(c) ==
  /\ handler[c].at = "accepted" /\ ~up[c]
  /\ handler' = [handler EXCEPT ![c].at = "leaving"]
  /\ UNCHANGED <<names, registry, changes, adding, up, told, request>>

\* A client is listed once (OneRegistration), so the lengths of the lists add
\* up to the number of clients on them.
ProviderCount ==
  Cardinality({c \in Clients : \E n \in Names : tokens[n] # "none" /\ c \in Listed(n)})

ConnectorCount(n) ==
  Cardinality({c \in Clients : \E t \in Tokens : connectorTokens[t] = n /\ c \in Listed(t)})

\* broadcastPartnersToConnectors and ...ToReverseClients count and send
\* under one read lock, which keeps registrations out.
ToldConnectors ==
  LET all == UNION {Listed(t) : t \in {u \in Tokens : connectorTokens[u] # None}}
  IN  [c \in Clients |-> IF c \in all /\ up[c] THEN ProviderCount ELSE told[c]]

ToldProviders(n) ==
  [c \in Clients |-> IF n # None /\ c \in Listed(n) /\ up[c] THEN ConnectorCount(n) ELSE told[c]]

Announce(c) ==
  LET h == handler[c]
  IN  /\ h.at = "announcing"
      /\ told' = IF h.role = "reverse" THEN ToldConnectors ELSE ToldProviders(h.reverse)
      /\ handler' = [handler EXCEPT ![c].at = IF h.role = "reverse" THEN "serving" ELSE "counting"]
      /\ UNCHANGED <<names, registry, changes, adding, up, request>>

\* A connector is greeted with a count that was taken before.
CountPartners(c) ==
  /\ handler[c].at = "counting"
  /\ handler' = [handler EXCEPT ![c] = [@ EXCEPT !.at = "greeting", !.count = ProviderCount]]
  /\ UNCHANGED <<names, registry, changes, adding, up, told, request>>

Greet(c) ==
  /\ handler[c].at = "greeting"
  /\ told' = IF up[c] THEN [told EXCEPT ![c] = handler[c].count] ELSE told
  /\ handler' = [handler EXCEPT ![c] = [@ EXCEPT !.at = "serving", !.count = 0]]
  /\ UNCHANGED <<names, registry, changes, adding, up, request>>

LinkLost(c) ==
  /\ up[c] /\ handler[c].at \notin {"idle", "left"}
  /\ up' = [up EXCEPT ![c] = FALSE]
  /\ UNCHANGED <<names, registry, changes, adding, handler, told, request>>

\* The dispatcher ends with the connection.
Leaves(c) ==
  \/ handler[c].at = "leaving"
  \/ handler[c].at = "serving" /\ ~up[c]

\* What cleanupConnection knows of a client: its metadata, or what its token
\* is now if it has none and others are listed under the token.
KnownAs(c) ==
  LET n == handler[c].token
  IN  CASE clientMeta[c] # NoMeta -> clientMeta[c]
        [] clientMeta[c] = NoMeta /\ tokenClients[n] # <<>> /\ tokens[n] # "none"
             -> [role |-> "reverse", reverse |-> None]
        [] clientMeta[c] = NoMeta /\ tokenClients[n] # <<>> /\ tokens[n] = "none" /\ n \in Tokens
             -> [role |-> "connector", reverse |-> connectorTokens[n]]
        [] OTHER -> NoMeta

\* The list without client c, which is on it at most once.
Without(s, c) ==
  LET k == CHOOSE i \in DOMAIN s : s[i] = c
  IN  IF \E i \in DOMAIN s : s[i] = c
        THEN [i \in 1 .. Len(s) - 1 |-> IF i < k THEN s[i] ELSE s[i + 1]]
        ELSE s

\* Faulty cleanupConnection: it trusts the list of clients.
CleanupIfListed(c) ==
  LET n == handler[c].token
      rest == Without(tokenClients[n], c)
  IN  /\ Leaves(c)
      /\ tokenClients' = [tokenClients EXCEPT ![n] = rest]
      /\ tokenIndexes' = IF tokenClients[n] # <<>> /\ rest = <<>>
                           THEN [tokenIndexes EXCEPT ![n] = 0] ELSE tokenIndexes
      /\ clients' = clients \ {c}
      /\ clientMeta' = IF c \in clients THEN [clientMeta EXCEPT ![c] = NoMeta] ELSE clientMeta
      /\ handler' = [handler EXCEPT ![c] = [@ EXCEPT !.at = "notifying", !.role = KnownAs(c).role,
                                                 !.reverse = KnownAs(c).reverse]]
      /\ UNCHANGED <<names, changes, adding, up, told, request>>

Cleanup(c) ==
  LET n == handler[c].token
      rest == Without(tokenClients[n], c)
  IN  /\ Leaves(c)
      /\ tokenClients' = [tokenClients EXCEPT ![n] = rest]
      /\ tokenIndexes' = IF tokenClients[n] # <<>> /\ rest = <<>>
                           THEN [tokenIndexes EXCEPT ![n] = 0] ELSE tokenIndexes
      /\ clients' = clients \ {c}
      /\ clientMeta' = [clientMeta EXCEPT ![c] = NoMeta]
      /\ handler' = [handler EXCEPT ![c] = [@ EXCEPT !.at = "notifying", !.role = KnownAs(c).role,
                                                 !.reverse = KnownAs(c).reverse]]
      /\ UNCHANGED <<names, changes, adding, up, told, request>>

Notify(c) ==
  LET h == handler[c]
  IN  /\ h.at = "notifying"
      /\ told' = CASE h.role = "reverse" -> ToldConnectors
                   [] h.role = "connector" -> ToldProviders(h.reverse)
                   [] OTHER -> told
      /\ handler' = [handler EXCEPT ![c] = [at |-> "left", role |-> "none", reverse |-> None,
                                             token |-> None, count |-> 0]]
      /\ UNCHANGED <<names, registry, changes, adding, up, request>>

-----------------------------------------------------------------------------
(* Requests: waitForNextWebSocket.                                         *)

\* Faulty round robin: the turn stays where it is.
TurnStays(n, i) == i % Len(tokenClients[n])

\* The index getNextWebSocketLocked leaves behind.
NextTurn(n, i) == (i + 1) % Len(tokenClients[n])

\* The provider it returns at index i for generation m, None if there is none:
\* the first that fits, going round the list from i.
Chosen(n, i, m) ==
  LET list == tokenClients[n]
      fitting == {k \in DOMAIN list : m \in {0, Major[list[k]]}}
      Distance(k) == (k - 1 - i) % Len(list)
  IN  IF fitting = {} THEN None
      ELSE list[CHOOSE k \in fitting : \A l \in fitting : Distance(k) <= Distance(l)]

\* A request comes from a connector or a listener of reverse token n.
RequestArrives(r, n, m) ==
  /\ request[r].at = "none" /\ tokens[n] # "none"
  /\ request' = [request EXCEPT ![r] = [at |-> "checking", token |-> n, major |-> m,
                                         sub |-> "none"]]
  /\ UNCHANGED <<names, registry, changes, adding, handler, up, told>>

\* It looks for a provider and subscribes to the channel in one section.
RequestChecks(r) ==
  LET n == request[r].token
      found == Chosen(n, tokenIndexes[n], request[r].major)
  IN  /\ request[r].at = "checking"
      /\ tokenIndexes' = IF tokenClients[n] = <<>> THEN tokenIndexes
                         ELSE [tokenIndexes EXCEPT ![n] = NextTurn(n, @)]
      /\ request' = [request EXCEPT ![r] = IF found # None THEN Idle
                                           ELSE [@ EXCEPT !.at = "waiting", !.sub = "live"]]
      /\ UNCHANGED <<names, tokenClients, clients, clientMeta, changes, adding, handler, up, told>>

RequestWakes(r) ==
  /\ request[r].at = "waiting" /\ request[r].sub = "closed"
  /\ request' = [request EXCEPT ![r].at = "checking", ![r].sub = "none"]
  /\ UNCHANGED <<names, registry, changes, adding, handler, up, told>>

RequestTimesOut(r) ==
  /\ request[r].at = "waiting"
  /\ request' = [request EXCEPT ![r] = Idle]
  /\ UNCHANGED <<names, registry, changes, adding, handler, up, told>>

-----------------------------------------------------------------------------
Next ==
  \/ \E t \in Tokens, kind \in {"forward", "port", "managed"} : AddChecks(t, kind)
  \/ \E t \in Tokens : AddForwardToken(t)
  \/ \E t \in Tokens, kind \in {"port", "managed"} : AddReverseToken(t, kind)
  \/ \E t \in Tokens, n \in Names : AddConnectorToken(t, n)
  \/ \E t \in Tokens : RemoveToken(t)
  \/ \E c \in Clients, t \in Tokens, reverse \in BOOLEAN : Authenticate(c, t, reverse)
  \/ \E c \in Clients : AssignToken(c)
  \/ \E c \in Clients : Register(c)
  \/ \E c \in Clients : RegisterFails(c)
  \/ \E c \in Clients : Announce(c)
  \/ \E c \in Clients : CountPartners(c)
  \/ \E c \in Clients : Greet(c)
  \/ \E c \in Clients : LinkLost(c)
  \/ \E c \in Clients : Cleanup(c)
  \/ \E c \in Clients : Notify(c)
  \/ \E r \in Requests, n \in Names, m \in Majors : RequestArrives(r, n, m)
  \/ \E r \in Requests : RequestChecks(r)
  \/ \E r \in Requests : RequestWakes(r)
  \/ \E r \in Requests : RequestTimesOut(r)

Spec == Init /\ [][Next]_vars

-----------------------------------------------------------------------------
(* Properties.                                                             *)

Roles == {"none", "reverse", "connector", "forward"}
Stages == {"idle", "valid", "accepted", "announcing", "counting", "greeting", "serving", "leaving",
           "notifying", "left"}
Meta == [role : Roles, reverse : Names \cup {None}]
Handler == [at : Stages, role : Roles, reverse : Names \cup {None}, token : Names \cup {None},
            count : Nat]
Request == [at : {"none", "checking", "waiting"}, token : Names \cup {None}, major : Majors,
            sub : {"none", "live", "closed", "lost"}]

\* Types of the registry, the handlers and the requests.
TypeOK ==
  /\ forwardTokens \subseteq Tokens
  /\ tokens \in [Names -> {"none", "port", "managed"}]
  /\ connectorTokens \in [Tokens -> Names \cup {None}]
  /\ internalTokens \in [Tokens -> SUBSET Internals]
  /\ tokenClients \in [Names -> Seq(Clients)]
  /\ tokenIndexes \in [Names -> Nat]
  /\ clients \subseteq Clients
  /\ clientMeta \in [Clients -> Meta]
  /\ changes \in 0 .. MaxChanges
  /\ adding \subseteq Tokens \X {"forward", "port", "managed"}
  /\ handler \in [Clients -> Handler]
  /\ up \in [Clients -> BOOLEAN]
  /\ told \in [Clients -> Nat \cup {-1}]
  /\ request \in [Requests -> Request]

\* A request that sleeps on a channel of its token that can still be closed
\* has no provider it could use (waitForNextWebSocket: "Check availability and
\* subscribe under the same lock so a provider published in between cannot be
\* missed.").
NoMissedProvider ==
  \A r \in Requests : request[r].sub = "live" =>
    \A c \in Listed(request[r].token) :
      clientMeta[c].role = "reverse" => request[r].major \notin {0, Major[c]}

\* The list of clients and the lists of the tokens agree: a client is in the
\* former exactly if its token lists it, no other token lists it and its
\* metadata is there; a connection that has left is in none of them.
OneRegistration ==
  \A c \in Clients :
    /\ c \in clients <=> \E n \in Names : c \in Listed(n)
    /\ c \in clients => clientMeta[c] # NoMeta
    /\ \A n \in Names : c \in Listed(n) =>
         /\ n = handler[c].token
         /\ \A i, j \in DOMAIN tokenClients[n] :
              tokenClients[n][i] = c /\ tokenClients[n][j] = c => i = j
    /\ handler[c].at \in {"notifying", "left"} => c \notin clients /\ clientMeta[c] = NoMeta

\* Round robin: whatever the index is after providers came and left, the next
\* calls of getNextWebSocketLocked, one per listed provider, choose every
\* provider of the generation that is asked for.
EveryProviderHasATurn ==
  \A n \in Names, m \in Majors :
    LET Turn[k \in Nat] == IF k = 0 THEN tokenIndexes[n] ELSE NextTurn(n, Turn[k - 1])
    IN  \A c \in Listed(n) : m = 0 \/ Major[c] = m =>
          \E k \in 0 .. Len(tokenClients[n]) - 1 : Chosen(n, Turn[k], m) = c

\* What OneRegistration and NoMissedProvider rest on: a handler has its role
\* and token from authentication on, is registered between Register and
\* Cleanup only, and a request knows its token while it is under way.
StageInv ==
  /\ \A c \in Clients :
       /\ handler[c].at \in {"idle", "valid", "accepted", "leaving"}
            => c \notin clients /\ clientMeta[c] = NoMeta
       /\ handler[c].at \notin {"idle", "left"} => handler[c].token \in Names
       /\ handler[c].at = "valid" => handler[c].token \in Tokens
       /\ handler[c].at \in {"valid", "accepted"} => handler[c].role # "none"
  /\ \A r \in Requests :
       /\ request[r].at # "none" => request[r].token \in Names
       /\ request[r].sub # "none" => request[r].at = "waiting"

IInv == TypeOK /\ StageInv /\ OneRegistration /\ NoMissedProvider

\* A connector token of a token an operator added goes when that one goes.
ConnectorHasReverse ==
  \A t \in Tokens : connectorTokens[t] \in Tokens => tokens[connectorTokens[t]] # "none"

\* A token is of one kind ("Disallow collisions with existing forward/reverse
\* tokens.", AddConnectorToken).  It does not hold: tokenExists is asked
\* before the lock.
OneKind ==
  \A t \in Tokens :
    Cardinality({k \in {"forward", "reverse", "connector"} :
                   \/ k = "forward" /\ t \in forwardTokens
                   \/ k = "reverse" /\ tokens[t] # "none"
                   \/ k = "connector" /\ connectorTokens[t] # None}) <= 1

\* "RemoveToken removes a token and disconnects all its clients": no client is
\* listed under a token that does not exist.  It does not hold: a connection
\* that authenticated before registers after it.
RemovedIsDisconnected ==
  \A t \in Tokens : tokenClients[t] # <<>> => TokenExists(t)

\* "Remove all connector tokens using this reverse token" (RemoveToken).  It
\* does not hold for the internal tokens of a managed one.
NoDanglingConnector ==
  \A t \in Tokens : connectorTokens[t] # None => tokens[connectorTokens[t]] # "none"

\* "Partners counts must update on both connect and disconnect."
\* (cleanupConnection): once every handler rests, a connector knows the number
\* of providers.  It does not hold: the greeting carries an older count.
PartnersKnown ==
  (\A c \in Clients : /\ handler[c].at \in {"idle", "serving", "left"}
                      /\ handler[c].at = "serving" => up[c])
    => \A c \in Clients :
         c \in clients /\ clientMeta[c].role = "connector" => told[c] = ProviderCount

=============================================================================
