------------------------- MODULE TokenRegistryProofs -------------------------
(***************************************************************************)
(* Proofs about TokenRegistry, for any number of tokens, connections and   *)
(* requests: types, one registration per client, and no request that       *)
(* sleeps past a provider.                                                 *)
(***************************************************************************)
EXTENDS TokenRegistry, FiniteSetTheorems, WellFoundedInduction, TLAPS

\* Taking a client off a list that holds it once keeps the others, once each.
LEMMA WithoutLemma ==
  ASSUME NEW S, NEW s \in Seq(S), NEW c,
         \A i, j \in DOMAIN s : s[i] = c /\ s[j] = c => i = j
  PROVE  LET w == Without(s, c)
         IN  /\ w \in Seq(S)
             /\ {w[i] : i \in DOMAIN w} = {s[i] : i \in DOMAIN s} \ {c}
             /\ \A d : (\A i, j \in DOMAIN s : s[i] = d /\ s[j] = d => i = j)
                  => \A i, j \in DOMAIN w : w[i] = d /\ w[j] = d => i = j
<1> DEFINE w == Without(s, c)
           k == CHOOSE i \in DOMAIN s : s[i] = c
<1>1. CASE ~ \E i \in DOMAIN s : s[i] = c
  BY <1>1, Zenon DEF Without
<1>2. CASE \E i \in DOMAIN s : s[i] = c
  <2>1. k \in DOMAIN s /\ s[k] = c
    BY <1>2, Zenon
  <2>2. w = [i \in 1 .. Len(s) - 1 |-> IF i < k THEN s[i] ELSE s[i + 1]]
    BY <1>2, Zenon DEF Without
  <2>3. DOMAIN s = 1 .. Len(s) /\ Len(s) \in Nat /\ Len(s) - 1 \in Nat
    BY <2>1
  <2> HIDE DEF w, k
  <2>4. w \in Seq(S) /\ DOMAIN w = 1 .. Len(s) - 1
    BY <2>1, <2>2, <2>3
  <2>5. \A i \in DOMAIN w : w[i] \in {s[j] : j \in DOMAIN s} \ {c}
    BY <2>1, <2>2, <2>3
  <2>6. ASSUME NEW j \in DOMAIN s, s[j] # c PROVE \E i \in DOMAIN w : w[i] = s[j]
    <3>1. CASE j < k
      BY <2>1, <2>2, <2>3, <2>6, <3>1
    <3>2. CASE j > k
      <4>1. j - 1 \in 1 .. Len(s) - 1 /\ ~(j - 1 < k) /\ (j - 1) + 1 = j
        BY <2>1, <2>3, <3>2
      <4> QED  BY <2>2, <4>1, Zenon
    <3>3. j # k
      BY <2>1, <2>6, Zenon
    <3> QED  BY <2>1, <2>3, <3>1, <3>2, <3>3
  <2>7. {w[i] : i \in DOMAIN w} = {s[i] : i \in DOMAIN s} \ {c}
    BY <2>5, <2>6
  <2>8. ASSUME NEW d, \A i, j \in DOMAIN s : s[i] = d /\ s[j] = d => i = j,
               NEW i \in DOMAIN w, NEW j \in DOMAIN w, w[i] = d, w[j] = d
        PROVE  i = j
    <3> DEFINE At(n) == IF n < k THEN n ELSE n + 1
    <3>1. At(i) \in DOMAIN s /\ s[At(i)] = d /\ At(j) \in DOMAIN s /\ s[At(j)] = d
      BY <2>1, <2>2, <2>3, <2>4, <2>8
    <3>2. At(i) = At(j)
      BY <2>8, <3>1, Zenon
    <3> QED  BY <2>1, <2>3, <2>4, <3>2
  <2> QED  BY <2>4, <2>7, <2>8, Zenon DEF w
<1> QED  BY <1>1, <1>2, Zenon

\* A non-empty set of naturals has a least element.
LEMMA LeastElement ==
  ASSUME NEW D \in SUBSET Nat, D # {}
  PROVE  \E x \in D : \A y \in D : x <= y
<1> DEFINE R == OpToRel(<, Nat)
<1>1. IsWellFoundedOn(R, Nat)
  BY NatLessThanWellFounded, Zenon
<1>2. \E x \in D : \A y \in D : ~ (<<y, x>> \in R)
  <2> HIDE DEF R
  <2> QED  BY <1>1, WFMin, Zenon
<1>3. \A x, y \in Nat : y < x => <<y, x>> \in R
  BY Zenon DEF OpToRel
<1> HIDE DEF R
<1>4. PICK x \in D : \A y \in D : ~ (<<y, x>> \in R)
  BY <1>2, Zenon
<1>5. \A y \in D : x \in Nat /\ y \in Nat /\ ~(y < x)
  BY <1>3, <1>4, Zenon
<1>6. \A y \in D : x <= y
  BY <1>5
<1> QED  BY <1>4, <1>6, Zenon

\* Remainders are naturals.
LEMMA ModLemma == \A a \in Int, b \in Nat : b > 0 => a % b \in Nat
OBVIOUS

\* getNextWebSocketLocked returns nothing only if no listed connection fits.
LEMMA ChosenLemma ==
  ASSUME NEW n \in Names, tokenClients \in [Names -> Seq(Clients)], NEW i \in Nat, NEW m \in Majors,
         Chosen(n, i, m) = None
  PROVE  \A c \in Listed(n) : m \notin {0, Major[c]}
<1> DEFINE list == tokenClients[n]
           fitting == {k \in DOMAIN list : m \in {0, Major[list[k]]}}
           Distance(k) == (k - 1 - i) % Len(list)
           D == {Distance(k) : k \in fitting}
           first == CHOOSE k \in fitting : \A l \in fitting : Distance(k) <= Distance(l)
<1>1. SUFFICES ASSUME fitting # {} PROVE FALSE
  BY Zenon DEF Listed
<1>2. list \in Seq(Clients) /\ Len(list) \in Nat /\ DOMAIN list = 1 .. Len(list)
  OBVIOUS
<1>3. D \in SUBSET Nat
  <2>1. ASSUME NEW k \in fitting PROVE Distance(k) \in Nat
    <3>1. k - 1 - i \in Int /\ Len(list) \in Nat /\ Len(list) > 0
      BY <1>2
    <3> HIDE DEF list
    <3> QED  BY <3>1
  <2> QED  BY <2>1, Zenon
<1>4. \E x \in D : \A y \in D : x <= y
  <2> HIDE DEF D
  <2>1. D # {}
    BY <1>1, Zenon DEF D
  <2> QED  BY <1>3, <2>1, LeastElement, Zenon
<1>5. \E k \in fitting : \A l \in fitting : Distance(k) <= Distance(l)
  <2> HIDE DEF Distance, fitting
  <2> QED  BY <1>4, Zenon
<1>6. first \in fitting
  <2> HIDE DEF Distance, fitting
  <2> QED  BY <1>5, Zenon
<1>7. list[first] = None
  BY <1>1, Zenon DEF Chosen
<1>8. list[first] \in Clients
  <2> HIDE DEF first
  <2> QED  BY <1>2, <1>6
<1> QED  BY <1>7, <1>8, RegistryAssumption, Zenon

\* The counts of a PartnersMessage are naturals.
LEMMA CountsLemma == ProviderCount \in Nat /\ \A n : ConnectorCount(n) \in Nat
<1>1. ASSUME NEW S \in SUBSET Clients PROVE Cardinality(S) \in Nat
  BY RegistryAssumption, FS_Subset, FS_CardinalityType, Zenon
<1> QED  BY <1>1, Zenon DEF ProviderCount, ConnectorCount

\* A broadcast leaves a count with every client it reaches.
LEMMA ToldLemma ==
  ASSUME told \in [Clients -> Nat \cup {-1}]
  PROVE  /\ ToldConnectors \in [Clients -> Nat \cup {-1}]
         /\ \A n : ToldProviders(n) \in [Clients -> Nat \cup {-1}]
<1> USE CountsLemma
<1>1. ToldConnectors \in [Clients -> Nat \cup {-1}]
  BY Zenon DEF ToldConnectors
<1>2. \A n : ToldProviders(n) \in [Clients -> Nat \cup {-1}]
  BY Zenon DEF ToldProviders
<1> QED  BY <1>1, <1>2, Zenon

\* Every step keeps the types of the token maps.
LEMMA NamesType ==
  ASSUME TypeOK, StageInv, [Next]_vars
  PROVE  /\ forwardTokens' \subseteq Tokens
         /\ tokens' \in [Names -> {"none", "port", "managed"}]
         /\ connectorTokens' \in [Tokens -> Names \cup {None}]
         /\ internalTokens' \in [Tokens -> SUBSET Internals]
         /\ changes' \in 0 .. MaxChanges
         /\ adding' \subseteq Tokens \X {"forward", "port", "managed"}
<1> DEFINE Goal == /\ forwardTokens' \subseteq Tokens
                   /\ tokens' \in [Names -> {"none", "port", "managed"}]
                   /\ connectorTokens' \in [Tokens -> Names \cup {None}]
                   /\ internalTokens' \in [Tokens -> SUBSET Internals]
                   /\ changes' \in 0 .. MaxChanges
                   /\ adding' \subseteq Tokens \X {"forward", "port", "managed"}
<1> USE RegistryAssumption
<1>0. /\ forwardTokens \subseteq Tokens
      /\ tokens \in [Names -> {"none", "port", "managed"}]
      /\ connectorTokens \in [Tokens -> Names \cup {None}]
      /\ internalTokens \in [Tokens -> SUBSET Internals]
      /\ changes \in 0 .. MaxChanges
      /\ adding \subseteq Tokens \X {"forward", "port", "managed"}
  BY Zenon DEF TypeOK
<1>1. ASSUME NEW t \in Tokens, NEW kind \in {"forward", "port", "managed"}, AddChecks(t, kind)
      PROVE  Goal
  BY <1>0, <1>1 DEF AddChecks, Change, names
<1>2. ASSUME NEW t \in Tokens, AddForwardToken(t) PROVE Goal
  BY <1>0, <1>2, Zenon DEF AddForwardToken
<1>3. ASSUME NEW t \in Tokens, NEW kind \in {"port", "managed"}, AddReverseToken(t, kind) PROVE Goal
  BY <1>0, <1>3, Zenon DEF AddReverseToken, Names
<1>4. ASSUME NEW t \in Tokens, NEW n \in Names, AddConnectorToken(t, n) PROVE Goal
  BY <1>0, <1>4 DEF AddConnectorToken, Change
<1>5. ASSUME NEW t \in Tokens, RemoveToken(t) PROVE Goal
  BY <1>0, <1>5 DEF RemoveToken, Change
<1>6. ASSUME NEW c \in Clients, AssignToken(c) PROVE Goal
  <2>1. Instance[c] \in Internals
    BY Zenon
  <2>2. handler[c].token \in Tokens
    BY <1>6, Zenon DEF AssignToken, StageInv
  <2> QED  BY <1>0, <1>6, <2>1, <2>2, Zenon DEF AssignToken, Names
<1>7. CASE UNCHANGED <<names, changes, adding>>
  BY <1>0, <1>7, Zenon DEF names
<1> QED  BY <1>1, <1>2, <1>3, <1>4, <1>5, <1>6, <1>7, Zenon
         DEF Next, vars, Authenticate, Register, RegisterFails, Announce, CountPartners, Greet,
             LinkLost, Cleanup, Notify, RequestArrives, RequestChecks, RequestWakes,
             RequestTimesOut

\* Every step keeps the types of the lists of clients.
LEMMA ListsType ==
  ASSUME TypeOK, StageInv, OneRegistration, [Next]_vars
  PROVE  /\ tokenClients' \in [Names -> Seq(Clients)]
         /\ tokenIndexes' \in [Names -> Nat]
         /\ clients' \subseteq Clients
         /\ clientMeta' \in [Clients -> Meta]
<1> DEFINE Goal == /\ tokenClients' \in [Names -> Seq(Clients)]
                   /\ tokenIndexes' \in [Names -> Nat]
                   /\ clients' \subseteq Clients
                   /\ clientMeta' \in [Clients -> Meta]
<1>0. /\ tokenClients \in [Names -> Seq(Clients)]
      /\ tokenIndexes \in [Names -> Nat]
      /\ clients \subseteq Clients
      /\ clientMeta \in [Clients -> Meta]
      /\ handler \in [Clients -> Handler]
      /\ request \in [Requests -> Request]
  BY Zenon DEF TypeOK
<1>1. ASSUME NEW t \in Tokens, RemoveToken(t) PROVE Goal
  <2>1. tokenClients' \in [Names -> Seq(Clients)] /\ clients' \subseteq Clients
    BY <1>0, <1>1 DEF RemoveToken, Disconnected
  <2>2. tokenIndexes' \in [Names -> Nat] /\ clientMeta' = clientMeta
    BY <1>0, <1>1, Zenon DEF RemoveToken
  <2> QED  BY <1>0, <2>1, <2>2, Zenon
<1>2. ASSUME NEW c \in Clients, AssignToken(c) PROVE Goal
  BY <1>0, <1>2, Zenon DEF AssignToken
<1>3. ASSUME NEW c \in Clients, Register(c) PROVE Goal
  <2>1. handler[c] \in Handler
    BY <1>0, Zenon
  <2>2. MetaOf(handler[c]) \in Meta
    BY <2>1, Zenon DEF MetaOf, Handler, Meta
  <2>3. handler[c].token \in Names
    BY <1>3, Zenon DEF Register, StageInv
  <2>4. Append(tokenClients[handler[c].token], c) \in Seq(Clients)
    BY <1>0, <2>3
  <2>5. tokenClients' \in [Names -> Seq(Clients)]
    BY <1>0, <1>3, <2>4, Zenon DEF Register
  <2>6. clientMeta' \in [Clients -> Meta]
    BY <1>0, <1>3, <2>2, Zenon DEF Register
  <2> QED  BY <1>0, <1>3, <2>5, <2>6, Zenon DEF Register
<1>4. ASSUME NEW c \in Clients, Cleanup(c) PROVE Goal
  <2> DEFINE n == handler[c].token
  <2>1. n \in Names
    BY <1>4, Zenon DEF Cleanup, Leaves, StageInv
  <2>2. \A i, j \in DOMAIN tokenClients[n] :
          tokenClients[n][i] = c /\ tokenClients[n][j] = c => i = j
    BY <1>4, <2>1 DEF OneRegistration, Listed
  <2>3. Without(tokenClients[n], c) \in Seq(Clients)
    <3>1. tokenClients[n] \in Seq(Clients)
      BY <1>0, <2>1, Zenon
    <3> HIDE DEF n
    <3> QED  BY <2>2, <3>1, WithoutLemma, Zenon
  <2>4. NoMeta \in Meta
    BY Zenon DEF NoMeta, Meta, Roles
  <2> QED  BY <1>0, <1>4, <2>1, <2>3, <2>4, Zenon DEF Cleanup
<1>5. ASSUME NEW r \in Requests, RequestChecks(r) PROVE Goal
  <2> DEFINE n == request[r].token
  <2>1. n \in Names
    BY <1>5, Zenon DEF RequestChecks, StageInv
  <2>2. tokenClients[n] # <<>> => NextTurn(n, tokenIndexes[n]) \in Nat
    <3>1. tokenClients[n] \in Seq(Clients) /\ tokenIndexes[n] \in Nat
      BY <1>0, <2>1, Zenon
    <3>2. tokenClients[n] # <<>> => Len(tokenClients[n]) \in Nat /\ Len(tokenClients[n]) > 0
      BY <3>1
    <3> HIDE DEF n
    <3> QED  BY <3>1, <3>2, ModLemma DEF NextTurn
  <2> QED  BY <1>0, <1>5, <2>1, <2>2, Zenon DEF RequestChecks
<1>6. CASE UNCHANGED registry
  BY <1>0, <1>6, Zenon DEF registry
<1> QED  BY <1>1, <1>2, <1>3, <1>4, <1>5, <1>6, Zenon
         DEF Next, vars, AddChecks, AddForwardToken, AddReverseToken, AddConnectorToken,
             Authenticate, RegisterFails, Announce, CountPartners, Greet, LinkLost, Notify,
             RequestArrives, RequestWakes, RequestTimesOut

\* What cleanupConnection takes a client for has the type of its metadata.
LEMMA KnownAsLemma ==
  ASSUME TypeOK, NEW c \in Clients
  PROVE  KnownAs(c) \in Meta
<1>1. clientMeta[c] \in Meta /\ NoMeta \in Meta
  BY Zenon DEF TypeOK, NoMeta, Meta, Roles
<1>2. [role |-> "reverse", reverse |-> None] \in Meta
  BY Zenon DEF Meta, Roles
<1>3. ASSUME NEW n \in Tokens PROVE [role |-> "connector", reverse |-> connectorTokens[n]] \in Meta
  BY <1>3, Zenon DEF TypeOK, Meta, Roles
<1> QED  BY <1>1, <1>2, <1>3, Zenon DEF KnownAs

\* Every step keeps the types of the handlers, the links and the counts.
LEMMA HandlersType ==
  ASSUME TypeOK, StageInv, [Next]_vars
  PROVE  /\ handler' \in [Clients -> Handler]
         /\ up' \in [Clients -> BOOLEAN]
         /\ told' \in [Clients -> Nat \cup {-1}]
<1> DEFINE Goal == /\ handler' \in [Clients -> Handler]
                   /\ up' \in [Clients -> BOOLEAN]
                   /\ told' \in [Clients -> Nat \cup {-1}]
<1>0. /\ handler \in [Clients -> Handler]
      /\ up \in [Clients -> BOOLEAN]
      /\ told \in [Clients -> Nat \cup {-1}]
      /\ connectorTokens \in [Tokens -> Names \cup {None}]
  BY Zenon DEF TypeOK
<1>1. ASSUME NEW t \in Tokens, RemoveToken(t) PROVE Goal
  BY <1>0, <1>1, Zenon DEF RemoveToken, Disconnected
<1>2. ASSUME NEW c \in Clients, NEW t \in Tokens, NEW reverse \in BOOLEAN, Authenticate(c, t, reverse)
      PROVE  Goal
  <2>1. RoleOf(t, reverse) \in Roles
    BY Zenon DEF RoleOf, Roles
  <2>2. t \in Names /\ connectorTokens[t] \in Names \cup {None}
    BY <1>0, Zenon DEF Names
  <2> DEFINE role == RoleOf(t, reverse)
             reverseToken == connectorTokens[t]
  <2>3. handler' = [handler EXCEPT ![c] = [@ EXCEPT !.at = "valid", !.role = role,
                                             !.token = t, !.reverse = reverseToken]]
    BY <1>2, Zenon DEF Authenticate
  <2>4. role \in Roles /\ reverseToken \in Names \cup {None}
    BY <2>1, <2>2, Zenon
  <2>5. UNCHANGED <<up, told>>
    BY <1>2, Zenon DEF Authenticate
  <2> HIDE DEF role, reverseToken
  <2>6. [handler[c] EXCEPT !.at = "valid", !.role = role, !.token = t, !.reverse = reverseToken] \in Handler
    <3>1. handler[c] \in Handler
      BY <1>0, Zenon
    <3> QED  BY <2>2, <2>4, <3>1, Zenon DEF Handler, Stages
  <2>7. handler' \in [Clients -> Handler]
    BY <1>0, <2>3, <2>6, Zenon
  <2> QED  BY <1>0, <2>5, <2>7, Zenon
<1>3. ASSUME NEW c \in Clients, AssignToken(c) PROVE Goal
  <2>1. Instance[c] \in Names
    BY RegistryAssumption, Zenon DEF Names
  <2> DEFINE name == IF handler[c].role = "reverse" /\ tokens[handler[c].token] = "managed"
                       THEN Instance[c] ELSE handler[c].token
  <2>2. handler' = [handler EXCEPT ![c] = [@ EXCEPT !.at = "accepted",
                                               !.token = name]]
    BY <1>3, Zenon DEF AssignToken
  <2>3. name \in Names \cup {None}
    BY <1>0, <2>1, Zenon DEF Handler
  <2>4. UNCHANGED <<up, told>>
    BY <1>3, Zenon DEF AssignToken
  <2> HIDE DEF name
  <2> QED  BY <1>0, <2>2, <2>3, <2>4 DEF Handler, Stages
<1>4. ASSUME NEW c \in Clients, Register(c) \/ RegisterFails(c) PROVE Goal
  <2>1. PICK stage \in Stages : handler' = [handler EXCEPT ![c].at = stage]
    BY <1>4, Zenon DEF Register, RegisterFails, Stages
  <2>2. UNCHANGED <<up, told>>
    BY <1>4, Zenon DEF Register, RegisterFails
  <2> QED  BY <1>0, <2>1, <2>2, Zenon DEF Handler
<1>5. ASSUME NEW c \in Clients, Announce(c) PROVE Goal
  <2>1. told' \in [Clients -> Nat \cup {-1}]
    BY <1>0, <1>5, ToldLemma, Zenon DEF Announce
  <2> QED  BY <1>0, <1>5, <2>1 DEF Announce, Handler, Stages
<1>6. ASSUME NEW c \in Clients, CountPartners(c) PROVE Goal
  BY <1>0, <1>6, CountsLemma DEF CountPartners, Handler, Stages
<1>7. ASSUME NEW c \in Clients, Greet(c) PROVE Goal
  BY <1>0, <1>7 DEF Greet, Handler, Stages
<1>8. ASSUME NEW c \in Clients, LinkLost(c) PROVE Goal
  BY <1>0, <1>8, Zenon DEF LinkLost
<1>9. ASSUME NEW c \in Clients, Cleanup(c) PROVE Goal
  <2>1. KnownAs(c).role \in Roles /\ KnownAs(c).reverse \in Names \cup {None}
    BY KnownAsLemma, Zenon DEF Meta
  <2> DEFINE role == KnownAs(c).role
             reverseToken == KnownAs(c).reverse
  <2>2. handler' = [handler EXCEPT ![c] = [@ EXCEPT !.at = "notifying", !.role = role,
                                                 !.reverse = reverseToken]]
    BY <1>9, Zenon DEF Cleanup
  <2>3. role \in Roles /\ reverseToken \in Names \cup {None}
    BY <2>1, Zenon
  <2>4. UNCHANGED <<up, told>>
    BY <1>9, Zenon DEF Cleanup
  <2> HIDE DEF role, reverseToken
  <2> QED  BY <1>0, <2>2, <2>3, <2>4 DEF Handler, Stages
<1>10. ASSUME NEW c \in Clients, Notify(c) PROVE Goal
  <2>1. told' \in [Clients -> Nat \cup {-1}]
    BY <1>0, <1>10, ToldLemma, Zenon DEF Notify
  <2> QED  BY <1>0, <1>10, <2>1, Zenon DEF Notify, Handler, Stages, Roles
<1>11. CASE UNCHANGED <<handler, up, told>>
  BY <1>0, <1>11, Zenon
<1> QED  BY <1>1, <1>2, <1>3, <1>4, <1>5, <1>6, <1>7, <1>8, <1>9, <1>10, <1>11, Zenon
         DEF Next, vars, AddChecks, AddForwardToken, AddReverseToken, AddConnectorToken,
             RequestArrives, RequestChecks, RequestWakes, RequestTimesOut

\* Every step keeps the types of the requests.
LEMMA RequestsType ==
  ASSUME TypeOK, [Next]_vars
  PROVE  request' \in [Requests -> Request]
<1>0. request \in [Requests -> Request]
  BY Zenon DEF TypeOK
<1>1. Idle \in Request
  BY Zenon DEF Idle, Request, Majors
<1>2. ASSUME NEW gone PROVE Unsubscribed(gone) \in [Requests -> Request]
  BY <1>0, Zenon DEF Unsubscribed, Request
<1>3. ASSUME NEW n PROVE Notified(n) \in [Requests -> Request]
  BY <1>0, Zenon DEF Notified, Request
<1>4. ASSUME NEW r \in Requests, NEW n \in Names, NEW m \in Majors, RequestArrives(r, n, m)
      PROVE  request' \in [Requests -> Request]
  BY <1>0, <1>4, Zenon DEF RequestArrives, Request
<1>5. ASSUME NEW r \in Requests, RequestChecks(r) PROVE request' \in [Requests -> Request]
  <2>1. [request[r] EXCEPT !.at = "waiting", !.sub = "live"] \in Request
    BY <1>0, Zenon DEF Request
  <2> QED  BY <1>0, <1>1, <1>5, <2>1, Zenon DEF RequestChecks
<1>6. ASSUME NEW r \in Requests, RequestWakes(r) PROVE request' \in [Requests -> Request]
  BY <1>0, <1>6 DEF RequestWakes, Request
<1>7. ASSUME NEW r \in Requests, RequestTimesOut(r) PROVE request' \in [Requests -> Request]
  BY <1>0, <1>1, <1>7, Zenon DEF RequestTimesOut
<1>8. ASSUME NEW t \in Tokens, RemoveToken(t) PROVE request' \in [Requests -> Request]
  BY <1>2, <1>8, Zenon DEF RemoveToken
<1>9. ASSUME NEW c \in Clients, Register(c) PROVE request' \in [Requests -> Request]
  BY <1>0, <1>3, <1>9, Zenon DEF Register
<1>10. CASE UNCHANGED request
  BY <1>0, <1>10, Zenon
<1> QED  BY <1>4, <1>5, <1>6, <1>7, <1>8, <1>9, <1>10, Zenon
         DEF Next, vars, AddChecks, AddForwardToken, AddReverseToken, AddConnectorToken,
             Authenticate, AssignToken, RegisterFails, Announce, CountPartners, Greet, LinkLost,
             Cleanup, Notify

\* Every step keeps what StageInv says of a connection.
LEMMA ClientStageStep ==
  ASSUME TypeOK, StageInv, [Next]_vars, NEW d \in Clients
  PROVE  /\ handler'[d].at \in {"idle", "valid", "accepted", "leaving"}
              => d \notin clients' /\ clientMeta'[d] = NoMeta
         /\ handler'[d].at \notin {"idle", "left"} => handler'[d].token \in Names
         /\ handler'[d].at = "valid" => handler'[d].token \in Tokens
         /\ handler'[d].at \in {"valid", "accepted"} => handler'[d].role # "none"
<1> DEFINE Goal == /\ handler'[d].at \in {"idle", "valid", "accepted", "leaving"}
                        => d \notin clients' /\ clientMeta'[d] = NoMeta
                   /\ handler'[d].at \notin {"idle", "left"} => handler'[d].token \in Names
                   /\ handler'[d].at = "valid" => handler'[d].token \in Tokens
                   /\ handler'[d].at \in {"valid", "accepted"} => handler'[d].role # "none"
<1>0. /\ handler \in [Clients -> Handler] /\ handler[d] \in Handler
      /\ clientMeta \in [Clients -> Meta]
  BY Zenon DEF TypeOK
<1>s. /\ handler[d].at \in {"idle", "valid", "accepted", "leaving"}
           => d \notin clients /\ clientMeta[d] = NoMeta
      /\ handler[d].at \notin {"idle", "left"} => handler[d].token \in Names
      /\ handler[d].at = "valid" => handler[d].token \in Tokens
      /\ handler[d].at \in {"valid", "accepted"} => handler[d].role # "none"
  BY Zenon DEF StageInv
<1>1. ASSUME NEW t \in Tokens, RemoveToken(t) PROVE Goal
  BY <1>s, <1>1, Zenon DEF RemoveToken, Disconnected
<1>2. ASSUME NEW c \in Clients, NEW t \in Tokens, NEW reverse \in BOOLEAN, Authenticate(c, t, reverse)
      PROVE  Goal
  <2>1. CASE c = d
    <3>1. /\ handler'[d].at = "valid" /\ handler'[d].token = t
          /\ handler'[d].role = RoleOf(t, reverse) /\ RoleOf(t, reverse) # "none"
          /\ handler[d].at = "idle" /\ clients' = clients /\ clientMeta' = clientMeta
      BY <1>0, <1>2, <2>1, Zenon DEF Authenticate, registry, Handler
    <3>2. t \in Names
      BY Zenon DEF Names
    <3> QED  BY <1>s, <3>1, <3>2, Zenon
  <2>2. CASE c # d
    BY <1>0, <1>s, <1>2, <2>2, Zenon DEF Authenticate, registry
  <2> QED  BY <2>1, <2>2, Zenon
<1>3. ASSUME NEW c \in Clients, AssignToken(c) PROVE Goal
  <2>1. CASE c = d
    <3>1. /\ handler'[d].at = "accepted" /\ handler'[d].role = handler[d].role
          /\ handler'[d].token \in {Instance[c], handler[d].token}
          /\ handler[d].at = "valid" /\ clients' = clients /\ clientMeta' = clientMeta
      BY <1>0, <1>3, <2>1, Zenon DEF AssignToken, Handler
    <3>2. Instance[c] \in Names
      BY RegistryAssumption, Zenon DEF Names
    <3> QED  BY <1>s, <3>1, <3>2, Zenon
  <2>2. CASE c # d
    BY <1>0, <1>s, <1>3, <2>2, Zenon DEF AssignToken
  <2> QED  BY <2>1, <2>2, Zenon
<1>4. ASSUME NEW c \in Clients, Register(c) PROVE Goal
  <2>1. CASE c = d
    <3>1. /\ handler'[d].at \in {"serving", "announcing"} /\ handler'[d].token = handler[d].token
          /\ handler[d].at = "accepted"
      BY <1>0, <1>4, <2>1, Zenon DEF Register, Handler
    <3> QED  BY <1>s, <3>1, Zenon
  <2>2. CASE c # d
    <3>1. /\ handler'[d] = handler[d] /\ clientMeta'[d] = clientMeta[d]
          /\ (d \in clients' <=> d \in clients)
      BY <1>0, <1>4, <2>2, Zenon DEF Register
    <3> QED  BY <1>s, <3>1, Zenon
  <2> QED  BY <2>1, <2>2, Zenon
<1>5. ASSUME NEW c \in Clients, Cleanup(c) PROVE Goal
  <2>1. CASE c = d
    <3>1. /\ handler'[d].at = "notifying" /\ handler'[d].token = handler[d].token
          /\ handler[d].at \in {"leaving", "serving"}
      BY <1>0, <1>5, <2>1, Zenon DEF Cleanup, Leaves, Handler
    <3> QED  BY <1>s, <3>1, Zenon
  <2>2. CASE c # d
    <3>1. /\ handler'[d] = handler[d] /\ clientMeta'[d] = clientMeta[d]
          /\ (d \in clients' <=> d \in clients)
      BY <1>0, <1>5, <2>2, Zenon DEF Cleanup
    <3> QED  BY <1>s, <3>1, Zenon
  <2> QED  BY <2>1, <2>2, Zenon
<1>6. ASSUME NEW c \in Clients, RegisterFails(c) PROVE Goal
  BY <1>0, <1>s, <1>6, Zenon DEF RegisterFails, registry, Handler
<1>7. ASSUME NEW c \in Clients, Announce(c) \/ CountPartners(c) \/ Greet(c) PROVE Goal
  <2>1. CASE c = d
    <3>1. /\ handler'[d].at \in {"serving", "counting", "greeting"}
          /\ handler'[d].token = handler[d].token
          /\ handler[d].at \in {"announcing", "counting", "greeting"}
      <4>1. CASE Announce(d)
        BY <1>0, <4>1, Zenon DEF Announce, Handler
      <4>2. CASE CountPartners(d)
        BY <1>0, <4>2, Zenon DEF CountPartners, Handler
      <4>3. CASE Greet(d)
        BY <1>0, <4>3, Zenon DEF Greet, Handler
      <4> QED  BY <1>7, <2>1, <4>1, <4>2, <4>3, Zenon
    <3> QED  BY <1>s, <3>1, Zenon
  <2>2. CASE c # d
    BY <1>0, <1>s, <1>7, <2>2, Zenon DEF Announce, CountPartners, Greet, registry
  <2> QED  BY <2>1, <2>2, Zenon
<1>8. ASSUME NEW c \in Clients, Notify(c) PROVE Goal
  <2>1. CASE c = d
    <3>1. handler'[d].at = "left"
      BY <1>0, <1>8, <2>1, Zenon DEF Notify
    <3> QED  BY <3>1, Zenon
  <2>2. CASE c # d
    BY <1>0, <1>s, <1>8, <2>2, Zenon DEF Notify, registry
  <2> QED  BY <2>1, <2>2, Zenon
<1>9. CASE UNCHANGED <<handler, clients, clientMeta>>
  BY <1>s, <1>9, Zenon
<1> QED  BY <1>1, <1>2, <1>3, <1>4, <1>5, <1>6, <1>7, <1>8, <1>9, Zenon
         DEF Next, vars, registry, AddChecks, AddForwardToken, AddReverseToken, AddConnectorToken,
             LinkLost, RequestArrives, RequestChecks, RequestWakes, RequestTimesOut

\* Every step keeps what StageInv says of a request.
LEMMA RequestStageStep ==
  ASSUME TypeOK, StageInv, [Next]_vars, NEW q \in Requests
  PROVE  /\ request'[q].at # "none" => request'[q].token \in Names
         /\ request'[q].sub # "none" => request'[q].at = "waiting"
<1> DEFINE Goal == /\ request'[q].at # "none" => request'[q].token \in Names
                   /\ request'[q].sub # "none" => request'[q].at = "waiting"
<1>0. request \in [Requests -> Request] /\ request[q] \in Request
  BY Zenon DEF TypeOK
<1>s. /\ request[q].at # "none" => request[q].token \in Names
      /\ request[q].sub # "none" => request[q].at = "waiting"
  BY Zenon DEF StageInv
<1>1. ASSUME NEW r \in Requests, NEW n \in Names, NEW m \in Majors, RequestArrives(r, n, m)
      PROVE  Goal
  BY <1>0, <1>s, <1>1, Zenon DEF RequestArrives
<1>2. ASSUME NEW r \in Requests, RequestChecks(r) PROVE Goal
  <2>1. CASE r = q
    <3>1. request'[q] \in {Idle, [request[q] EXCEPT !.at = "waiting", !.sub = "live"]}
          /\ request[q].at = "checking"
      BY <1>0, <1>2, <2>1, Zenon DEF RequestChecks
    <3>2. CASE request'[q] = Idle
      BY <3>2 DEF Idle
    <3>3. CASE request'[q] = [request[q] EXCEPT !.at = "waiting", !.sub = "live"]
      <4>1. request'[q].token = request[q].token /\ request'[q].at = "waiting"
        BY <1>0, <3>3, Zenon DEF Request
      <4> QED  BY <1>s, <3>1, <4>1, Zenon
    <3> QED  BY <3>1, <3>2, <3>3, Zenon
  <2>2. CASE r # q
    BY <1>0, <1>s, <1>2, <2>2, Zenon DEF RequestChecks
  <2> QED  BY <2>1, <2>2, Zenon
<1>3. ASSUME NEW r \in Requests, RequestWakes(r) PROVE Goal
  BY <1>0, <1>s, <1>3, Zenon DEF RequestWakes, Request
<1>4. ASSUME NEW r \in Requests, RequestTimesOut(r) PROVE Goal
  BY <1>0, <1>s, <1>4, Zenon DEF RequestTimesOut, Idle
<1>5. ASSUME NEW t \in Tokens, RemoveToken(t) PROVE Goal
  <2>1. PICK gone : request' = Unsubscribed(gone)
    BY <1>5, Zenon DEF RemoveToken
  <2> QED  BY <1>0, <1>s, <2>1, Zenon DEF Unsubscribed, Request
<1>6. ASSUME NEW c \in Clients, Register(c) PROVE Goal
  <2>1. PICK n : request' = Notified(n) \/ request' = request
    BY <1>6, Zenon DEF Register
  <2> QED  BY <1>0, <1>s, <2>1 DEF Notified, Request
<1>7. CASE UNCHANGED request
  BY <1>s, <1>7, Zenon
<1> QED  BY <1>1, <1>2, <1>3, <1>4, <1>5, <1>6, <1>7, Zenon
         DEF Next, vars, AddChecks, AddForwardToken, AddReverseToken, AddConnectorToken,
             Authenticate, AssignToken, RegisterFails, Announce, CountPartners, Greet, LinkLost,
             Cleanup, Notify

\* Every step keeps OneRegistration: a connection is put on one list, of the
\* token its handler has, and RemoveToken and cleanupConnection take it off
\* every list it is on.
LEMMA OneRegistrationStep ==
  ASSUME TypeOK, StageInv, OneRegistration, [Next]_vars
  PROVE  OneRegistration'
<1> DEFINE Once(s, d) == \A i, j \in DOMAIN s : s[i] = d /\ s[j] = d => i = j
           Elems(s) == {s[i] : i \in DOMAIN s}
           O(d, lists, all, meta, h) ==
             /\ d \in all <=> \E n \in Names : d \in Elems(lists[n])
             /\ d \in all => meta[d] # NoMeta
             /\ \A n \in Names : d \in Elems(lists[n]) => n = h[d].token /\ Once(lists[n], d)
             /\ h[d].at \in {"notifying", "left"} => d \notin all /\ meta[d] = NoMeta
           Goal == \A d \in Clients : O(d, tokenClients', clients', clientMeta', handler')
<1>o. \A d \in Clients : O(d, tokenClients, clients, clientMeta, handler)
  BY Zenon DEF OneRegistration, Listed
<1>g. Goal => OneRegistration'
  BY Zenon DEF OneRegistration, Listed
<1>0. /\ handler \in [Clients -> Handler]
      /\ clientMeta \in [Clients -> Meta]
      /\ tokenClients \in [Names -> Seq(Clients)]
  BY Zenon DEF TypeOK
<1>s. \A d \in Clients :
        /\ handler[d].at \in {"idle", "valid", "accepted", "leaving"}
             => d \notin clients /\ clientMeta[d] = NoMeta
        /\ handler[d].at \notin {"idle", "left"} => handler[d].token \in Names
        /\ handler[d].at \in {"valid", "accepted"} => handler[d].role # "none"
  BY Zenon DEF StageInv
<1> HIDE DEF Once, Elems
<1>1. ASSUME NEW t \in Tokens, RemoveToken(t) PROVE Goal
  <2>1. PICK gone \in SUBSET Names : Disconnected(gone)
    <3>1. internalTokens[t] \subseteq Internals
      BY Zenon DEF TypeOK
    <3> QED  BY <1>1, <3>1, Zenon DEF RemoveToken, Names
  <2>2. UNCHANGED <<clientMeta, handler>>
    BY <1>1, Zenon DEF RemoveToken
  <2> DEFINE lost == UNION {Listed(n) : n \in gone}
  <2>3. clients' = clients \ lost
    BY <2>1, Zenon DEF Disconnected
  <2>4. \A n \in Names : tokenClients'[n] = IF n \in gone THEN <<>> ELSE tokenClients[n]
    BY <2>1, Zenon DEF Disconnected
  <2>5. \A d : d \in lost <=> \E n \in gone : d \in Elems(tokenClients[n])
    BY Zenon DEF Elems, Listed
  <2>6. Elems(<<>>) = {}
    BY DEF Elems
  <2> HIDE DEF lost
  <2>7. ASSUME NEW d \in Clients PROVE O(d, tokenClients', clients', clientMeta', handler')
    <3>1. O(d, tokenClients, clients, clientMeta, handler)
      BY <1>o, Zenon
    <3>2. ASSUME d \in clients' PROVE \E n \in Names : d \in Elems(tokenClients'[n])
      <4>1. d \in clients /\ d \notin lost
        BY <2>3, <3>2, Zenon
      <4>2. PICK n \in Names : d \in Elems(tokenClients[n])
        BY <3>1, <4>1, Zenon
      <4> QED  BY <2>4, <2>5, <4>1, <4>2, Zenon
    <3>3. ASSUME NEW n \in Names, d \in Elems(tokenClients'[n])
          PROVE  d \in clients' /\ n = handler[d].token /\ Once(tokenClients'[n], d)
      <4>1. n \notin gone /\ tokenClients'[n] = tokenClients[n]
        BY <2>4, <2>6, <3>3, Zenon
      <4>2. d \in clients /\ n = handler[d].token /\ Once(tokenClients[n], d)
        BY <3>1, <3>3, <4>1, Zenon
      <4>3. d \notin lost
        BY <2>5, <3>1, <4>1, <4>2, Zenon
      <4> QED  BY <2>3, <4>1, <4>2, <4>3, Zenon
    <3> QED  BY <2>2, <2>3, <3>1, <3>2, <3>3, Zenon
  <2> QED  BY <2>7, Zenon
<1>2. ASSUME NEW c \in Clients, Register(c) PROVE Goal
  <2> DEFINE n == handler[c].token
             s == Append(tokenClients[n], c)
  <2>1. /\ n \in Names /\ handler[c].at = "accepted" /\ c \notin clients
        /\ handler[c].role # "none"
    BY <1>s, <1>2, Zenon DEF Register
  <2>2. c \notin Elems(tokenClients[n])
    BY <1>o, <2>1, Zenon
  <2>3. tokenClients[n] \in Seq(Clients)
    BY <1>0, <2>1, Zenon
  <2>4. Elems(s) = Elems(tokenClients[n]) \cup {c}
    <3> DEFINE list == tokenClients[n]
    <3>1. /\ DOMAIN list = 1 .. Len(list) /\ DOMAIN s = 1 .. Len(list) + 1 /\ Len(list) \in Nat
          /\ s[Len(list) + 1] = c /\ \A i \in DOMAIN list : s[i] = list[i]
      BY <2>3
    <3> HIDE DEF list, s
    <3>2. \A i \in DOMAIN s : i = Len(list) + 1 \/ i \in DOMAIN list
      BY <3>1
    <3>3. Len(list) + 1 \in DOMAIN s /\ \A i \in DOMAIN list : i \in DOMAIN s
      BY <3>1
    <3>4. {s[i] : i \in DOMAIN s} = {list[i] : i \in DOMAIN list} \cup {c}
      BY <3>1, <3>2, <3>3, Zenon
    <3> QED  BY <3>4, Zenon DEF Elems, list
  <2>5. Once(s, c) /\ \A d : Once(tokenClients[n], d) /\ d # c => Once(s, d)
    BY <2>2, <2>3 DEF Elems, Once
  <2>6. \A m \in Names : tokenClients'[m] = IF m = n THEN s ELSE tokenClients[m]
    BY <1>0, <1>2, <2>1, Zenon DEF Register
  <2>7. clients' = clients \cup {c}
    BY <1>2, Zenon DEF Register
  <2>8. \A d \in Clients : d # c => clientMeta'[d] = clientMeta[d] /\ handler'[d] = handler[d]
    BY <1>0, <1>2, Zenon DEF Register
  <2>9. /\ clientMeta'[c] # NoMeta
        /\ handler'[c].token = n /\ handler'[c].at \in {"serving", "announcing"}
    BY <1>0, <1>2, <2>1, Zenon DEF Register, MetaOf, NoMeta, Handler
  <2> HIDE DEF n, s
  <2>10. ASSUME NEW d \in Clients PROVE O(d, tokenClients', clients', clientMeta', handler')
    <3>1. O(d, tokenClients, clients, clientMeta, handler)
      BY <1>o, Zenon
    <3>2. CASE d = c
      BY <2>1, <2>2, <2>4, <2>5, <2>6, <2>7, <2>9, <3>1, <3>2, Zenon
    <3>3. CASE d # c
      BY <2>1, <2>4, <2>5, <2>6, <2>7, <2>8, <3>1, <3>3, Zenon
    <3> QED  BY <3>2, <3>3, Zenon
  <2> QED  BY <2>10, Zenon
<1>3. ASSUME NEW c \in Clients, Cleanup(c) PROVE Goal
  <2> DEFINE n == handler[c].token
             s == Without(tokenClients[n], c)
  <2>1. n \in Names
    BY <1>s, <1>3, Zenon DEF Cleanup, Leaves
  <2>2. tokenClients[n] \in Seq(Clients) /\ Once(tokenClients[n], c)
    <3>1. CASE c \in Elems(tokenClients[n])
      BY <1>0, <1>o, <2>1, <3>1, Zenon
    <3>2. CASE c \notin Elems(tokenClients[n])
      BY <1>0, <2>1, <3>2, Zenon DEF Once, Elems
    <3> QED  BY <3>1, <3>2, Zenon
  <2>3. Elems(s) = Elems(tokenClients[n]) \ {c} /\ \A d : Once(tokenClients[n], d) => Once(s, d)
    <3> DEFINE list == tokenClients[n]
    <3>1. list \in Seq(Clients) /\ \A i, j \in DOMAIN list : list[i] = c /\ list[j] = c => i = j
      BY <2>2, Zenon DEF Once
    <3>2. s = Without(list, c)
      BY Zenon
    <3> HIDE DEF list, s
    <3>3. /\ {s[i] : i \in DOMAIN s} = {list[i] : i \in DOMAIN list} \ {c}
          /\ \A d : (\A i, j \in DOMAIN list : list[i] = d /\ list[j] = d => i = j)
               => \A i, j \in DOMAIN s : s[i] = d /\ s[j] = d => i = j
      <4>1. LET w == Without(list, c)
            IN  /\ w \in Seq(Clients)
                /\ {w[i] : i \in DOMAIN w} = {list[i] : i \in DOMAIN list} \ {c}
                /\ \A d : (\A i, j \in DOMAIN list : list[i] = d /\ list[j] = d => i = j)
                     => \A i, j \in DOMAIN w : w[i] = d /\ w[j] = d => i = j
        BY <3>1, WithoutLemma, Zenon
      <4> QED  BY <3>2, <4>1, Zenon
    <3> QED  BY <3>3, Zenon DEF Elems, Once, list
  <2>4. \A m \in Names : tokenClients'[m] = IF m = n THEN s ELSE tokenClients[m]
    BY <1>0, <1>3, <2>1, Zenon DEF Cleanup
  <2>5. clients' = clients \ {c}
    BY <1>3, Zenon DEF Cleanup
  <2>6. \A d \in Clients : d # c => clientMeta'[d] = clientMeta[d] /\ handler'[d] = handler[d]
    BY <1>0, <1>3, Zenon DEF Cleanup
  <2>7. clientMeta'[c] = NoMeta
    BY <1>0, <1>3, Zenon DEF Cleanup
  <2> HIDE DEF n, s
  <2>8. \A m \in Names : c \notin Elems(tokenClients'[m])
    BY <1>o, <2>3, <2>4, Zenon DEF n
  <2>9. ASSUME NEW d \in Clients PROVE O(d, tokenClients', clients', clientMeta', handler')
    <3>1. O(d, tokenClients, clients, clientMeta, handler)
      BY <1>o, Zenon
    <3>2. CASE d = c
      BY <2>5, <2>7, <2>8, <3>2, Zenon
    <3>3. CASE d # c
      BY <2>1, <2>3, <2>4, <2>5, <2>6, <3>1, <3>3, Zenon
    <3> QED  BY <3>2, <3>3, Zenon
  <2> QED  BY <2>9, Zenon
<1>4. ASSUME NEW c \in Clients, UNCHANGED <<tokenClients, clients, clientMeta>>,
             c \notin clients, clientMeta[c] = NoMeta,
             \A d \in Clients : d # c => handler'[d] = handler[d]
      PROVE  Goal
  <2>1. ASSUME NEW d \in Clients PROVE O(d, tokenClients', clients', clientMeta', handler')
    <3>1. O(d, tokenClients, clients, clientMeta, handler)
      BY <1>o, Zenon
    <3>2. CASE d = c
      BY <1>4, <3>1, <3>2, Zenon
    <3>3. CASE d # c
      BY <1>4, <3>1, <3>3, Zenon
    <3> QED  BY <3>2, <3>3, Zenon
  <2> QED  BY <2>1, Zenon
<1>5. ASSUME NEW c \in Clients, AssignToken(c) \/ RegisterFails(c) \/ Notify(c) PROVE Goal
  <2>1. handler[c].at \in {"valid", "accepted", "notifying"}
    BY <1>5, Zenon DEF AssignToken, RegisterFails, Notify
  <2>2. c \notin clients /\ clientMeta[c] = NoMeta
    BY <1>o, <1>s, <2>1, Zenon
  <2>3. UNCHANGED <<tokenClients, clients, clientMeta>>
    BY <1>5, Zenon DEF AssignToken, RegisterFails, Notify, registry
  <2>4. \A d \in Clients : d # c => handler'[d] = handler[d]
    BY <1>0, <1>5, Zenon DEF AssignToken, RegisterFails, Notify
  <2> QED  BY <1>4, <2>2, <2>3, <2>4, Zenon
<1>6. ASSUME NEW c \in Clients, NEW t \in Tokens, NEW reverse \in BOOLEAN, Authenticate(c, t, reverse)
      PROVE  Goal
  <2>1. c \notin clients /\ clientMeta[c] = NoMeta
    BY <1>s, <1>6, Zenon DEF Authenticate
  <2>2. UNCHANGED <<tokenClients, clients, clientMeta>>
    BY <1>6, Zenon DEF Authenticate, registry
  <2>3. \A d \in Clients : d # c => handler'[d] = handler[d]
    BY <1>0, <1>6, Zenon DEF Authenticate
  <2> QED  BY <1>4, <2>1, <2>2, <2>3, Zenon
<1>7. ASSUME NEW c \in Clients, Announce(c) \/ CountPartners(c) \/ Greet(c) PROVE Goal
  <2>1. UNCHANGED <<tokenClients, clients, clientMeta>>
    BY <1>7, Zenon DEF Announce, CountPartners, Greet, registry
  <2>2. \A d \in Clients : d # c => handler'[d] = handler[d]
    BY <1>0, <1>7, Zenon DEF Announce, CountPartners, Greet
  <2>3. handler'[c].token = handler[c].token /\ handler'[c].at \in {"serving", "counting", "greeting"}
    <3>1. CASE Announce(c)
      BY <1>0, <3>1, Zenon DEF Announce, Handler
    <3>2. CASE CountPartners(c)
      BY <1>0, <3>2, Zenon DEF CountPartners, Handler
    <3>3. CASE Greet(c)
      BY <1>0, <3>3, Zenon DEF Greet, Handler
    <3> QED  BY <1>7, <3>1, <3>2, <3>3, Zenon
  <2>4. ASSUME NEW d \in Clients PROVE O(d, tokenClients', clients', clientMeta', handler')
    <3>1. O(d, tokenClients, clients, clientMeta, handler)
      BY <1>o, Zenon
    <3>2. CASE d = c
      BY <2>1, <2>3, <3>1, <3>2, Zenon
    <3>3. CASE d # c
      BY <2>1, <2>2, <3>1, <3>3, Zenon
    <3> QED  BY <3>2, <3>3, Zenon
  <2> QED  BY <2>4, Zenon
<1>8. ASSUME UNCHANGED <<tokenClients, clients, clientMeta, handler>> PROVE Goal
  BY <1>o, <1>8, Zenon
<1> HIDE DEF Goal
<1>9. Goal
  BY <1>1, <1>2, <1>3, <1>5, <1>6, <1>7, <1>8, Zenon
  DEF Next, vars, registry, AddChecks, AddForwardToken, AddReverseToken, AddConnectorToken, LinkLost,
      RequestArrives, RequestChecks, RequestWakes, RequestTimesOut
<1> QED  BY <1>g, <1>9, Zenon

\* Every step keeps NoMissedProvider: a request subscribes in the section that
\* finds no provider, and the section that lists one closes the channel.
LEMMA NoMissedProviderStep ==
  ASSUME IInv, [Next]_vars
  PROVE  NoMissedProvider'
<1> DEFINE Elems(s) == {s[i] : i \in DOMAIN s}
           Missed(r, q, lists, meta) ==
             /\ q[r].sub = "live"
             /\ \E d \in Elems(lists[q[r].token]) :
                  meta[d].role = "reverse" /\ q[r].major \in {0, Major[d]}
           Goal == \A r \in Requests : ~Missed(r, request', tokenClients', clientMeta')
<1>n. \A r \in Requests : ~Missed(r, request, tokenClients, clientMeta)
  BY Zenon DEF IInv, NoMissedProvider, Listed
<1>g. Goal => NoMissedProvider'
  BY Zenon DEF NoMissedProvider, Listed
<1>0. /\ TypeOK /\ StageInv /\ OneRegistration
      /\ request \in [Requests -> Request]
      /\ tokenClients \in [Names -> Seq(Clients)]
      /\ clientMeta \in [Clients -> Meta]
  BY Zenon DEF IInv, TypeOK
<1>s. \A r \in Requests : request[r].sub # "none" => request[r].token \in Names
  BY <1>0, Zenon DEF StageInv
<1>l. \A m \in Names : Elems(tokenClients[m]) \subseteq Clients
  BY <1>0
<1> HIDE DEF Elems
<1>1. ASSUME NEW t \in Tokens, RemoveToken(t) PROVE Goal
  <2>1. PICK gone, away : Disconnected(gone) /\ request' = Unsubscribed(away)
    BY <1>1, Zenon DEF RemoveToken
  <2>2. clientMeta' = clientMeta
    BY <1>1, Zenon DEF RemoveToken
  <2>3. \A m \in Names : Elems(tokenClients'[m]) \subseteq Elems(tokenClients[m])
    BY <2>1 DEF Disconnected, Elems
  <2>4. \A r \in Requests : request'[r].sub = "live" => request'[r] = request[r]
    BY <1>0, <2>1, Zenon DEF Unsubscribed, Request
  <2> QED  BY <1>n, <1>s, <2>2, <2>3, <2>4, Zenon
<1>2. ASSUME NEW c \in Clients, Register(c) PROVE Goal
  <2> DEFINE n == handler[c].token
             role == handler[c].role
  <2>1. n \in Names /\ c \notin clients
    BY <1>0, <1>2, Zenon DEF StageInv, Register
  <2>2. \A m \in Names : c \notin Elems(tokenClients[m])
    BY <1>0, <2>1, Zenon DEF OneRegistration, Listed, Elems
  <2>3. \A m \in Names : Elems(tokenClients'[m]) =
          IF m = n THEN Elems(tokenClients[n]) \cup {c} ELSE Elems(tokenClients[m])
    <3> DEFINE list == tokenClients[n]
               s == Append(list, c)
    <3>1. \A m \in Names : tokenClients'[m] = IF m = n THEN s ELSE tokenClients[m]
      BY <1>0, <1>2, <2>1, Zenon DEF Register
    <3>2. list \in Seq(Clients)
      BY <1>0, <2>1, Zenon
    <3>3. /\ DOMAIN list = 1 .. Len(list) /\ DOMAIN s = 1 .. Len(list) + 1 /\ Len(list) \in Nat
          /\ s[Len(list) + 1] = c /\ \A i \in DOMAIN list : s[i] = list[i]
      <4> HIDE DEF list, n
      <4> QED  BY <3>2, SMTT(30)
    <3> HIDE DEF list, s, n
    <3>4. \A i \in DOMAIN s : i = Len(list) + 1 \/ i \in DOMAIN list
      BY <3>3
    <3>5. Len(list) + 1 \in DOMAIN s /\ \A i \in DOMAIN list : i \in DOMAIN s
      BY <3>3
    <3>6. {s[i] : i \in DOMAIN s} = {list[i] : i \in DOMAIN list} \cup {c}
      BY <3>3, <3>4, <3>5, Zenon
    <3>7. Elems(s) = Elems(tokenClients[n]) \cup {c}
      BY <3>6, Zenon DEF Elems, list
    <3> QED  BY <3>1, <3>7, Zenon
  <2>4. \A d \in Clients : clientMeta'[d].role = IF d = c THEN role ELSE clientMeta[d].role
    BY <1>0, <1>2, Zenon DEF Register, MetaOf
  <2>5. request' = IF role = "reverse" THEN Notified(n) ELSE request
    BY <1>2, Zenon DEF Register
  <2>6. \A r \in Requests : request'[r].sub = "live" =>
          request'[r] = request[r] /\ (role = "reverse" => request[r].token # n)
    BY <1>0, <2>5, Zenon DEF Notified, Request
  <2> HIDE DEF n, role
  <2>7. ASSUME NEW r \in Requests, request'[r].sub = "live",
               NEW d \in Elems(tokenClients'[request'[r].token]),
               clientMeta'[d].role = "reverse", request'[r].major \in {0, Major[d]}
        PROVE  FALSE
    <3>1. /\ request'[r] = request[r] /\ request[r].sub = "live" /\ request[r].token \in Names
          /\ role = "reverse" => request[r].token # n
      BY <1>s, <2>6, <2>7, Zenon
    <3>2. CASE d = c
      <4>1. role = "reverse"
        BY <2>4, <2>7, <3>2, Zenon
      <4> QED  BY <2>2, <2>3, <2>7, <3>1, <3>2, <4>1, Zenon
    <3>3. CASE d # c
      <4>1. d \in Elems(tokenClients[request[r].token])
        BY <2>3, <2>7, <3>1, <3>3, Zenon
      <4>2. d \in Clients
        BY <1>l, <3>1, <4>1, Zenon
      <4>3. clientMeta[d].role = "reverse"
        BY <2>4, <2>7, <3>3, <4>2, Zenon
      <4> QED  BY <1>n, <2>7, <3>1, <4>1, <4>3, Zenon
    <3> QED  BY <3>2, <3>3, Zenon
  <2> QED  BY <2>7, Zenon
<1>3. ASSUME NEW c \in Clients, Cleanup(c) PROVE Goal
  <2>1. request' = request
    BY <1>3, Zenon DEF Cleanup
  <2>2. \A m \in Names : Elems(tokenClients'[m]) \subseteq Elems(tokenClients[m])
    <3> DEFINE n == handler[c].token
               list == tokenClients[n]
               w == Without(list, c)
    <3>1. n \in Names
      BY <1>0, <1>3, Zenon DEF StageInv, Cleanup, Leaves
    <3>2. list \in Seq(Clients) /\ \A i, j \in DOMAIN list : list[i] = c /\ list[j] = c => i = j
      <4>1. CASE c \in Listed(n)
        BY <1>0, <3>1, <4>1, Zenon DEF OneRegistration
      <4>2. CASE c \notin Listed(n)
        BY <1>0, <3>1, <4>2, Zenon DEF Listed
      <4> QED  BY <4>1, <4>2, Zenon
    <3>3. \A m \in Names : tokenClients'[m] = IF m = n THEN w ELSE tokenClients[m]
      BY <1>0, <1>3, <3>1, Zenon DEF Cleanup
    <3> HIDE DEF n, list
    <3>4. LET u == Without(list, c)
          IN  /\ u \in Seq(Clients)
              /\ {u[i] : i \in DOMAIN u} = {list[i] : i \in DOMAIN list} \ {c}
              /\ \A d : (\A i, j \in DOMAIN list : list[i] = d /\ list[j] = d => i = j)
                   => \A i, j \in DOMAIN u : u[i] = d /\ u[j] = d => i = j
      BY <3>2, WithoutLemma, Zenon
    <3>5. Elems(w) \subseteq Elems(tokenClients[n])
      BY <3>4, Zenon DEF Elems, list
    <3> QED  BY <3>3, <3>5, Zenon
  <2>3. \A d \in Clients : clientMeta'[d].role = "reverse" => clientMeta[d].role = "reverse"
    BY <1>0, <1>3, Zenon DEF Cleanup, NoMeta
  <2> QED  BY <1>n, <1>s, <1>l, <2>1, <2>2, <2>3, Zenon
<1>4. ASSUME NEW r \in Requests, RequestChecks(r) PROVE Goal
  <2> DEFINE q == request[r]
  <2>1. UNCHANGED <<tokenClients, clientMeta>>
    BY <1>4, Zenon DEF RequestChecks
  <2>2. \A x \in Requests : x # r => request'[x] = request[x]
    BY <1>0, <1>4, Zenon DEF RequestChecks
  <2>3. ASSUME request'[r].sub = "live" PROVE \A d \in Elems(tokenClients[q.token]) :
                                                 q.major \notin {0, Major[d]}
    <3>1. q \in Request /\ q.token \in Names /\ q.major \in Majors
      BY <1>0, <1>4, Zenon DEF StageInv, RequestChecks, Request
    <3>2. tokenIndexes[q.token] \in Nat
      BY <1>0, <3>1, Zenon DEF TypeOK
    <3>3. Chosen(q.token, tokenIndexes[q.token], q.major) = None
      BY <1>0, <1>4, <2>3, Zenon DEF RequestChecks, Idle
    <3> HIDE DEF q
    <3>4. \A d \in Listed(q.token) : q.major \notin {0, Major[d]}
      BY <1>0, <3>1, <3>2, <3>3, ChosenLemma, Zenon
    <3> QED  BY <3>4, Zenon DEF Listed, Elems
  <2>4. request'[r].sub = "live" => request'[r].token = q.token /\ request'[r].major = q.major
    BY <1>0, <1>4, Zenon DEF RequestChecks, Idle, Request
  <2> QED  BY <1>n, <2>1, <2>2, <2>3, <2>4, Zenon
<1>5. ASSUME UNCHANGED <<tokenClients, clientMeta>>, NEW r \in Requests,
             request'[r].sub # "live", \A x \in Requests : x # r => request'[x] = request[x]
      PROVE  Goal
  BY <1>n, <1>5, Zenon
<1>6. ASSUME NEW r \in Requests, NEW n \in Names, NEW m \in Majors, RequestArrives(r, n, m)
      PROVE  Goal
  <2>1. UNCHANGED <<tokenClients, clientMeta>>
    BY <1>6, Zenon DEF RequestArrives, registry
  <2>2. request'[r].sub # "live" /\ \A x \in Requests : x # r => request'[x] = request[x]
    BY <1>0, <1>6, Zenon DEF RequestArrives
  <2> QED  BY <1>5, <2>1, <2>2, Zenon
<1>7. ASSUME NEW r \in Requests, RequestWakes(r) \/ RequestTimesOut(r) PROVE Goal
  <2>1. UNCHANGED <<tokenClients, clientMeta>>
    BY <1>7, Zenon DEF RequestWakes, RequestTimesOut, registry
  <2>2. request'[r].sub # "live" /\ \A x \in Requests : x # r => request'[x] = request[x]
    BY <1>0, <1>7 DEF RequestWakes, RequestTimesOut, Request, Idle
  <2> QED  BY <1>5, <2>1, <2>2, Zenon
<1>8. ASSUME UNCHANGED <<tokenClients, clientMeta, request>> PROVE Goal
  BY <1>n, <1>8, Zenon
<1> HIDE DEF Goal
<1>9. Goal
  BY <1>1, <1>2, <1>3, <1>4, <1>6, <1>7, <1>8, Zenon
  DEF Next, vars, registry, AddChecks, AddForwardToken, AddReverseToken, AddConnectorToken, LinkLost,
      Authenticate, AssignToken, RegisterFails, Announce, CountPartners, Greet, Notify
<1> QED  BY <1>g, <1>9, Zenon

-----------------------------------------------------------------------------
\* The inductive invariant holds in every reachable state.
THEOREM Invariance == Spec => []IInv
<1>1. Init => IInv
  <2> SUFFICES ASSUME Init PROVE IInv
    BY Zenon
  <2>1. TypeOK
    BY RegistryAssumption DEF Init, TypeOK, Handler, Stages, Roles, Meta, NoMeta, Request, Idle, Majors
  <2>2. StageInv
    BY Zenon DEF Init, StageInv, Idle
  <2>3. OneRegistration
    BY DEF Init, OneRegistration, Listed
  <2>4. NoMissedProvider
    BY Zenon DEF Init, NoMissedProvider, Idle
  <2> QED  BY <2>1, <2>2, <2>3, <2>4, Zenon DEF IInv
<1>2. IInv /\ [Next]_vars => IInv'
  <2> SUFFICES ASSUME IInv, [Next]_vars PROVE IInv'
    BY Zenon
  <2>1. TypeOK /\ StageInv /\ OneRegistration
    BY Zenon DEF IInv
  <2>2. TypeOK'
    BY <2>1, NamesType, ListsType, HandlersType, RequestsType, Zenon DEF TypeOK
  <2>3. StageInv'
    BY <2>1, ClientStageStep, RequestStageStep, Zenon DEF StageInv
  <2> QED  BY <2>1, <2>2, <2>3, OneRegistrationStep, NoMissedProviderStep, Zenon DEF IInv
<1> QED  BY <1>1, <1>2, PTL DEF Spec

\* The types of the registry hold in every reachable state.
THEOREM TypeCorrect == Spec => []TypeOK
<1>1. IInv => TypeOK
  BY Zenon DEF IInv
<1> QED  BY <1>1, Invariance, PTL

\* The list of clients, the lists of the tokens and the metadata agree in every
\* reachable state.
THEOREM OneRegistrationHolds == Spec => []OneRegistration
<1>1. IInv => OneRegistration
  BY Zenon DEF IInv
<1> QED  BY <1>1, Invariance, PTL

\* No request ever sleeps on an open channel past a provider it could use.
THEOREM NoMissedProviderHolds == Spec => []NoMissedProvider
<1>1. IInv => NoMissedProvider
  BY Zenon DEF IInv
<1> QED  BY <1>1, Invariance, PTL

\* A connector token never outlives the reverse token an operator added for it:
\* RemoveToken takes the connectors with it, though it removes the internal
\* tokens first and looks at one kind only.
THEOREM ConnectorHasReverseHolds == Spec => []ConnectorHasReverse
<1>1. Init => ConnectorHasReverse
  BY RegistryAssumption, Zenon DEF Init, ConnectorHasReverse, Names
<1>2. IInv /\ ConnectorHasReverse /\ [Next]_vars => ConnectorHasReverse'
  <2> SUFFICES ASSUME TypeOK, StageInv, ConnectorHasReverse, [Next]_vars,
                      NEW u \in Tokens, connectorTokens'[u] \in Tokens
               PROVE  tokens'[connectorTokens'[u]] # "none"
    BY Zenon DEF ConnectorHasReverse, IInv
  <2> DEFINE n == connectorTokens'[u]
  <2>0. /\ tokens \in [Names -> {"none", "port", "managed"}] /\ connectorTokens \in [Tokens -> Names \cup {None}]
        /\ internalTokens \in [Tokens -> SUBSET Internals] /\ n \in Names /\ n \notin Internals /\ n # None
    BY RegistryAssumption, Zenon DEF TypeOK, Names
  <2>1. connectorTokens[u] = n => tokens[n] # "none"
    BY Zenon DEF ConnectorHasReverse
  <2>2. UNCHANGED <<tokens, connectorTokens>> => tokens'[n] # "none"
    BY <2>1, Zenon
  <2>3. ASSUME NEW t \in Tokens, NEW kind \in {"port", "managed"}, AddReverseToken(t, kind) PROVE tokens'[n] # "none"
    BY <2>0, <2>1, <2>3 DEF AddReverseToken
  <2>4. ASSUME NEW t \in Tokens, NEW k \in Names, AddConnectorToken(t, k) PROVE tokens'[n] # "none"
    BY <2>0, <2>1, <2>4, Zenon DEF AddConnectorToken
  <2>5. ASSUME NEW t \in Tokens, RemoveToken(t) PROVE tokens'[n] # "none"
    <3>1. connectorTokens[u] = n /\ tokens[n] # "none"
      BY <2>0, <2>1, <2>5, Zenon DEF RemoveToken
    <3>2. n \notin internalTokens[t]
      BY <2>0, Zenon
    <3>3. CASE n = t /\ connectorTokens[t] = None /\ tokens[t] # "none"
      <4>1. connectorTokens'[u] = None
        BY <2>5, <3>1, <3>3, Zenon DEF RemoveToken
      <4> QED BY <2>0, <4>1, Zenon
    <3>4. CASE ~(n = t /\ connectorTokens[t] = None /\ tokens[t] # "none")
      <4>1. tokens'[n] = tokens[n]
        BY <2>0, <2>5, <3>2, <3>4, Zenon DEF RemoveToken
      <4> QED BY <3>1, <4>1, Zenon
    <3> QED BY <3>3, <3>4, Zenon
  <2>6. ASSUME NEW c \in Clients, AssignToken(c) PROVE tokens'[n] # "none"
    <3>1. connectorTokens' = connectorTokens
      BY <2>6, Zenon DEF AssignToken
    <3>2. tokens' = tokens \/ tokens' = [tokens EXCEPT ![Instance[c]] = "managed"]
      BY <2>6, Zenon DEF AssignToken
    <3> QED BY <2>0, <2>1, <3>1, <3>2
  <2> QED  BY <2>2, <2>3, <2>4, <2>5, <2>6, Zenon
           DEF Next, vars, names, AddChecks, AddForwardToken, Authenticate, Register, RegisterFails, Announce, CountPartners,
               Greet, LinkLost, Cleanup, Notify, RequestArrives, RequestChecks, RequestWakes, RequestTimesOut
<1> QED  BY <1>1, <1>2, Invariance, PTL DEF Spec

=============================================================================
