------------------------- MODULE ProxyManagerProofs -------------------------
(***************************************************************************)
(* What holds of ProxyManager for every number of requests, tokens,         *)
(* containers, addresses and starts, whatever the environment does.         *)
(***************************************************************************)
EXTENDS ProxyManager, TLAPS

USE DEF At, Goto, cluster, access, clients, calls

-----------------------------------------------------------------------------
(* Types *)

(* TypeOK in its parts: the containers and their agents, the tokens and     *)
(* clients, the requests.                                                   *)
WorldOK ==
  /\ addr \in [Containers -> Addrs \cup {None}]
  /\ started \in [Containers -> 0 .. MaxStarts] /\ former \in [Containers -> 0 .. MaxStarts]
  /\ up \subseteq Containers /\ \A c \in up : started[c] > former[c]
  /\ serves \in [Containers -> 0 .. MaxStarts]
AccessOK ==
  /\ valid \subseteq Tokens /\ expired \subseteq Tokens
  /\ granted \in [Tokens -> Containers \cup {None}]
  /\ cache \in [Tokens -> Requests \cup {None}]
ClientsOK == client \in [Requests -> Clients \cup {None}]
CallsOK ==
  /\ pc \in [Requests -> Pcs] /\ reply \in [Requests -> Replies]
  /\ asked \in [Requests -> Asked \cup {None}]
  /\ uses \in [Requests -> Requests \cup {None}]
  /\ held \in [Requests -> Auths \cup {None}] /\ given \in [Requests -> Auths \cup {None}]
  /\ reached \in [Requests -> Containers \cup {None}]

LEMMA TypeParts ==
  /\ TypeOK <=> WorldOK /\ AccessOK /\ ClientsOK /\ CallsOK
  /\ TypeOK' <=> (WorldOK /\ AccessOK /\ ClientsOK /\ CallsOK)'
BY DEF TypeOK, WorldOK, AccessOK, ClientsOK, CallsOK

(* A request that has asked, and the client it uses. *)
LEMMA AskedFields ==
  ASSUME TypeOK, NEW r \in Requests, asked[r] # None
  PROVE  asked[r].kind \in Kinds /\ asked[r].token \in Tokens /\ asked[r].ct \in Containers
BY DEF TypeOK, Asked

LEMMA ClientFields ==
  ASSUME TypeOK, NEW q \in Requests, client[q] # None
  PROVE  /\ client[q] \in Clients /\ client[q].ct \in Containers /\ client[q].host \in Addrs
         /\ client[q].auth \in Auths \cup {None}
BY DEF TypeOK, Clients

(* What a busy request uses. *)
LEMMA BusyFields ==
  ASSUME TypeOK, OwnInv, NEW r \in Requests, pc[r] \in Busy
  PROVE  /\ uses[r] \in Requests /\ client[uses[r]] # None /\ asked[r] # None
         /\ client[uses[r]].ct = asked[r].ct /\ granted[asked[r].token] = asked[r].ct
         /\ Making(r) => uses[r] = r
BY DEF TypeOK, OwnInv, ClientsAreOwn, RequestsAreAdmitted, MadeOnce, Admitted, Client, Busy

-----------------------------------------------------------------------------
(* Actions that leave the requests, or all but one step of them, alone *)

Frame == <<granted, client, asked, uses, held, reached>>

(* A token that no service knows any more is never known again. *)
LEMMA DeadStay ==
  ASSUME TypeOK, TypeOK', \A c \in Containers : former[c] <= former'[c],
         NEW t \in Auths, NEW c \in Containers, OwnOrDead(t, c)
  PROVE  OwnOrDead(t, c)'
<1>1. t[1] \in Containers /\ t[2] \in 1 .. MaxStarts BY DEF Auths
<1>2. former[t[1]] \in Nat /\ former'[t[1]] \in Nat BY <1>1 DEF TypeOK
<1> QED BY <1>1, <1>2, ProxyAssumption DEF OwnOrDead, Dead

(* Every part of OwnInv is about busy requests and cached clients: when     *)
(* there are fewer of them it stays true.                                   *)
LEMMA FewerOwn ==
  ASSUME TypeOK, OwnInv, UNCHANGED Frame, TypeOK',
         \A r \in Requests : pc'[r] \in {pc[r], "done"},
         \A r \in Requests : pc'[r] = "idle" <=> pc[r] = "idle",
         \A k \in Tokens : cache'[k] \in {cache[k], None},
         FormerAreGone', \A c \in Containers : former[c] <= former'[c]
  PROVE  OwnInv'
<1> USE DEF Frame, Busy
<1>1. RequestsAreAdmitted' BY DEF OwnInv, RequestsAreAdmitted, Admitted
<1>2. ClientsAreOwn' BY DEF OwnInv, ClientsAreOwn, Client, Making
<1>3. AuthsAreOwn'
  <2>1. \A t \in Auths, c \in Containers : OwnOrDead(t, c) => OwnOrDead(t, c)' BY DeadStay
  <2>2. \A r \in Requests : client[r] # None /\ client[r].auth # None =>
                             client[r].auth \in Auths /\ client[r].ct \in Containers
    BY ClientFields
  <2>3. \A r \in Requests : pc[r] \in Busy /\ held[r] # None =>
                             held[r] \in Auths /\ asked[r].ct \in Containers
    BY BusyFields, AskedFields DEF TypeOK
  <2> QED BY <2>1, <2>2, <2>3 DEF OwnInv, AuthsAreOwn
<1>4. MadeOnce' BY DEF OwnInv, MadeOnce
<1>5. ClientsAreForTheirTokens' BY DEF OwnInv, ClientsAreForTheirTokens
<1>6. ReachesItsContainer' BY DEF OwnInv, ReachesItsContainer
<1> QED BY <1>1, <1>2, <1>3, <1>4, <1>5, <1>6 DEF OwnInv

(* Steps that count no start and change no service. *)
LEMMA FormerKept ==
  ASSUME TypeOK, OwnInv, UNCHANGED <<started, former, serves>>
  PROVE  FormerAreGone' /\ \A c \in Containers : former[c] <= former'[c]
<1>1. \A c \in Containers : former[c] \in Nat BY DEF TypeOK
<1> QED BY <1>1 DEF OwnInv, FormerAreGone

(* The types after a request has ended, or the process with all requests. *)
LEMMA FinishType ==
  ASSUME TypeOK, NEW r \in Requests, NEW code \in Replies, Finish(r, code)
  PROVE  pc' \in [Requests -> Pcs] /\ reply' \in [Requests -> Replies]
BY DEF TypeOK, Finish, Pcs

LEMMA DieType ==
  ASSUME TypeOK, Die, UNCHANGED <<granted, expired, addr, started, former, serves>>
  PROVE  WorldOK' /\ AccessOK' /\ pc' \in [Requests -> Pcs] /\ reply' \in [Requests -> Replies]
BY DEF TypeOK, Die, WorldOK, AccessOK, Pcs, Replies

-----------------------------------------------------------------------------
(* A rejection, caught or not, ends the request. *)

LEMMA RejectionStep ==
  ASSUME TypeOK, OwnInv, NEW r \in Requests, NEW e \in BOOLEAN, pc[r] # "idle",
         Rejected(r, e) \/ Unhandled(r),
         UNCHANGED <<addr, started, former, serves, granted, expired, client, asked, uses, held,
                     reached>>,
         given' \in [Requests -> Auths \cup {None}]
  PROVE  TypeOK' /\ OwnInv'
<1> USE FormerKept
<1>1. CASE Die
  <2>1. TypeOK' BY <1>1, DieType, TypeParts DEF TypeOK, CallsOK, ClientsOK
  <2> QED BY <1>1, <2>1, FewerOwn DEF Die, Frame, TypeOK
<1>2. CASE /\ \E code \in Replies : Finish(r, code)
           /\ UNCHANGED <<valid, cache, up>>
  <2>1. TypeOK' BY <1>2, FinishType DEF TypeOK
  <2> QED BY <1>2, <2>1, FewerOwn DEF Finish, Frame, TypeOK
<1> QED BY <1>1, <1>2 DEF Rejected, Unhandled, Replies

-----------------------------------------------------------------------------
(* Access tokens *)

LEMMA AccessStep == ASSUME TypeOK, OwnInv, Access PROVE TypeOK' /\ OwnInv'
<1>1. CASE \E k \in Tokens, c \in Containers : AddContainerAccess(k, c)
  <2> PICK k \in Tokens, c \in Containers : AddContainerAccess(k, c) BY <1>1
  <2> USE DEF AddContainerAccess
  <2>1. TypeOK' BY DEF TypeOK
  <2>2. \A j \in Tokens : granted[j] # None => granted'[j] = granted[j] BY DEF TypeOK
  <2>3. RequestsAreAdmitted'
    BY <2>2, AskedFields, ProxyAssumption DEF OwnInv, RequestsAreAdmitted, Admitted, MadeOnce, Busy
  <2>4. ClientsAreForTheirTokens'
    BY <2>2, ClientFields, ProxyAssumption DEF OwnInv, ClientsAreForTheirTokens, MadeOnce, TypeOK
  <2>5. AuthsAreOwn' /\ FormerAreGone' BY DEF OwnInv, AuthsAreOwn, OwnOrDead, Dead, FormerAreGone
  <2> QED BY <2>1, <2>3, <2>4, <2>5
          DEF OwnInv, ClientsAreOwn, Client, Making, MadeOnce, ReachesItsContainer
<1>2. CASE CheckExpiredTokens \/ \E k \in Tokens : RemoveContainerAccess(k) \/ TimePasses(k)
  <2> USE <1>2 DEF CheckExpiredTokens, RemoveContainerAccess, TimePasses
  <2>1. TypeOK' BY DEF TypeOK
  <2>2. cache' \in [Tokens -> Requests \cup {None}] /\ \A k \in Tokens : cache'[k] \in {cache[k], None}
    BY DEF TypeOK
  <2> QED BY <2>1, <2>2, FewerOwn, FormerKept DEF Frame, TypeOK
<1> QED BY <1>1, <1>2 DEF Access

-----------------------------------------------------------------------------
(* Containers and agents *)

LEMMA EnvironmentStep == ASSUME TypeOK, OwnInv, Environment PROVE TypeOK' /\ OwnInv'
<1>1. PICK c \in Containers : \/ AgentStarts(c) \/ Connect(c) \/ Drop(c) \/ ServiceEnds(c)
                              \/ DeleteContainer(c) \/ \E a \in Addrs : CreateContainer(c, a)
  BY DEF Environment
<1>2. WorldOK'
  <2>1. CASE AgentStarts(c) BY <2>1, ProxyAssumption DEF AgentStarts, TypeOK, WorldOK
  <2>2. CASE Connect(c) BY <2>2, ProxyAssumption DEF Connect, TypeOK, WorldOK
  <2>3. CASE Drop(c) \/ ServiceEnds(c) BY <2>3, ProxyAssumption DEF Drop, ServiceEnds, TypeOK, WorldOK
  <2>4. CASE DeleteContainer(c) BY <2>4, ProxyAssumption DEF DeleteContainer, TypeOK, WorldOK
  <2>5. CASE \E a \in Addrs : CreateContainer(c, a) BY <2>5 DEF CreateContainer, TypeOK, WorldOK
  <2> QED BY <1>1, <2>1, <2>2, <2>3, <2>4, <2>5
<1>3. UNCHANGED <<access, clients, calls>>
  BY <1>1 DEF AgentStarts, Connect, Drop, ServiceEnds, DeleteContainer, CreateContainer
<1>4. TypeOK' BY <1>2, <1>3, TypeParts DEF TypeOK, AccessOK, ClientsOK, CallsOK
<1>5. FormerAreGone' /\ \A d \in Containers : former[d] <= former'[d]
  <2>1. \A d \in Containers : /\ former[d] \in Nat /\ started[d] \in Nat /\ serves[d] \in Nat
                             /\ former[d] <= started[d] /\ (serves[d] > 0 => serves[d] > former[d])
    BY ProxyAssumption DEF TypeOK, OwnInv, FormerAreGone
  <2>2. CASE AgentStarts(c) BY <2>1, <2>2 DEF AgentStarts, FormerAreGone, TypeOK
  <2>3. CASE Connect(c) \/ Drop(c) \/ ServiceEnds(c) \/ \E a \in Addrs : CreateContainer(c, a)
    BY <2>1, <2>3 DEF Connect, Drop, ServiceEnds, CreateContainer, FormerAreGone, TypeOK
  <2>4. CASE DeleteContainer(c) BY <2>1, <2>4 DEF DeleteContainer, FormerAreGone, TypeOK
  <2> QED BY <1>1, <2>2, <2>3, <2>4
<1> QED BY <1>3, <1>4, <1>5, FewerOwn DEF Frame, TypeOK

-----------------------------------------------------------------------------
(* A request that arrives, is refused or goes on with a client *)

(* An answer, by which only the request itself changes. *)
LEMMA AnswerStep ==
  ASSUME TypeOK, OwnInv, NEW r \in Requests, pc[r] # "idle", NEW code \in Replies,
         Finish(r, code), UNCHANGED <<cluster, access, cache, given, Frame>>
  PROVE  TypeOK' /\ OwnInv'
<1>1. TypeOK' BY FinishType DEF TypeOK, Frame
<1> QED BY <1>1, FewerOwn, FormerKept DEF Finish, Frame, TypeOK

LEMMA ArriveStep ==
  ASSUME TypeOK, OwnInv, NEW r \in Requests, NEW q \in Asked, Arrive(r, q)
  PROVE  TypeOK' /\ OwnInv'
<1> USE DEF Arrive
<1>1. pc' \in [Requests -> Pcs] /\ reply' \in [Requests -> Replies]
  BY FinishType DEF TypeOK, Pcs, Replies
<1>2. TypeOK' BY <1>1 DEF TypeOK
<1>3. /\ pc[r] = "idle" /\ pc'[r] \in {"address", "done"}
      /\ \A o \in Requests \ {r} : pc'[o] = pc[o] /\ asked'[o] = asked[o]
      /\ asked'[r] = q /\ q # None
  BY NoneIsNoRecord DEF TypeOK, Finish
<1>4. pc'[r] = "address" /\ q.kind = "http" => granted[q.token] = q.ct
  BY <1>3 DEF TypeOK, Finish, Authorized
<1>5. RequestsAreAdmitted' BY <1>3, <1>4 DEF OwnInv, RequestsAreAdmitted, Admitted, Busy
<1>6. ClientsAreOwn' /\ AuthsAreOwn'
  BY <1>3 DEF OwnInv, ClientsAreOwn, AuthsAreOwn, OwnOrDead, Dead, Client, Making, Busy
<1>7. MadeOnce' /\ FormerAreGone' BY <1>3, FormerKept DEF OwnInv, MadeOnce
<1>8. ClientsAreForTheirTokens' BY DEF OwnInv, ClientsAreForTheirTokens
<1>9. ReachesItsContainer' BY <1>3 DEF OwnInv, MadeOnce, ReachesItsContainer
<1> QED BY <1>2, <1>5, <1>6, <1>7, <1>8, <1>9 DEF OwnInv

(* What a step of request r may do to the clients, seen by the others: a    *)
(* client keeps its container, and learns only tokens of that container.    *)
ClientsKept(r) ==
  /\ \A q \in Requests : client[q] # None =>
       /\ client'[q] # None /\ client'[q].ct = client[q].ct
       /\ \/ client'[q].auth = client[q].auth
          \/ client'[q].auth # None /\ OwnOrDead(client'[q].auth, client[q].ct)
  /\ \A q \in Requests \ {r} : client[q] = None => client'[q] = None
  /\ \A k \in Tokens : \/ cache'[k] = cache[k]
                       \/ /\ k = asked[r].token /\ cache'[k] = uses'[r]
                          /\ client'[uses'[r]].auth # None

(* A busy request goes on: the parts of OwnInv hold if they hold of it.     *)
LEMMA RequestGoesOn ==
  ASSUME TypeOK, OwnInv, TypeOK', NEW r \in Requests, pc[r] # "idle", pc'[r] \in Busy,
         UNCHANGED <<cluster, granted, asked, reached>>, reached[r] = None, Admitted(r),
         ClientsKept(r),
         \A o \in Requests \ {r} : pc'[o] = pc[o] /\ uses'[o] = uses[o] /\ held'[o] = held[o],
         uses'[r] \in Requests, client'[uses'[r]] # None, client'[uses'[r]].ct = asked[r].ct,
         client'[uses'[r]].auth = None => uses'[r] = r,
         client'[r] # None /\ client'[r].auth # None => OwnOrDead(client'[r].auth, client'[r].ct),
         held'[r] # None => OwnOrDead(held'[r], asked[r].ct)
  PROVE  OwnInv'
<1> USE DEF Busy
<1>1. RequestsAreAdmitted' BY DEF OwnInv, RequestsAreAdmitted, Admitted
<1>2. ClientsAreOwn'
  <2> SUFFICES ASSUME NEW o \in Requests \ {r}, pc[o] \in Busy
               PROVE  /\ uses[o] # None /\ Client(o)' # None /\ Client(o)'.ct = asked[o].ct
                      /\ Client(o)'.auth = None => uses[o] = o
    BY ProxyAssumption DEF ClientsAreOwn, Client, Making
  <2>1. /\ uses[o] \in Requests /\ client[uses[o]] # None /\ client[uses[o]].ct = asked[o].ct
        /\ client[uses[o]].auth = None => uses[o] = o
    BY DEF TypeOK, OwnInv, ClientsAreOwn, Client, Making
  <2> QED BY <2>1, ProxyAssumption DEF ClientsKept, Client
<1>3. AuthsAreOwn'
  <2>1. \A o \in Requests \ {r} :
          client'[o] # None /\ client'[o].auth # None => OwnOrDead(client'[o].auth, client'[o].ct)
    BY DEF OwnInv, AuthsAreOwn, ClientsKept
  <2>2. \A t, c : OwnOrDead(t, c) => OwnOrDead(t, c)' BY DEF OwnOrDead, Dead
  <2> QED BY <2>1, <2>2 DEF OwnInv, AuthsAreOwn
<1>4. MadeOnce' BY DEF OwnInv, MadeOnce, ClientsKept, TypeOK
<1>5. ClientsAreForTheirTokens'
  BY DEF OwnInv, ClientsAreForTheirTokens, MadeOnce, ClientsKept, Admitted, TypeOK
<1>6. ReachesItsContainer' BY DEF OwnInv, ReachesItsContainer
<1>7. FormerAreGone' BY FormerKept
<1> QED BY <1>1, <1>2, <1>3, <1>4, <1>5, <1>6, <1>7 DEF OwnInv

(* A request that goes on with a client: the cached one of its token, or a  *)
(* new one.                                                                 *)
LEMMA TakeClientStep ==
  ASSUME TypeOK, OwnInv, NEW r \in Requests, NEW a \in Addrs, pc[r] = "address",
         Admitted(r), TakeClient(r, a), reply' \in [Requests -> Replies],
         UNCHANGED <<cluster, access, cache, asked, given, reached>>
  PROVE  TypeOK' /\ OwnInv'
<1> DEFINE k == asked[r].token
<1>1. asked[r] # None /\ client[r] = None /\ reached[r] = None BY DEF OwnInv, MadeOnce
<1>2. k \in Tokens /\ asked[r].ct \in Containers BY <1>1, AskedFields
<1>3. CASE cache[k] # None
  <2> DEFINE q == cache[k]
  <2>1. /\ q \in Requests /\ client[q] # None /\ client[q].ct = asked[r].ct
        /\ client[q].auth # None
    BY <1>2, <1>3 DEF TypeOK, OwnInv, MadeOnce, ClientsAreForTheirTokens, Admitted
  <2>2. client[q].auth \in Auths \cup {None} BY <2>1, ClientFields
  <2>3. /\ uses' = [uses EXCEPT ![r] = q] /\ held' = [held EXCEPT ![r] = client[q].auth]
        /\ pc' = [pc EXCEPT ![r] = "forward"] /\ UNCHANGED client
    BY <1>3 DEF TakeClient
  <2>4. TypeOK' BY <2>1, <2>2, <2>3 DEF TypeOK, Pcs
  <2>5. ClientsKept(r) BY <2>3 DEF ClientsKept
  <2>6. OwnOrDead(client[q].auth, asked[r].ct) BY <2>1 DEF OwnInv, AuthsAreOwn
  <2>7. /\ uses'[r] = q /\ held'[r] = client[q].auth /\ pc'[r] = "forward"
        /\ \A o \in Requests \ {r} : pc'[o] = pc[o] /\ uses'[o] = uses[o] /\ held'[o] = held[o]
    BY <2>3 DEF TypeOK
  <2> QED BY <1>1, <2>1, <2>3, <2>4, <2>5, <2>6, <2>7, RequestGoesOn DEF Busy
<1>4. CASE cache[k] = None
  <2> DEFINE new == [ct |-> asked[r].ct, host |-> a, auth |-> None]
  <2>1. new \in Clients /\ new # None BY <1>2, NoneIsNoRecord DEF Clients
  <2>2. /\ client' = [client EXCEPT ![r] = new] /\ uses' = [uses EXCEPT ![r] = r]
        /\ pc' = [pc EXCEPT ![r] = "ask"] /\ UNCHANGED held
    BY <1>4 DEF TakeClient
  <2>3. TypeOK' BY <2>1, <2>2 DEF TypeOK, Pcs
  <2>4. /\ uses'[r] = r /\ client'[r] = new /\ pc'[r] = "ask" /\ held'[r] = None
        /\ \A o \in Requests \ {r} : pc'[o] = pc[o] /\ uses'[o] = uses[o] /\ held'[o] = held[o]
    BY <2>2 DEF TypeOK, OwnInv, MadeOnce
  <2>5. ClientsKept(r) BY <1>1, <2>2 DEF ClientsKept, TypeOK
  <2> QED BY <1>1, <2>1, <2>3, <2>4, <2>5, RequestGoesOn DEF Busy
<1> QED BY <1>3, <1>4 DEF TakeClient

(* Proxmox has answered: no address, no access, or a client.                *)
LEMMA AddressStep ==
  ASSUME TypeOK, OwnInv, NEW r \in Requests, ProxyHandler(r) \/ Upgrade(r)
  PROVE  TypeOK' /\ OwnInv'
<1> DEFINE a == addr[asked[r].ct]
<1>1. pc[r] = "address" /\ UNCHANGED <<cluster, access, cache, asked, given, reached>>
  BY DEF ProxyHandler, Upgrade
<1>2. CASE \E code \in Replies : Finish(r, code) /\ UNCHANGED <<client, uses, held>>
  BY <1>1, <1>2, AnswerStep DEF Frame
<1>3. CASE /\ a \in Addrs /\ Admitted(r) /\ TakeClient(r, a)
           /\ reply' \in [Requests -> Replies]
  BY <1>1, <1>3, TakeClientStep
<1>4. ProxyHandler(r) => Admitted(r)
  BY DEF ProxyHandler, OwnInv, RequestsAreAdmitted
<1>5. ProxyHandler(r) => \/ Finish(r, "not found") /\ UNCHANGED <<client, uses, held>>
                         \/ /\ a \in Addrs /\ TakeClient(r, a)
                            /\ reply' \in [Requests -> Replies]
  BY DEF ProxyHandler, TypeOK, Replies
<1>6. Upgrade(r) => \/ Finish(r, "refused") /\ UNCHANGED <<client, uses, held>>
                    \/ /\ a \in Addrs /\ Admitted(r) /\ TakeClient(r, a)
                       /\ reply' \in [Requests -> Replies]
  BY DEF Upgrade, TypeOK, Authorized, Admitted
<1> QED BY <1>2, <1>3, <1>4, <1>5, <1>6 DEF Replies

-----------------------------------------------------------------------------
(* The service's token *)

(* A busy request of which at most its place and what it was told change. *)
LEMMA BusyStep ==
  ASSUME TypeOK, OwnInv, NEW r \in Requests, pc[r] \in Busy, NEW h \in Auths \cup {None}, NEW p \in Busy,
         h # None => OwnOrDead(h, asked[r].ct), given' \in [Requests -> Auths \cup {None}],
         pc' = [pc EXCEPT ![r] = p], held' = [held EXCEPT ![r] = h],
         UNCHANGED <<cluster, access, clients, asked, uses, reply, reached>>
  PROVE  TypeOK' /\ OwnInv'
<1>1. TypeOK' BY DEF TypeOK, Pcs, Busy
<1>2. ClientsKept(r) BY DEF ClientsKept
<1>3. /\ uses[r] \in Requests /\ client[uses[r]] # None /\ client[uses[r]].ct = asked[r].ct
      /\ client[uses[r]].auth = None => uses[r] = r
      /\ Admitted(r)
  BY BusyFields DEF Making, Client, Admitted
<1>4. /\ reached[r] = None
      /\ client[r] # None /\ client[r].auth # None => OwnOrDead(client[r].auth, client[r].ct)
  BY DEF OwnInv, MadeOnce, AuthsAreOwn, Busy
<1>5. /\ pc[r] # "idle" /\ pc'[r] \in Busy /\ held'[r] = h
      /\ \A o \in Requests \ {r} : pc'[o] = pc[o] /\ uses'[o] = uses[o] /\ held'[o] = held[o]
  BY DEF TypeOK, Busy
<1> QED BY <1>1, <1>2, <1>3, <1>4, <1>5, RequestGoesOn

(* The token a connected agent has. *)
LEMMA StartOf == ASSUME TypeOK, NEW c \in up PROVE <<c, started[c]>> \in Auths
<1>1. /\ c \in Containers /\ started[c] > former[c] /\ started[c] \in 0 .. MaxStarts
      /\ former[c] \in 0 .. MaxStarts
  BY DEF TypeOK
<1>2. started[c] \in 1 .. MaxStarts BY <1>1, ProxyAssumption
<1> QED BY <1>1, <1>2 DEF Auths

LEMMA FetchAuthStep ==
  ASSUME TypeOK, OwnInv, NEW r \in Requests, FetchAuth(r)
  PROVE  TypeOK' /\ OwnInv'
<1>1. CASE ~Connected(Client(r).host) /\ FetchAuth(r)
  <2>1. Rejected(r, TRUE) /\ UNCHANGED <<held, given>> BY <1>1 DEF FetchAuth, Connected
  <2> QED BY <2>1, RejectionStep DEF FetchAuth, TypeOK
<1>2. CASE \E d \in up : /\ given' = [given EXCEPT ![r] = <<d, started[d]>>]
                        /\ pc' = [pc EXCEPT ![r] = "wait"] /\ held' = [held EXCEPT ![r] = None]
                        /\ UNCHANGED <<valid, cache, up, reply>>
  <2>1. PICK d \in up : given' = [given EXCEPT ![r] = <<d, started[d]>>] BY <1>2
  <2>2. <<d, started[d]>> \in Auths BY StartOf
  <2>3. given' \in [Requests -> Auths \cup {None}] BY <2>1, <2>2 DEF TypeOK
  <2> QED BY <1>2, <2>3, BusyStep DEF FetchAuth, Busy
<1> QED BY <1>1, <1>2 DEF FetchAuth, Connected

LEMMA AgentRepliesStep ==
  ASSUME TypeOK, OwnInv, NEW r \in Requests, AgentReplies(r)
  PROVE  TypeOK' /\ OwnInv'
<1> USE DEF AgentReplies
<1> DEFINE c == Client(r).ct
<1>1. c = asked[r].ct BY BusyFields DEF Busy, Client
<1>2. given' \in [Requests -> Auths \cup {None}] BY DEF TypeOK
<1>3. pc' = [pc EXCEPT ![r] = "wait"] BY DEF TypeOK
<1>4. CASE c \in up /\ held' = [held EXCEPT ![r] = <<c, started[c]>>]
  <2>1. <<c, started[c]>> \in Auths BY <1>4, StartOf
  <2>2. OwnOrDead(<<c, started[c]>>, asked[r].ct) BY <1>1 DEF OwnOrDead
  <2> QED BY <1>2, <1>3, <1>4, <2>1, <2>2, BusyStep DEF Busy
<1>5. CASE Dead(given[r]) /\ held' = [held EXCEPT ![r] = given[r]]
  <2>1. given[r] \in Auths \cup {None} BY DEF TypeOK
  <2>2. OwnOrDead(given[r], asked[r].ct) BY <1>5 DEF OwnOrDead
  <2> QED BY <1>2, <1>3, <1>5, <2>1, <2>2, BusyStep DEF Busy
<1> QED BY <1>4, <1>5

LEMMA AuthFetchedStep ==
  ASSUME TypeOK, OwnInv, NEW r \in Requests, AuthFetched(r)
  PROVE  TypeOK' /\ OwnInv'
<1> USE DEF AuthFetched
<1> DEFINE q == uses[r]
<1>1. /\ q \in Requests /\ client[q] # None /\ asked[r] # None /\ client[q].ct = asked[r].ct
      /\ Admitted(r) /\ (client[q].auth = None => q = r)
  BY BusyFields DEF Busy, Making, Client, Admitted
<1>2. /\ held[r] \in Auths /\ held[r] # None /\ OwnOrDead(held[r], asked[r].ct)
  BY DEF TypeOK, OwnInv, AuthsAreOwn, Busy
<1>3. asked[r].token \in Tokens BY <1>1, AskedFields
<1>4. client[q] \in Clients BY <1>1 DEF TypeOK
<1> DEFINE new == [client[q] EXCEPT !.auth = held[r]]
<1>5. new \in Clients /\ new # None /\ new.ct = client[q].ct /\ new.auth = held[r]
  BY <1>2, <1>4, NoneIsNoRecord DEF Clients
<1>6. client' = [client EXCEPT ![q] = new] OBVIOUS
<1>7. TypeOK'
  <2> HIDE DEF new
  <2>1. WorldOK /\ AccessOK /\ ClientsOK /\ CallsOK BY TypeParts
  <2>2. WorldOK' BY <2>1 DEF WorldOK
  <2>3. AccessOK' BY <1>3, <2>1 DEF AccessOK
  <2>4. ClientsOK' BY <1>5, <1>6, <2>1 DEF ClientsOK
  <2>5. CallsOK' BY <2>1 DEF CallsOK, Pcs
  <2> QED BY <2>2, <2>3, <2>4, <2>5, TypeParts
<1>8. client'[q] = new /\ \A o \in Requests \ {q} : client'[o] = client[o]
  BY <1>1, <1>6 DEF TypeOK
<1>9. ClientsKept(r)
  <2>1. \A k \in Tokens : cache'[k] = cache[k] \/ (k = asked[r].token /\ cache'[k] = uses'[r])
    BY <1>1 DEF TypeOK, Making, Client
  <2>2. uses'[r] = q /\ client'[q].auth # None BY <1>2, <1>5, <1>8
  <2>3. client'[q] # None /\ client'[q].ct = client[q].ct /\ OwnOrDead(client'[q].auth, client[q].ct)
    BY <1>1, <1>2, <1>5, <1>8
  <2> HIDE DEF AuthFetched, new
  <2>4. \A o \in Requests : client[o] # None =>
          /\ client'[o] # None /\ client'[o].ct = client[o].ct
          /\ \/ client'[o].auth = client[o].auth
             \/ client'[o].auth # None /\ OwnOrDead(client'[o].auth, client[o].ct)
    BY <1>1, <1>8, <2>2, <2>3
  <2>5. \A o \in Requests \ {r} : client[o] = None => client'[o] = None BY <1>1, <1>8
  <2> QED BY <2>1, <2>2, <2>4, <2>5 DEF ClientsKept
<1>10. /\ reached[r] = None
       /\ client[r] # None /\ client[r].auth # None => OwnOrDead(client[r].auth, client[r].ct)
  BY DEF OwnInv, MadeOnce, AuthsAreOwn
<1>11. /\ pc'[r] \in Busy
       /\ \A o \in Requests \ {r} : pc'[o] = pc[o] /\ uses'[o] = uses[o] /\ held'[o] = held[o]
  BY DEF TypeOK, Busy
<1>12. client'[r] # None /\ client'[r].auth # None => OwnOrDead(client'[r].auth, client'[r].ct)
  BY <1>1, <1>2, <1>5, <1>8, <1>10
<1>13. /\ uses'[r] = q /\ held'[r] = held[r] /\ pc[r] # "idle"
       /\ UNCHANGED <<cluster, granted, asked, reached>>
  OBVIOUS
<1>14. client'[q] # None /\ client'[q].ct = asked[r].ct /\ client'[q].auth # None
  BY <1>1, <1>2, <1>5, <1>8
<1> HIDE DEF AuthFetched, new
<1> QED BY <1>1, <1>2, <1>7, <1>9, <1>10, <1>11, <1>12, <1>13, <1>14, RequestGoesOn

-----------------------------------------------------------------------------
(* The service takes the request, or not *)

LEMMA ForwardStep ==
  ASSUME TypeOK, OwnInv, NEW r \in Requests, Forward(r)
  PROVE  TypeOK' /\ OwnInv'
<1>1. pc[r] = "forward" /\ UNCHANGED <<cluster, access, clients, asked, uses, held, given>>
  BY DEF Forward
<1>2. CASE \E code \in Replies : Finish(r, code) /\ UNCHANGED reached
  BY <1>1, <1>2, AnswerStep DEF Frame
<1>3. CASE Goto(r, "ask") /\ UNCHANGED <<reply, reached>>
  <2>1. /\ held[r] # None => OwnOrDead(held[r], asked[r].ct)
        /\ given' \in [Requests -> Auths \cup {None}]
        /\ held[r] \in Auths \cup {None} /\ held' = [held EXCEPT ![r] = held[r]]
    BY <1>1 DEF TypeOK, OwnInv, AuthsAreOwn, Busy
  <2> QED BY <1>1, <1>3, <2>1, BusyStep DEF Busy
<1>4. ASSUME NEW c \in Containers, serves[c] > 0, held[r] = <<c, serves[c]>>,
             reached' = [reached EXCEPT ![r] = c], Finish(r, "served")
      PROVE  TypeOK' /\ OwnInv'
  <2>1. c = asked[r].ct
    <3>1. serves[c] \in 1 .. MaxStarts
      <4>1. serves[c] \in 0 .. MaxStarts BY DEF TypeOK
      <4> QED BY <1>4, <4>1, ProxyAssumption
    <3>2. held[r] # None BY <1>4, <3>1, NoneIsNoRecord DEF Auths
    <3>3. OwnOrDead(held[r], asked[r].ct) BY <1>1, <3>2 DEF OwnInv, AuthsAreOwn, Busy
    <3>4. serves[c] > former[c] /\ former[c] \in Nat BY <1>4 DEF OwnInv, FormerAreGone, TypeOK
    <3>5. ~Dead(held[r]) BY <1>4, <3>1, <3>4, ProxyAssumption DEF Dead
    <3> QED BY <1>4, <3>3, <3>5 DEF OwnOrDead
  <2>2. pc' \in [Requests -> Pcs] /\ reply' \in [Requests -> Replies]
    BY <1>4, FinishType DEF Replies
  <2>3. TypeOK' BY <1>1, <1>4, <2>2 DEF TypeOK
  <2>4. pc'[r] = "done" /\ \A o \in Requests \ {r} : pc'[o] = pc[o] /\ reached'[o] = reached[o]
    BY <1>4 DEF Finish, TypeOK
  <2>5. RequestsAreAdmitted' /\ ClientsAreOwn' /\ AuthsAreOwn'
    BY <1>1, <2>4 DEF OwnInv, RequestsAreAdmitted, Admitted, ClientsAreOwn, AuthsAreOwn, Client,
                      OwnOrDead, Dead, Making, Busy
  <2>6. MadeOnce' /\ ClientsAreForTheirTokens' /\ FormerAreGone'
    BY <1>1, <2>4, FormerKept DEF OwnInv, MadeOnce, ClientsAreForTheirTokens
  <2>7. ReachesItsContainer'
    BY <1>1, <1>4, <2>1, <2>4 DEF OwnInv, ReachesItsContainer, TypeOK
  <2> QED BY <2>3, <2>5, <2>6, <2>7 DEF OwnInv
<1> QED BY <1>1, <1>2, <1>3, <1>4 DEF Forward, Listening, Replies

-----------------------------------------------------------------------------
(* Every step *)

LEMMA Inductive == ASSUME TypeOK, OwnInv, [Next]_vars PROVE TypeOK' /\ OwnInv'
<1>1. CASE UNCHANGED vars
  <2>1. TypeOK' BY <1>1 DEF vars, TypeOK
  <2> QED BY <1>1, <2>1, FewerOwn, FormerKept DEF vars, Frame, TypeOK
<1>2. ASSUME NEW r \in Requests, AuthRejected(r) \/ CallThrows(r) PROVE TypeOK' /\ OwnInv'
  BY <1>2, RejectionStep DEF AuthRejected, CallThrows, TypeOK
<1> QED BY <1>1, <1>2, ArriveStep, AddressStep, FetchAuthStep, AgentRepliesStep, AuthFetchedStep,
           ForwardStep, AccessStep, EnvironmentStep DEF Next, Step

LEMMA Initially == Init => TypeOK /\ OwnInv
<1> SUFFICES ASSUME Init PROVE TypeOK /\ OwnInv OBVIOUS
<1>1. TypeOK BY ProxyAssumption DEF Init, TypeOK, Pcs, Replies
<1>2. OwnInv
  BY DEF Init, OwnInv, RequestsAreAdmitted, ClientsAreOwn, AuthsAreOwn, FormerAreGone, MadeOnce, Busy,
         ClientsAreForTheirTokens, ReachesItsContainer
<1> QED BY <1>1, <1>2

(* Every reachable state is well typed. *)
THEOREM TypeCorrect == Spec => []TypeOK
BY Initially, Inductive, PTL DEF Spec

(* What every step relies on and leaves behind holds in every reachable      *)
(* state: whoever is being served was admitted, a client is made once, by    *)
(* one request, for the container of its token and with its own auth.        *)
THEOREM OwnInvariant == Spec => []OwnInv
BY Initially, Inductive, PTL DEF Spec

(* A request is only ever taken by a service of the container it is for,    *)
(* whatever becomes of tokens, agents, connections and addresses while it   *)
(* waits (proxyHandler.ts:36-53).                                           *)
THEOREM RequestsReachTheirContainers == Spec => []ReachesItsContainer
<1>1. OwnInv => ReachesItsContainer BY DEF OwnInv
<1> QED BY <1>1, Initially, Inductive, PTL DEF Spec

(* The client in the cache of a token is for the container of that token.   *)
THEOREM ClientsMatchTokens == Spec => []ClientsAreForTheirTokens
<1>1. OwnInv => ClientsAreForTheirTokens BY DEF OwnInv
<1> QED BY <1>1, Initially, Inductive, PTL DEF Spec
=============================================================================
