---------------------------- MODULE ProxyManager ----------------------------
(***************************************************************************)
(* The proxy manager of the daemon: access tokens (ProxyManager.ts,         *)
(* routers/pm.ts), the way of a browser's request to a service of a         *)
(* container (proxyHandler.ts, proxies, the upgrade handler) and the cached *)
(* clients that know the service's own token.                               *)
(*                                                                          *)
(* A client keeps the address its container had when it was made, and a     *)
(* service token its agent told it.  Both may be outdated when they are     *)
(* used: the agent gives its services new tokens whenever it starts, and    *)
(* an address, like the id of a container, goes to the next container.  No  *)
(* access token is revoked when a container is deleted: a token is for an   *)
(* id, and opens the next container with it.                                *)
(*                                                                          *)
(* The two services of a container behave alike; one stands for both, and   *)
(* the service and container a token names are one value.  An action is the *)
(* code between two awaits.                                                 *)
(***************************************************************************)
EXTENDS Naturals

CONSTANTS
  Requests,       \* requests of browsers; each also names the client it makes
  Tokens,         \* access tokens; a random one is never drawn again
  Containers,
  Addrs,
  MaxStarts,      \* how often an agent may start
  RejectionKills, \* an unhandled rejection ends the process (Node.js >= 15)
  Env,            \* what the environment does (see EnvEvents)
  None

(***************************************************************************)
(*   restart     an agent ends and starts again                             *)
(*   orphan      its services outlive it and keep their ports and tokens    *)
(*   serviceEnds a service ends (nothing starts it again)                   *)
(*   drop        a connection between an agent and the daemon is lost       *)
(*   replace     containers are deleted; others get their id and address    *)
(*   throw       a call to MySQL or Proxmox rejects                         *)
(***************************************************************************)
EnvEvents == {"restart", "orphan", "serviceEnds", "drop", "replace", "throw"}

ASSUME ProxyAssumption ==
  /\ MaxStarts \in Nat
  /\ None \notin Addrs
  /\ None \notin Containers /\ None \notin Requests
  /\ RejectionKills \in BOOLEAN /\ Env \subseteq EnvEvents

Kinds == {"http", "upgrade"}
Pcs == {"idle", "address", "ask", "wait", "forward", "done"}

(* "silent": the handler ends and sends nothing, and the browser waits. *)
Replies == {"none", "unauthorized", "not found", "conflict", "served", "refused",
            "error", "silent", "dropped"}

(* The token of a service: of which container, from which start of its agent.  *)
(* The starts of all containers an id has had are counted on, for a random     *)
(* token is never drawn again.                                                 *)
Auths == Containers \X (1 .. MaxStarts)

Asked == [kind : Kinds, token : Tokens, ct : Containers]
Clients == [ct : Containers, host : Addrs, auth : Auths \cup {None}]

ASSUME NoneIsNoRecord == None \notin Clients /\ None \notin Auths /\ None \notin Asked

VARIABLES
  addr,     \* Proxmox: the address of every container
  up,       \* the containers whose agent is connected to the daemon
  started,  \* how often the agents of the containers with an id have started,
  former,   \* and how many of these starts were those of deleted containers
  serves,   \* the start whose token the running service knows, 0 if none runs
  valid,    \* accessTokens: the tokens in it ...
  granted,  \* ... and the container each was granted for (also afterwards)
  expired,  \* the tokens whose time has passed
  cache,    \* containerProxyClient: token -> client
  client,   \* the client objects, by the request that made them
  pc,       \* the requests
  asked,    \* what they ask for
  uses,     \* the client a request uses
  held,     \* the service token it carries, or was told while it waits
  given,    \* the agent, and its start, whose answer it waits for
  reply,    \* the first answer the browser gets
  reached   \* history: the container whose service took the request

cluster == <<addr, up, started, former, serves>>
access  == <<valid, granted, expired>>
clients == <<cache, client>>
calls   == <<pc, asked, uses, held, given, reply, reached>>
vars    == <<cluster, access, clients, calls>>

TypeOK ==
  /\ addr \in [Containers -> Addrs \cup {None}]
  /\ started \in [Containers -> 0 .. MaxStarts] /\ former \in [Containers -> 0 .. MaxStarts]
  /\ up \subseteq Containers /\ \A c \in up : started[c] > former[c]
  /\ serves \in [Containers -> 0 .. MaxStarts]
  /\ valid \subseteq Tokens /\ expired \subseteq Tokens
  /\ granted \in [Tokens -> Containers \cup {None}]
  /\ cache \in [Tokens -> Requests \cup {None}]
  /\ client \in [Requests -> Clients \cup {None}]
  /\ pc \in [Requests -> Pcs] /\ reply \in [Requests -> Replies]
  /\ asked \in [Requests -> Asked \cup {None}]
  /\ uses \in [Requests -> Requests \cup {None}]
  /\ held \in [Requests -> Auths \cup {None}] /\ given \in [Requests -> Auths \cup {None}]
  /\ reached \in [Requests -> Containers \cup {None}]

Init ==
  /\ addr = [c \in Containers |-> None] /\ up = {}
  /\ started = [c \in Containers |-> 0] /\ former = [c \in Containers |-> 0]
  /\ serves = [c \in Containers |-> 0]
  /\ valid = {} /\ expired = {} /\ granted = [k \in Tokens |-> None]
  /\ cache = [k \in Tokens |-> None] /\ client = [r \in Requests |-> None]
  /\ pc = [r \in Requests |-> "idle"] /\ reply = [r \in Requests |-> "none"]
  /\ asked = [r \in Requests |-> None] /\ uses = [r \in Requests |-> None]
  /\ held = [r \in Requests |-> None] /\ given = [r \in Requests |-> None]
  /\ reached = [r \in Requests |-> None]

-----------------------------------------------------------------------------
(* How a request goes on and ends. *)

At(r, p) == pc[r] = p

Goto(r, p) == pc' = [pc EXCEPT ![r] = p]

(* The browser gets the first answer; a second one is not sent. *)
Finish(r, code) ==
  /\ Goto(r, "done")
  /\ reply' = [reply EXCEPT ![r] = IF @ = "none" THEN code ELSE @]

(* The process ends: tokens, clients and connections are in its memory. *)
Die == /\ pc' = [r \in Requests |-> IF pc[r] = "idle" THEN "idle" ELSE "done"]
       /\ reply' = [r \in Requests |-> IF pc[r] \notin {"idle", "done"} /\ reply[r] = "none"
                                         THEN "dropped" ELSE reply[r]]
       /\ valid' = {} /\ cache' = [k \in Tokens |-> None] /\ up' = {}

(* proxyHandler and the upgrade listener are not awaited. *)
Unhandled(r) == IF RejectionKills THEN Die
                                  ELSE Finish(r, "silent") /\ UNCHANGED <<valid, cache, up>>

-----------------------------------------------------------------------------
(* Access tokens: routers/pm.ts *)

AddContainerAccess(k, c) ==
  /\ granted[k] = None
  /\ granted' = [granted EXCEPT ![k] = c] /\ valid' = valid \cup {k}
  /\ UNCHANGED <<cluster, expired, clients, calls>>

(* The client, if there is one, stays in the cache. *)
RemoveContainerAccess(k) ==
  /\ k \in valid /\ valid' = valid \ {k}
  /\ UNCHANGED <<cluster, granted, expired, clients, calls>>

TimePasses(k) ==
  /\ k \in valid \ expired /\ expired' = expired \cup {k}
  /\ UNCHANGED <<cluster, valid, granted, clients, calls>>

(* Every minute: the tokens whose time has passed go with their clients. *)
CheckExpiredTokens ==
  /\ valid \cap expired # {} /\ valid' = valid \ expired
  /\ cache' = [k \in Tokens |-> IF k \in valid \cap expired THEN None ELSE cache[k]]
  /\ UNCHANGED <<cluster, granted, expired, client, calls>>

-----------------------------------------------------------------------------
(* A request of a browser *)

(* The token is valid and was granted for the container in the host name. *)
Authorized(q) == q.token \in valid /\ granted[q.token] = q.ct

(* A request over HTTP shows its token on arrival (serviceRedirect.ts), ... *)
Arrive(r, q) ==
  /\ At(r, "idle")
  /\ asked' = [asked EXCEPT ![r] = q]
  /\ IF q.kind = "http" /\ ~Authorized(q)
       THEN Finish(r, "unauthorized")
       ELSE Goto(r, "address") /\ UNCHANGED reply
  /\ UNCHANGED <<cluster, access, clients, uses, held, given, reached>>

Connected(a) == \E c \in up : addr[c] = a

(* Mutant: the newest client for the address, whoever made it. *)
TakeClientOfAnother(r, a) ==
  \/ \E q \in Requests : /\ client[q] # None /\ client[q].host = a /\ client[q].auth # None
                         /\ uses' = [uses EXCEPT ![r] = q]
                         /\ held' = [held EXCEPT ![r] = client[q].auth]
                         /\ Goto(r, "forward") /\ UNCHANGED client
  \/ /\ client' = [client EXCEPT ![r] = [ct |-> asked[r].ct, host |-> a, auth |-> None]]
     /\ uses' = [uses EXCEPT ![r] = r]
     /\ Goto(r, "ask") /\ UNCHANGED held

(* The client of the token, or a new one that has to learn its token first. *)
TakeClient(r, a) ==
  LET k == asked[r].token IN
  \/ /\ cache[k] # None
     /\ uses' = [uses EXCEPT ![r] = cache[k]]
     /\ held' = [held EXCEPT ![r] = client[cache[k]].auth]
     /\ Goto(r, "forward") /\ UNCHANGED client
  \/ /\ cache[k] = None
     /\ client' = [client EXCEPT ![r] = [ct |-> asked[r].ct, host |-> a, auth |-> None]]
     /\ uses' = [uses EXCEPT ![r] = r]
     /\ Goto(r, "ask") /\ UNCHANGED held

(* Proxmox gives the address.  There is no return after the 409. *)
ProxyHandler(r) ==
  /\ At(r, "address") /\ asked[r].kind = "http"
  /\ LET a == addr[asked[r].ct] IN
       \/ a \notin Addrs /\ Finish(r, "not found") /\ UNCHANGED <<client, uses, held>>
       \/ /\ a \in Addrs /\ TakeClient(r, a)
          /\ reply' = [reply EXCEPT ![r] = IF Connected(a) THEN @ ELSE "conflict"]
  /\ UNCHANGED <<cluster, access, cache, asked, given, reached>>

(* Mutant: any valid token will do. *)
UpgradeAnyToken(r) ==
  /\ At(r, "address") /\ asked[r].kind = "upgrade"
  /\ LET a == addr[asked[r].ct] IN
       \/ /\ a \notin Addrs \/ asked[r].token \notin valid
          /\ Finish(r, "refused") /\ UNCHANGED <<client, uses, held>>
       \/ a \in Addrs /\ asked[r].token \in valid /\ TakeClient(r, a) /\ UNCHANGED reply
  /\ UNCHANGED <<cluster, access, cache, asked, given, reached>>

(* ... and an upgrade shows it only now. *)
Upgrade(r) ==
  /\ At(r, "address") /\ asked[r].kind = "upgrade"
  /\ LET a == addr[asked[r].ct] IN
       \/ /\ a \notin Addrs \/ ~Authorized(asked[r])
          /\ Finish(r, "refused") /\ UNCHANGED <<client, uses, held>>
       \/ a \in Addrs /\ Authorized(asked[r]) /\ TakeClient(r, a) /\ UNCHANGED reply
  /\ UNCHANGED <<cluster, access, cache, asked, given, reached>>

-----------------------------------------------------------------------------
(* fetchAuth: the token of the service, from the agent at the client's host *)

Client(r) == client[uses[r]]

(* The client is being made: nobody catches what rejects. *)
Making(r) == Client(r).auth = None

(* handleFetch answers 500, if what it catches is an Error. *)
Rejected(r, isError) ==
  IF Making(r) THEN Unhandled(r)
               ELSE /\ Finish(r, IF isError THEN "error" ELSE "silent")
                    /\ UNCHANGED <<valid, cache, up>>

(* getServiceAuth sends a task to the agent that is connected from the       *)
(* client's host, or throws a ClientNotFoundError.                           *)
FetchAuth(r) ==
  /\ At(r, "ask")
  /\ \/ \E d \in up :
          /\ addr[d] = Client(r).host
          /\ given' = [given EXCEPT ![r] = <<d, started[d]>>]
          /\ Goto(r, "wait") /\ held' = [held EXCEPT ![r] = None]
          /\ UNCHANGED <<valid, cache, up, reply>>
     \/ ~Connected(Client(r).host) /\ Rejected(r, TRUE) /\ UNCHANGED <<held, given>>
  /\ UNCHANGED <<addr, started, former, serves, granted, expired, client, asked, uses, reached>>

(* Mutant: whichever agent has the address is believed. *)
AgentRepliesUnchecked(r) ==
  /\ At(r, "wait") /\ held[r] = None
  /\ \E c \in up : /\ addr[c] = Client(r).host
                   /\ held' = [held EXCEPT ![r] = <<c, started[c]>>]
  /\ given' = [given EXCEPT ![r] = None]
  /\ UNCHANGED <<cluster, access, clients, pc, asked, uses, reply, reached>>

(* The token of a deleted container. *)
Dead(t) == t[2] <= former[t[1]]

(* What Tasks shows of such a call (AgentCall): only the agent of the        *)
(* client's container is believed; or the one that got the task, if it has   *)
(* been deleted and the id given again at its address before its message was *)
(* checked.                                                                  *)
AgentReplies(r) ==
  /\ At(r, "wait") /\ held[r] = None
  /\ LET c == Client(r).ct IN
       /\ addr[c] = Client(r).host
       /\ \/ c \in up /\ held' = [held EXCEPT ![r] = <<c, started[c]>>]
          \/ Dead(given[r]) /\ held' = [held EXCEPT ![r] = given[r]]
  /\ given' = [given EXCEPT ![r] = None]
  /\ UNCHANGED <<cluster, access, clients, pc, asked, uses, reply, reached>>

(* Mutant: the new token is not kept, and the old one is used again. *)
AuthFetchedForgotten(r) ==
  /\ At(r, "wait") /\ held[r] # None /\ Goto(r, "forward")
  /\ IF Making(r)
       THEN /\ client' = [client EXCEPT ![r].auth = held[r]]
            /\ cache' = [cache EXCEPT ![asked[r].token] = r] /\ UNCHANGED held
       ELSE held' = [held EXCEPT ![r] = Client(r).auth] /\ UNCHANGED clients
  /\ UNCHANGED <<cluster, access, asked, uses, given, reply, reached>>

(* A new client goes into the cache, whatever has become of its token.      *)
AuthFetched(r) ==
  /\ At(r, "wait") /\ held[r] # None /\ Goto(r, "forward")
  /\ client' = [client EXCEPT ![uses[r]].auth = held[r]]
  /\ cache' = IF Making(r) THEN [cache EXCEPT ![asked[r].token] = r] ELSE cache
  /\ UNCHANGED <<cluster, access, asked, uses, held, given, reply, reached>>

(* 'Timeout reached' and 'No auth' are strings and not Errors. *)
AuthRejected(r) ==
  /\ At(r, "wait") /\ held[r] = None /\ Rejected(r, FALSE)
  /\ UNCHANGED <<addr, started, former, serves, granted, expired, client, asked, uses, held, given,
                 reached>>

-----------------------------------------------------------------------------
(* handleFetch, handleHttpUpgrade *)

(* The containers whose service listens at an address: one at most. *)
Listening(a) == {c \in Containers : addr[c] = a /\ serves[c] > 0}

Forward(r) ==
  /\ At(r, "forward")
  /\ \/ /\ Listening(Client(r).host) = {}
        /\ Finish(r, "error") /\ UNCHANGED reached
     \/ \E c \in Listening(Client(r).host) :
          \/ /\ held[r] = <<c, serves[c]>>
             /\ reached' = [reached EXCEPT ![r] = c] /\ Finish(r, "served")
          \/ /\ held[r] # <<c, serves[c]>> /\ asked[r].kind = "http"
             /\ Goto(r, "ask") /\ UNCHANGED <<reply, reached>>
          \/ /\ held[r] # <<c, serves[c]>> /\ asked[r].kind = "upgrade"
             /\ Finish(r, "refused") /\ UNCHANGED reached
  /\ UNCHANGED <<cluster, access, clients, asked, uses, held, given>>

(* A call to Proxmox or MySQL rejects with an Error. *)
CallThrows(r) ==
  /\ "throw" \in Env
  /\ \/ At(r, "address") /\ Unhandled(r)
     \/ At(r, "ask") /\ Rejected(r, TRUE)
  /\ UNCHANGED <<addr, started, former, serves, granted, expired, client, asked, uses, held, given,
                 reached>>

-----------------------------------------------------------------------------
(* Containers and agents *)

(* Mutant: started once too often. *)
AgentStartsAgain(c) ==
  /\ addr[c] \in Addrs /\ started[c] <= MaxStarts
  /\ started' = [started EXCEPT ![c] = @ + 1]
  /\ serves' = [serves EXCEPT ![c] = started[c] + 1] /\ up' = up \ {c}
  /\ UNCHANGED <<addr, former, access, clients, calls>>

(* A started agent gives its services new tokens (runServices); a service   *)
(* that outlived the last agent keeps the port.                             *)
AgentStarts(c) ==
  /\ addr[c] \in Addrs /\ started[c] < MaxStarts
  /\ started[c] > former[c] => "restart" \in Env
  /\ started' = [started EXCEPT ![c] = @ + 1]
  /\ \/ serves' = [serves EXCEPT ![c] = started[c] + 1]
     \/ "orphan" \in Env /\ serves[c] > 0 /\ UNCHANGED serves
  /\ up' = up \ {c}
  /\ UNCHANGED <<addr, former, access, clients, calls>>

Connect(c) ==
  /\ addr[c] \in Addrs /\ started[c] > former[c] /\ c \notin up
  /\ up' = up \cup {c}
  /\ UNCHANGED <<addr, started, former, serves, access, clients, calls>>

Drop(c) ==
  /\ "drop" \in Env /\ c \in up /\ up' = up \ {c}
  /\ UNCHANGED <<addr, started, former, serves, access, clients, calls>>

ServiceEnds(c) ==
  /\ "serviceEnds" \in Env /\ serves[c] > 0
  /\ serves' = [serves EXCEPT ![c] = 0]
  /\ UNCHANGED <<addr, up, started, former, access, clients, calls>>

(* Provisioning, as in Tasks: ids and addresses are given again. *)
CreateContainer(c, a) ==
  /\ addr[c] = None /\ \A d \in Containers : addr[d] # a
  /\ addr' = [addr EXCEPT ![c] = a]
  /\ UNCHANGED <<up, started, former, serves, access, clients, calls>>

DeleteContainer(c) ==
  /\ "replace" \in Env /\ addr[c] \in Addrs
  /\ addr' = [addr EXCEPT ![c] = None] /\ former' = [former EXCEPT ![c] = started[c]]
  /\ up' = up \ {c} /\ serves' = [serves EXCEPT ![c] = 0]
  /\ UNCHANGED <<started, access, clients, calls>>

-----------------------------------------------------------------------------
(* The next turn of a request; its timer rejects if nothing else happens. *)
Step(r) == \/ ProxyHandler(r) \/ Upgrade(r) \/ FetchAuth(r) \/ AuthFetched(r) \/ Forward(r)

Environment ==
  \E c \in Containers : \/ AgentStarts(c) \/ Connect(c) \/ Drop(c) \/ ServiceEnds(c)
                        \/ DeleteContainer(c) \/ \E a \in Addrs : CreateContainer(c, a)

Access == \/ CheckExpiredTokens
          \/ \E k \in Tokens : \/ RemoveContainerAccess(k) \/ TimePasses(k)
                               \/ \E c \in Containers : AddContainerAccess(k, c)

Next ==
  \/ \E r \in Requests : \/ \E q \in Asked : Arrive(r, q)
                         \/ Step(r) \/ AgentReplies(r) \/ AuthRejected(r) \/ CallThrows(r)
  \/ Access
  \/ Environment

Spec == Init /\ [][Next]_vars

(* Proxmox, MySQL and the services answer or fail, and timers fire; agents   *)
(* need not answer.                                                          *)
FairSpec == Spec /\ \A r \in Requests : WF_vars(Step(r)) /\ WF_vars(AuthRejected(r))

-----------------------------------------------------------------------------
(* Properties *)

(* A request is only ever taken by a service of the container with the id   *)
(* it is for, although a cached client keeps an address that may have gone  *)
(* to another container (proxyHandler.ts:36-53): the service's token tells. *)
ReachesItsContainer ==
  \A r \in Requests : reached[r] # None => reached[r] = asked[r].ct

(* The client in the cache of a token is for the container of that token,   *)
(* whichever request made it and whatever became of the token while it did. *)
ClientsAreForTheirTokens ==
  \A k \in Tokens : cache[k] # None => client[cache[k]].ct = granted[k]

(* What makes both hold, and an invariant by itself.  A request that was    *)
(* admitted is for the container of its token; *)
Admitted(r) == granted[asked[r].token] = asked[r].ct

Busy == {"ask", "wait", "forward"}

RequestsAreAdmitted ==
  \A r \in Requests : \/ pc[r] = "address" /\ asked[r].kind = "http"
                      \/ pc[r] \in Busy
                      => Admitted(r)

(* the client it uses is one of that container, and its own if it has to    *)
(* learn its token;                                                         *)
ClientsAreOwn ==
  \A r \in Requests : pc[r] \in Busy => /\ uses[r] # None /\ Client(r) # None
                                        /\ Client(r).ct = asked[r].ct
                                        /\ Making(r) => uses[r] = r

(* the service tokens, of clients and of requests, are of that container    *)
(* too, or no service knows them any more;                                  *)
OwnOrDead(t, c) == t[1] = c \/ Dead(t)

AuthsAreOwn ==
  \A r \in Requests :
    /\ client[r] # None /\ client[r].auth # None => OwnOrDead(client[r].auth, client[r].ct)
    /\ pc[r] \in Busy /\ held[r] # None => OwnOrDead(held[r], asked[r].ct)

FormerAreGone ==
  \A c \in Containers : /\ former[c] <= started[c]
                        /\ serves[c] > 0 => serves[c] > former[c]

(* a client is made once, and a request is taken once.                      *)
MadeOnce ==
  /\ \A r \in Requests : /\ pc[r] \in {"idle", "address"} => client[r] = None /\ held[r] = None
                         /\ pc[r] # "idle" => asked[r] # None
                         /\ reached[r] # None => pc[r] = "done"
  /\ \A k \in Tokens : cache[k] # None => client[cache[k]] # None /\ client[cache[k]].auth # None

OwnInv == /\ RequestsAreAdmitted /\ ClientsAreOwn /\ AuthsAreOwn /\ FormerAreGone /\ MadeOnce
          /\ ClientsAreForTheirTokens /\ ReachesItsContainer

(* The service a request is sent to outlived its agent: it refuses the      *)
(* token that the agent tells.                                              *)
Orphaned(r) == \E c \in Containers : pc[r] \in Busy /\ addr[c] = Client(r).host
                                     /\ 0 < serves[c] /\ serves[c] < started[c]

(* A request that a service refuses (401) is repeated with the token its    *)
(* agent tells, and that without a bound (vscode.ts:34-37).  It ends, or    *)
(* some day it is sent to an orphan and for ever after.                     *)
RequestsEnd ==
  \A r \in Requests : (pc[r] # "idle" ~> pc[r] = "done") \/ <>[]Orphaned(r)
=============================================================================
