--------------------------- MODULE AgentConnection ---------------------------
(***************************************************************************)
(* The whole life of an agent: its first run (AgentInit), which takes its    *)
(* commands from the configuration (ConfigStore), and then its connection   *)
(* to the daemon: the websocket and the reconnection timer of               *)
(* agent/src/Agent.ts, the upgrade handler and the set of clients of        *)
(* ContainerWorkspaces.ts (107-134, 427-449).                               *)
(*                                                                          *)
(* One container with one address.  A socket has two ends which learn of    *)
(* its end one after the other; the daemon goes by the address alone.       *)
(***************************************************************************)
EXTENDS AgentInit

CONSTANTS
  Sockets,   \* a socket is named again when neither end knows of it any more
  MaxDrops   \* bound: connections lost or refused

ASSUME ConnectionAssumption == MaxDrops \in Nat /\ None \notin Sockets

VARIABLES
  sock,      \* the agent's websocket
  timer,     \* reconnectInterval is set
  clients,   \* wss.clients, all of this address
  closing,   \* ... those the daemon has closed
  checking,  \* sockets whose address the daemon is looking up
  heard,     \* sockets with a listener for messages ('connection' emitted)
  broken,    \* sockets the network or the end of a process has cut
  silent,    \* ... those of which nothing tells the ends
  drops      \* how many connections were lost or refused

linkVars == <<sock, timer, clients, closing, checking, heard, broken, silent, drops>>
vars == <<configVars, initVars, linkVars>>

TypeOK == /\ ConfigTypeOK /\ InitTypeOK
          /\ sock \in Sockets \cup {None} /\ timer \in BOOLEAN
          /\ timer => sock = None /\ pc = "agent"
          /\ sock # None => pc = "agent"
          /\ clients \subseteq Sockets /\ closing \subseteq clients
          /\ heard \subseteq clients /\ checking \subseteq Sockets
          /\ broken \subseteq (clients \cup {sock}) \ {None}
          /\ silent \subseteq broken
          /\ drops \in 0 .. MaxDrops

Init == /\ ConfigInit /\ InitInit
        /\ sock = None /\ timer = FALSE
        /\ clients = {} /\ closing = {} /\ checking = {} /\ heard = {}
        /\ broken = {} /\ silent = {} /\ drops = 0

-----------------------------------------------------------------------------
(* The agent's end *)

(* A name no end of a connection uses.                                       *)
Unused == Sockets \ ({sock} \cup clients \cup checking)

(* initWebSocket, from the constructor or when the 10 seconds have passed,   *)
(* by when a closing handshake is over, unless nobody answers it.            *)
Dial == /\ pc = "agent" /\ sock = None
        /\ timer => closing \subseteq silent
        /\ \E s \in Unused : sock' = s
        /\ timer' = FALSE
        /\ UNCHANGED <<clients, closing, checking, heard, broken, silent, drops>>

(* Mutant: the socket that is at its end is not closed.                      *)
ReconnectUnclosed == timer' = TRUE /\ UNCHANGED sock

(* reconnectToWS, called by on('close') and by on('error').                  *)
Reconnect == sock' = None /\ timer' = TRUE

(* Nobody listens: the daemon is away.                                       *)
Refused == /\ "drop" \in Env /\ drops < MaxDrops
           /\ sock # None /\ sock \notin clients \cup broken
           /\ drops' = drops + 1
           /\ Reconnect
           /\ UNCHANGED <<clients, closing, checking, heard, broken, silent>>

(* Mutant: only a close by the daemon leads to a reconnection.               *)
AgentClosesOnClose == /\ sock \in closing
                      /\ Reconnect
                      /\ broken' = broken \cap clients
                      /\ silent' = silent \cap clients
                      /\ UNCHANGED <<clients, closing, checking, heard, drops>>

(* The agent hears that its socket is at its end.                            *)
AgentCloses == /\ sock \in closing \cup broken
               /\ Reconnect
               /\ broken' = broken \cap clients
               /\ silent' = silent \cap clients
               /\ UNCHANGED <<clients, closing, checking, heard, drops>>

(* The process ends, and its socket with it.                                 *)
Hangup == /\ sock' = None /\ timer' = FALSE
          /\ broken' = clients \cap (broken \cup {sock})
          /\ UNCHANGED <<clients, closing, checking, heard>>

(* The system tells the other end.                                           *)
HangupTold == Hangup /\ silent' = silent \cap clients /\ UNCHANGED drops

(* When the container ends as well, that may be lost.                        *)
HangupUntold == /\ "drop" \in Env /\ drops < MaxDrops /\ drops' = drops + 1
                /\ sock \in clients /\ Hangup /\ silent' = clients \cap (silent \cup {sock})

-----------------------------------------------------------------------------
(* The daemon's end *)

(* Mutant: only the clients whose address was checked count.                 *)
UpgradeAmongHeard == LET connected == heard # {} IN
  /\ sock # None /\ sock \notin clients \cup broken
  /\ clients' = clients \cup {sock}
  /\ closing' = IF connected THEN closing \cup {sock} ELSE closing
  /\ checking' = checking \cup {sock}
  /\ UNCHANGED <<sock, timer, heard, broken, silent, drops>>

(* on('upgrade'): whether a client has this address is asked before the      *)
(* handshake, which in the same turn adds the socket to the clients.         *)
Upgrade == LET connected == clients # {} IN
  /\ sock # None /\ sock \notin clients \cup broken
  /\ clients' = clients \cup {sock}
  /\ closing' = IF connected THEN closing \cup {sock} ELSE closing
  /\ checking' = checking \cup {sock}
  /\ UNCHANGED <<sock, timer, heard, broken, silent, drops>>

(* The rest of the callback, after checkIP.  It does not ask whether the     *)
(* socket is still open, but one that is not will bring no message.          *)
CheckIP(s) ==
  /\ s \in checking /\ checking' = checking \ {s}
  /\ IF known THEN heard' = heard \cup ({s} \cap clients) /\ UNCHANGED closing
              ELSE closing' = closing \cup ({s} \cap clients) /\ UNCHANGED heard
  /\ UNCHANGED <<sock, timer, clients, broken, silent, drops>>

(* The daemon hears that a socket is at its end.                             *)
DaemonCloses(s) ==
  /\ s \in clients \cap (closing \cup broken)
  /\ clients' = clients \ {s} /\ closing' = closing \ {s}
  /\ heard' = heard \ {s}
  /\ broken' = (broken \ {s}) \cup ({s} \cap {sock})
  /\ silent' = silent \ ({s} \ {sock})
  /\ UNCHANGED <<sock, timer, checking, drops>>

(* The network loses the connection.  Nothing tells the ends: neither pings, *)
(* and one that has nothing to send may take it for open for ever.           *)
Drop == /\ "drop" \in Env /\ drops < MaxDrops
        /\ sock \in clients \ broken
        /\ drops' = drops + 1
        /\ broken' = broken \cup {sock} /\ silent' = silent \cup {sock}
        /\ UNCHANGED <<sock, timer, clients, closing, checking, heard>>

(* A rejection nobody handles ends the daemon, which is started again.       *)
DaemonDies == /\ (\E c \in Callers : SetFieldThrows(c)) \/ UnknownContainer
              /\ DropCalls
              /\ handlers' = {}
              /\ broken' = {sock} \ {None} /\ silent' = silent \cap {sock}
              /\ clients' = {} /\ closing' = {} /\ checking' = {} /\ heard' = {}
              /\ UNCHANGED <<pc, fileVars, running, begun, known,
                             sock, timer, drops>>

-----------------------------------------------------------------------------
Configure == /\ \E c \in Callers : Arrive(c) \/ ConfigStep(c)
             /\ UNCHANGED <<initVars, linkVars>>

FirstRun == /\ \/ Start \/ RunStep \/ InsertRow
               \/ \E x \in Commands : CommandEnds(x)
               \/ \E h \in handlers : HandlerStep(h)
            /\ UNCHANGED <<configVars, linkVars>>

ProcessDies == /\ \/ Ended /\ HangupTold
                  \/ Reboot /\ HangupUntold
               /\ UNCHANGED configVars

Link == /\ \/ Dial \/ Refused \/ AgentCloses \/ Upgrade \/ Drop
           \/ \E s \in Sockets : CheckIP(s) \/ DaemonCloses(s)
        /\ UNCHANGED <<configVars, initVars>>

Next == Configure \/ FirstRun \/ ProcessDies \/ Link \/ DaemonDies

Spec == Init /\ [][Next]_vars

(* A process that runs goes on.  An end hears that the other has closed or   *)
(* has ended, for the system tells it; a loss of the network it hears of     *)
(* only by chance, and the daemon gives up a closing handshake that is not   *)
(* answered.  Nobody starts a process, fails or sends a request unless they  *)
(* like.                                                                     *)
AgentIsTold == AgentCloses /\ sock \notin silent
DaemonIsTold(s) == DaemonCloses(s) /\ (s \in closing \/ s \notin silent)

Fairness ==
  /\ WF_vars((RunStep \/ \E h \in handlers : HandlerStep(h)) /\ UNCHANGED <<configVars, linkVars>>)
  /\ WF_vars((Dial \/ AgentIsTold \/ Upgrade) /\ UNCHANGED <<configVars, initVars>>)
  /\ \A s \in Sockets :
       WF_vars((CheckIP(s) \/ DaemonIsTold(s)) /\ UNCHANGED <<configVars, initVars>>)

FairSpec == Spec /\ Fairness

-----------------------------------------------------------------------------
(* Messages pass both ways.                                                  *)
Connected == sock \in heard \cap clients /\ sock \notin closing \cup broken

(* Whoever ran its first run to the end knows its daemon for good: the file  *)
(* which readConfFile trusts was written from the original hostname.  It is  *)
(* what makes it safe to replace that hostname (InitAgent.ts:25-63).         *)
MarkedKnowsDaemon == mark => conf = "daemon"

(* A mark also says that a whole list of init commands was started, whatever *)
(* failed on the way (the order of the steps of runInit).                    *)
MarkedHasBegun == mark => \E list \in CommandLists \ {None} : list \subseteq begun

(* The daemon hears at most one socket of an address that it has not closed, *)
(* also while it still takes a dead one for open and although the test for   *)
(* another and the listener are separated by a call to MySQL                 *)
(* (ContainerWorkspaces.ts:116-131).  Tasks rests on it.                     *)
OneListener == \A s, t \in heard \ closing : s = t

(* An end of a connection does not know that the network has lost it.        *)
Unheard == silent # {}

(* A process that was started ends or connects to the daemon, whatever       *)
(* became of its first run, once the container has its row: refusals, closes *)
(* by the daemon and ends of either process all lead to another attempt      *)
(* (Agent.ts:40-67).  A lost connection of which neither end hears does not, *)
(* and while the daemon takes it for open it refuses every attempt           *)
(* (ContainerWorkspaces.ts:116-127); that is the only exception.             *)
Connects == (pc # "off" /\ known) ~> (pc = "off" \/ Connected \/ Unheard)
=============================================================================
