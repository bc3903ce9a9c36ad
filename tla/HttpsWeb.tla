------------------------------ MODULE HttpsWeb ------------------------------
(***************************************************************************)
(* The web server HTTPS: start_server over the socket functions of tcp.c.  *)
(* The first process accepts and forks, and each child shakes hands with   *)
(* one browser.  The child then hands start_protocol the descriptor, an    *)
(* int, where it takes the SSL object (server.c:134): the first SSL_read   *)
(* goes through an address that no process has, so that no child outlives  *)
(* its handshake, and what start_protocol does after that read is never    *)
(* run.  Nobody waits for the children, so each keeps its place in the     *)
(* process table; and a fork that fails ends the server, not the children, *)
(* who have the listening socket open as well.                             *)
(*                                                                         *)
(* The browsers, TCP and the process table are external.                   *)
(***************************************************************************)
EXTENDS Integers, FiniteSets

CONSTANTS
    Conn,        \* the connections, one for each browser
    MaxChildren  \* the places the process table has for children

ASSUME BoundAssumption == MaxChildren \in Nat \ {0}

VARIABLES
    root,      \* what the first process does next
    sock,      \* the connections it has open: clientSocket's, or none
    child,     \* what the child of each connection does next, if there is one
    cli,       \* the browsers
    accepted   \* the connections that have left the listening queue

procVars == <<root, sock, child>>
connVars == <<cli, accepted>>
vars == <<root, sock, child, cli, accepted>>

\* A browser has connected ("open"), shaken hands and asked, seen its stream end ("cut"),
\* left, or found nobody listening ("refused").
TypeOK ==
    /\ root \in {"context", "listen", "accept", "fork", "parent", "down"}
    /\ sock \subseteq Conn /\ accepted \subseteq Conn
    /\ child \in [Conn -> {"none", "handshake", "protocol", "zombie"}]
    /\ cli \in [Conn -> {"idle", "open", "asked", "cut", "left", "refused"}]

Init ==
    /\ root = "context" /\ sock = {} /\ accepted = {}
    /\ child = [c \in Conn |-> "none"] /\ cli = [c \in Conn |-> "idle"]

Forked == {c \in Conn : child[c] # "none"}
Alive == {c \in Conn : child[c] \in {"handshake", "protocol"}}

\* The first process and every child that has not ended have the listening socket.
Listening == root \in {"accept", "fork", "parent"} \/ Alive # {}

-----------------------------------------------------------------------------
(* start_server, in the first process.                                     *)

\* InitServerCTX and LoadCertificates: without a context, a certificate or its key, abort
MakeContext ==
    /\ root = "context"
    /\ root' \in {"listen", "down"}
    /\ UNCHANGED <<sock, child, connVars>>

\* newTCPServerSocket4: socket, bind or listen may fail, and start_server returns.
Listen ==
    /\ root = "listen"
    /\ root' \in {"accept", "down"}
    /\ UNCHANGED <<sock, child, connVars>>

Queued == {c \in Conn : cli[c] \in {"open", "asked", "left"}} \ accepted

Accept ==
    /\ root = "accept"
    /\ \E c \in Queued :
          /\ accepted' = accepted \cup {c}
          /\ sock' = {c}
    /\ root' = "fork"
    /\ UNCHANGED <<child, cli>>

\* waitConnection4 returns -1 for a browser that has left the queue: accept again.
AcceptFails_Returns ==  \* variant: the loop ends as after a failed fork
    /\ root = "accept"
    /\ \E c \in Queued : cli[c] = "left" /\ accepted' = accepted \cup {c}
    /\ root' = "down"
    /\ UNCHANGED <<sock, child, cli>>
AcceptFails ==
    /\ root = "accept"
    /\ \E c \in Queued : cli[c] = "left" /\ accepted' = accepted \cup {c}
    /\ UNCHANGED <<procVars, cli>>

\* Nobody calls wait: a child that has ended still has its place.
TableFull == Cardinality(Forked) = MaxChildren

Fork ==
    /\ root = "fork" /\ ~TableFull
    /\ \E c \in sock : child' = [child EXCEPT ![c] = "handshake"]
    /\ root' = "parent"
    /\ UNCHANGED <<sock, connVars>>

\* start_server returns, and what the process had open is closed.
ForkFails ==
    /\ root = "fork" /\ TableFull
    /\ root' = "down" /\ sock' = {}
    /\ UNCHANGED <<child, connVars>>

ParentCloses_Not ==  \* variant: leaves the connection to the child
    /\ root = "parent"
    /\ root' = "accept"
    /\ UNCHANGED <<sock, child, connVars>>
ParentCloses ==
    /\ root = "parent"
    /\ root' = "accept" /\ sock' = {}
    /\ UNCHANGED <<child, connVars>>

RootStep ==
    \/ MakeContext \/ Listen \/ Accept \/ AcceptFails
    \/ Fork \/ ForkFails \/ ParentCloses

-----------------------------------------------------------------------------
(* A child.  It has its own connection open, and no other.                 *)

\* SSL_accept waits for the browser without a limit; its result is not looked at.
\* ShowCerts then prints the certificate of the browser, who shows none.
ShakeHands(c) ==
    /\ child[c] = "handshake" /\ cli[c] # "open"
    /\ child' = [child EXCEPT ![c] = "protocol"]
    /\ UNCHANGED <<root, sock, connVars>>

\* start_protocol(clientSocket): SSL_read faults, and the kernel ends the child.
StartProtocol(c) ==
    /\ child[c] = "protocol"
    /\ child' = [child EXCEPT ![c] = "zombie"]
    /\ UNCHANGED <<root, sock, connVars>>

ChildStep(c) == ShakeHands(c) \/ StartProtocol(c)

-----------------------------------------------------------------------------
(* The browsers.                                                           *)

BrowserDoes(c, from, to) ==
    /\ cli[c] = from
    /\ cli' = [cli EXCEPT ![c] = to]
    /\ UNCHANGED <<procVars, accepted>>

Connect(c) == BrowserDoes(c, "idle", IF Listening THEN "open" ELSE "refused")
\* It shakes hands with the child, and asks for /download.
Ask(c) == child[c] = "handshake" /\ BrowserDoes(c, "open", "asked")
Leave(c) == BrowserDoes(c, "open", "left") \/ BrowserDoes(c, "asked", "left")

\* No process has the connection open any more or, in the queue, the listening socket.
Ended(c) == IF c \in accepted THEN c \notin sock \cup Alive ELSE ~Listening

SeeEnd(c) ==
    /\ Ended(c)
    /\ BrowserDoes(c, "open", "cut") \/ BrowserDoes(c, "asked", "cut")

Browser(c) == Connect(c) \/ Ask(c) \/ Leave(c) \/ SeeEnd(c)

Next == RootStep \/ (\E c \in Conn : ChildStep(c)) \/ (\E c \in Conn : Browser(c))

\* The kernel schedules every process and tells the browsers what it has closed.
Fairness ==
    /\ WF_vars(RootStep)
    /\ \A c \in Conn : WF_vars(ChildStep(c)) /\ WF_vars(SeeEnd(c))

Spec == Init /\ [][Next]_vars
FairSpec == Spec /\ Fairness

-----------------------------------------------------------------------------
(* Properties.                                                             *)

(* A server that listens ends only on a fork that fails, with as many      *)
(* browsers as the table has places given a child before (server.c:145):   *)
(* it is neither ended by a browser that leaves the queue (server.c:119)   *)
(* nor does such a browser cost a place, and until it ends no connection   *)
(* is taken from the queue and then forgotten.                             *)
DownWhenFull ==
    /\ root = "down" => TableFull \/ \A c \in Conn : cli[c] \in {"idle", "refused"}
    /\ \A c \in accepted \ (Forked \cup sock) : cli[c] = "left" \/ root = "down"

(* A browser that has been accepted and asks, or is in the queue of a      *)
(* server that has ended, sees its stream end whatever the silent browsers *)
(* do: the parent keeps no connection open (server.c:143) and no child     *)
(* has another's.  Only a queue nobody accepts from can hold one, for as   *)
(* long as a silent browser keeps its child, and so the listening socket,  *)
(* in SSL_accept (server.c:132).                                           *)
StreamEnds ==
    \A c \in Conn :
        /\ cli[c] = "asked" ~> cli[c] # "asked"
        /\ cli[c] = "open" ~> \/ cli[c] # "open" \/ child[c] = "handshake"
                              \/ root = "down" /\ c \notin accepted /\ Alive # {}

(* "The only avaliable route name to download a file is 0.0.0.0/download"  *)
(* (README:14): a browser that has a child and asked is not left without   *)
(* an answer.                                                              *)
AskedIsAnswered == \A c \in Conn : cli[c] = "cut" => child[c] = "none"
=============================================================================
