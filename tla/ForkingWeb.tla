----------------------------- MODULE ForkingWeb -----------------------------
(***************************************************************************)
(* The web server P1: server.c over the socket functions of tcp.c.  Every  *)
(* connection is answered by a child process, which does not exit: it goes *)
(* back to the accept loop with the descriptors it has leaked, and accepts *)
(* and forks like its parent.  Nobody waits for the children, so a process *)
(* that crashes keeps its place in the process table.                      *)
(*                                                                         *)
(* The browsers, and TCP, are external.  An answer is a sequence of units: *)
(* its header lines, and what each read of the file returns.               *)
(***************************************************************************)
EXTENDS Integers, Sequences, FiniteSets, SequencesExt

CONSTANTS
    Proc,      \* the places of the process table
    Root,      \* the process main starts
    Conn,      \* the connections, one for each browser
    NoConn,    \* what accept returns when it fails, -1
    Name,      \* the files of the server's directory
    Index,     \* the one called index.html
    Page,      \* what a read of a file returns
    Content,   \* the contents of the files, as sequences of reads
    Absent,    \* a name that is not there
    Garbled,   \* a first line without a space after its fifth byte
    Nothing,   \* no request yet
    MaxFds     \* bound on the descriptors of a process, the listening one apart

Request == Name \cup {Absent, Garbled}

ASSUME RootAssumption == Root \in Proc /\ NoConn \notin Conn
ASSUME NameAssumption ==
    /\ Index \in Name /\ Absent \notin Name
    /\ Garbled \notin Name \cup {Absent} /\ Nothing \notin Request
ASSUME ContentAssumption == Content \in [Name -> Seq(Page)]
ASSUME BoundAssumption == MaxFds \in Nat \ {0}

\* The two answers, and what they are made of.
Unit == {"404", "html", "200"} \cup Page
NotFound == <<"404", "html">>
Found(n) == <<"200">> \o Content[n]

-----------------------------------------------------------------------------
VARIABLES
    proc,      \* what each process does next
    sock,      \* its clientSocket
    holds,     \* the connections it has a descriptor of
    leaked,    \* the files it has opened, or its ancestors had
    line,      \* the first line of the request, until its file is opened
    todo,      \* what it has yet to send
    cli,       \* each browser: "idle", "open", "done" (it saw the end) or "left"
    req,       \* what it has asked for
    accepted,  \* its connection has left the listening queue
    got        \* what it has received

procVars == <<proc, sock, holds, leaked, line, todo>>
connVars == <<cli, req, accepted, got>>
vars == <<proc, sock, holds, leaked, line, todo, cli, req, accepted, got>>

Phase == {"free", "accept", "fork", "parent", "read", "open", "send", "close", "dead"}

\* The descriptors of a process.
Used(p) == Cardinality(holds[p]) + leaked[p]

TypeOK ==
    /\ proc \in [Proc -> Phase] /\ sock \in [Proc -> Conn \cup {NoConn}]
    /\ holds \in [Proc -> SUBSET Conn]
    /\ leaked \in [Proc -> Nat] /\ \A p \in Proc : Used(p) <= MaxFds
    /\ line \in [Proc -> Request \cup {Nothing}]
    /\ todo \in [Proc -> Seq(Unit)] /\ got \in [Conn -> Seq(Unit)]
    /\ cli \in [Conn -> {"idle", "open", "done", "left"}]
    /\ req \in [Conn -> Request \cup {Nothing}]
    /\ accepted \in [Conn -> BOOLEAN]

Init ==
    /\ proc = [p \in Proc |-> IF p = Root THEN "accept" ELSE "free"]
    /\ sock = [p \in Proc |-> NoConn] /\ holds = [p \in Proc |-> {}]
    /\ leaked = [p \in Proc |-> 0]
    /\ line = [p \in Proc |-> Nothing] /\ todo = [p \in Proc |-> <<>>]
    /\ cli = [c \in Conn |-> "idle"]
    /\ req = [c \in Conn |-> Nothing] /\ accepted = [c \in Conn |-> FALSE]
    /\ got = [c \in Conn |-> <<>>]

-----------------------------------------------------------------------------
(* The loop of startServer, in every process.                              *)

Goto(p, phase) == proc' = [proc EXCEPT ![p] = phase]
Queued(c) == cli[c] # "idle" /\ ~accepted[c]

Accept(p) ==
    /\ proc[p] = "accept" /\ Used(p) < MaxFds
    /\ \E c \in Conn :
          /\ Queued(c)
          /\ accepted' = [accepted EXCEPT ![c] = TRUE]
          /\ sock' = [sock EXCEPT ![p] = c]
          /\ holds' = [holds EXCEPT ![p] = @ \cup {c}]
    /\ Goto(p, "fork")
    /\ UNCHANGED <<leaked, line, todo, cli, req, got>>

\* Without a descriptor accept fails at once, without waiting for a connection, and
\* it may fail for a browser that has left the queue.  waitConnection4 reports it,
\* and startServer does not look at it: it forks.
AcceptFails(p) ==
    /\ proc[p] = "accept"
    /\ \/ Used(p) = MaxFds /\ UNCHANGED accepted
       \/ \E c \in Conn : /\ Queued(c) /\ cli[c] = "left"
                          /\ accepted' = [accepted EXCEPT ![c] = TRUE]
    /\ sock' = [sock EXCEPT ![p] = NoConn]
    /\ Goto(p, "fork")
    /\ UNCHANGED <<holds, leaked, line, todo, cli, req, got>>

TableFull == \A q \in Proc : proc[q] # "free"
Child == CHOOSE q \in Proc : proc[q] = "free"

\* The child is its parent's copy, but for what fork returned.
Fork_Swapped(p) ==  \* variant: takes the parent for the child
    /\ proc[p] = "fork" /\ ~TableFull
    /\ proc' = [proc EXCEPT ![p] = "read", ![Child] = "parent"]
    /\ sock' = [sock EXCEPT ![Child] = sock[p]]
    /\ holds' = [holds EXCEPT ![Child] = holds[p]]
    /\ leaked' = [leaked EXCEPT ![Child] = leaked[p]]
    /\ UNCHANGED <<line, todo, connVars>>
Fork_BothServe(p) ==  \* variant: the parent answers as well
    /\ proc[p] = "fork" /\ ~TableFull
    /\ proc' = [proc EXCEPT ![p] = "read", ![Child] = "read"]
    /\ sock' = [sock EXCEPT ![Child] = sock[p]]
    /\ holds' = [holds EXCEPT ![Child] = holds[p]]
    /\ leaked' = [leaked EXCEPT ![Child] = leaked[p]]
    /\ UNCHANGED <<line, todo, connVars>>
Fork(p) ==
    /\ proc[p] = "fork" /\ ~TableFull
    /\ proc' = [proc EXCEPT ![p] = "parent", ![Child] = "read"]
    /\ sock' = [sock EXCEPT ![Child] = sock[p]]
    /\ holds' = [holds EXCEPT ![Child] = holds[p]]
    /\ leaked' = [leaked EXCEPT ![Child] = leaked[p]]
    /\ UNCHANGED <<line, todo, connVars>>

\* close(clientSocket), of -1 too
CloseSocket(p) ==
    /\ holds' = [holds EXCEPT ![p] = @ \ {sock[p]}]
    /\ Goto(p, "accept")
    /\ UNCHANGED <<sock, leaked, line, todo, connVars>>

ForkFails(p) == proc[p] = "fork" /\ TableFull /\ CloseSocket(p)

ParentCloses_Not(p) ==  \* variant: leaves it to the child
    /\ proc[p] = "parent"
    /\ Goto(p, "accept")
    /\ UNCHANGED <<sock, holds, leaked, line, todo, connVars>>
ParentCloses(p) == proc[p] = "parent" /\ CloseSocket(p)

-----------------------------------------------------------------------------
(* clientProccess, in a child.                                             *)

\* The lines readTCPLine4 can return from a connection: those of the request, or none
\* when there is none and the browser has left, or when there is no connection.
ReadLine(c) ==
    IF c = NoConn THEN {Garbled}
    ELSE (Request \cap {req[c]})
           \cup (IF req[c] = Nothing /\ cli[c] = "left" THEN {Garbled} ELSE {})

\* Up to the empty line, or the end of what the browser sent before it left.
ReadRequest(p) ==
    /\ proc[p] = "read"
    /\ \E l \in ReadLine(sock[p]) : line' = [line EXCEPT ![p] = l]
    /\ Goto(p, "open")
    /\ UNCHANGED <<sock, holds, leaked, todo, connVars>>

\* open(fileName) and the choice of the answer; the file is never closed.  Without a
\* space the name is empty, which stands for the index, or ends in what follows it.
OpenFile_Unbounded(p) ==  \* variant: there is always a descriptor
    /\ proc[p] = "open"
    /\ \E n \in IF line[p] = Garbled THEN {Index, Absent} ELSE {line[p]} :
          IF n \in Name
          THEN /\ leaked' = [leaked EXCEPT ![p] = @ + 1]
               /\ todo' = [todo EXCEPT ![p] = Found(n)]
          ELSE /\ leaked' = leaked
               /\ todo' = [todo EXCEPT ![p] = NotFound]
    /\ line' = [line EXCEPT ![p] = Nothing]
    /\ Goto(p, "send")
    /\ UNCHANGED <<sock, holds, connVars>>
OpenFile(p) ==
    /\ proc[p] = "open"
    /\ \E n \in IF line[p] = Garbled THEN {Index, Absent} ELSE {line[p]} :
          IF n \in Name /\ Used(p) < MaxFds
          THEN /\ leaked' = [leaked EXCEPT ![p] = @ + 1]
               /\ todo' = [todo EXCEPT ![p] = Found(n)]
          ELSE /\ leaked' = leaked
               /\ todo' = [todo EXCEPT ![p] = NotFound]
    /\ line' = [line EXCEPT ![p] = Nothing]
    /\ Goto(p, "send")
    /\ UNCHANGED <<sock, holds, connVars>>

\* A process that ends closes what it had open.
Die(p) ==
    /\ Goto(p, "dead")
    /\ holds' = [holds EXCEPT ![p] = {}]
    /\ leaked' = [leaked EXCEPT ![p] = 0]
    /\ line' = [line EXCEPT ![p] = Nothing]
    /\ todo' = [todo EXCEPT ![p] = <<>>]
    /\ UNCHANGED <<sock, connVars>>

\* The search for a space runs past the end of a line that has none.
Crash(p) == proc[p] = "open" /\ line[p] = Garbled /\ Die(p)

\* sendTCPLine4 for one unit, lost when the browser is gone, or to socket -1.
SendLine(p) ==
    /\ proc[p] = "send" /\ todo[p] # <<>>
    /\ LET c == sock[p]
       IN  got' = IF c # NoConn /\ cli[c] # "left"
                  THEN [got EXCEPT ![c] = Append(@, Head(todo[p]))] ELSE got
    /\ todo' = [todo EXCEPT ![p] = Tail(@)]
    /\ UNCHANGED <<proc, sock, holds, leaked, line, cli, req, accepted>>

AnswerSent_Early(p) ==  \* variant: stops at a short read of the file
    /\ proc[p] = "send" /\ Len(todo[p]) <= 1
    /\ Goto(p, "close")
    /\ todo' = [todo EXCEPT ![p] = <<>>]
    /\ UNCHANGED <<sock, holds, leaked, line, connVars>>
AnswerSent(p) ==
    /\ proc[p] = "send" /\ todo[p] = <<>>
    /\ Goto(p, "close")
    /\ UNCHANGED <<sock, holds, leaked, line, todo, connVars>>

ChildCloses(p) == proc[p] = "close" /\ CloseSocket(p)

\* SIGPIPE has its default action.
BrokenPipe(p) ==
    /\ proc[p] = "send" /\ todo[p] # <<>>
    /\ sock[p] # NoConn /\ cli[sock[p]] = "left"
    /\ Die(p)

Step(p) ==
    \/ Accept(p) \/ AcceptFails(p) \/ Fork(p) \/ ForkFails(p) \/ ParentCloses(p)
    \/ ReadRequest(p) \/ OpenFile(p) \/ Crash(p)
    \/ SendLine(p) \/ AnswerSent(p) \/ ChildCloses(p) \/ BrokenPipe(p)

-----------------------------------------------------------------------------
(* The browsers.                                                           *)

Connect(c) ==
    /\ cli[c] = "idle"
    /\ cli' = [cli EXCEPT ![c] = "open"]
    /\ UNCHANGED <<procVars, req, accepted, got>>

Ask(c) ==
    /\ cli[c] = "open" /\ req[c] = Nothing
    /\ \E r \in Request : req' = [req EXCEPT ![c] = r]
    /\ UNCHANGED <<procVars, cli, accepted, got>>

Leave(c) ==
    /\ cli[c] = "open"
    /\ cli' = [cli EXCEPT ![c] = "left"]
    /\ UNCHANGED <<procVars, req, accepted, got>>

\* The end of the stream: no process has the connection open any more.
Closed(c) == accepted[c] /\ \A p \in Proc : c \notin holds[p]

SeeEnd(c) ==
    /\ cli[c] = "open" /\ Closed(c)
    /\ cli' = [cli EXCEPT ![c] = "done"]
    /\ UNCHANGED <<procVars, req, accepted, got>>

Next ==
    \/ \E p \in Proc : Step(p)
    \/ \E c \in Conn : Connect(c) \/ Ask(c) \/ Leave(c) \/ SeeEnd(c)

\* The kernel schedules every process, and the browsers read what they are sent.
Fairness ==
    /\ \A p \in Proc : WF_vars(Step(p))
    /\ \A c \in Conn : WF_vars(SeeEnd(c))

Spec == Init /\ [][Next]_vars
FairSpec == Spec /\ Fairness

-----------------------------------------------------------------------------
(* Properties.                                                             *)

(* However many processes accept and fork, a process has no connection     *)
(* open but the one it is at, and at most the child and the parent that    *)
(* has not closed it yet (server.c:42-53) have the same one.               *)
HeldWhileServed ==
    /\ \A p \in Proc, c \in Conn :
          c \in holds[p] =>
             /\ sock[p] = c
             /\ proc[p] \in {"fork", "parent", "read", "open", "send", "close"}
    /\ \A p, q \in Proc :
          p # q /\ holds[p] \cap holds[q] # {} => "parent" \in {proc[p], proc[q]}

(* What a browser has received is the beginning of one answer to its own   *)
(* request: no two processes answer the same connection (server.c:47-53).  *)
OneAnswer ==
    \A c \in Conn :
        \/ IsPrefix(got[c], NotFound)
        \/ \E n \in Name : /\ req[c] \in {n, Garbled}
                           /\ IsPrefix(got[c], Found(n))

(* A browser that asked properly and waited gets a whole answer, or no     *)
(* byte at all, and that only when the process table is full: the file is  *)
(* sent to its end (server.c:149) before the connection is closed.         *)
WholeAnswer ==
    \A c \in Conn :
        cli[c] = "done" /\ req[c] \in Name \cup {Absent} =>
            \/ got[c] = NotFound
            \/ req[c] \in Name /\ got[c] = Found(req[c])
            \/ got[c] = <<>> /\ TableFull

(* The first process never answers a request itself (server.c:47-53), so   *)
(* no browser, slow, garbled or gone, blocks or ends it.                   *)
RootStaysFree == proc[Root] \in {"accept", "fork", "parent"}

(* A browser that has asked sees the end of its answer, whatever the other *)
(* browsers do and although every child may run out of descriptors.        *)
EveryRequestEnds ==
    \A c \in Conn :
        cli[c] = "open" /\ req[c] # Nothing ~> cli[c] # "open"
=============================================================================
