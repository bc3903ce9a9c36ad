---------------------------- MODULE TlsTransfer ----------------------------
(***************************************************************************)
(* P3: sslserver.c sends archivo.txt to one client after the other, when   *)
(* the name last found in a client's certificate is the one it expects;    *)
(* sslclient.c reads a reply, an acceptance, a size and the file, each     *)
(* with one SSL_read, looks at none of the results but the size, and       *)
(* writes archivoRecivido.txt of its directory.                            *)
(*                                                                         *)
(* TLS is external: an SSL_read returns what one SSL_write sent, or        *)
(* nothing at the end of the connection.                                   *)
(***************************************************************************)
EXTENDS Integers, Sequences

CONSTANTS
    Client,      \* the clients that may connect
    NoClient,    \* nobody was served yet
    Directory,   \* where they run
    File,        \* the contents of archivo.txt
    Byte,        \* what files are made of
    Hole,        \* what was never written of a copy, a zero byte
    BUFFERSIZE,  \* 1024, the largest read of file bytes
    MaxFds,      \* the descriptors the server may have besides its socket
    Window,      \* bound on the records on their way to a client
    MaxKills     \* bound on the processes killed

ASSUME ClientAssumption == NoClient \notin Client
ASSUME FileAssumption == File \in Seq(Byte) /\ Hole \notin Byte
ASSUME BoundAssumption ==
    /\ BUFFERSIZE \in Nat \ {0} /\ MaxFds \in Nat \ {0} /\ Window \in Nat \ {0}
    /\ MaxKills \in Nat

\* What the client's certificate says of who issued it: the name the server
\* expects, another one, none, or nothing the server can verify.
Issuer == {"authority", "other", "unnamed", "unverified"}

\* Records, all with the fields of all.
Rec(k, n, b) == [kind |-> k, size |-> n, bytes |-> b]
Reply == Rec("reply", 0, <<>>)
Autoridad == Rec("accept", 0, <<>>)
Record == [kind : {"reply", "accept", "size", "file"}, size : -1 .. Len(File) + 1,
           bytes : Seq(Byte)]

-----------------------------------------------------------------------------
VARIABLES
    srv,    \* what the server does next
    cur,    \* the client it is serving, or served last
    mail,   \* the global, the name found last
    fdFree, \* the descriptors the server has left
    file,   \* is the file of this connection open?
    off,    \* its offset
    cli,    \* what each client does next
    conn,   \* the connection of each client
    issuer, \* the certificate of each client
    c2s,    \* has the client said what the server reads next?
    s2c,    \* the records on their way
    size,   \* totalFileSize of each client
    pos,    \* totalReadBytes, the offset of its copy
    dir,    \* the directory it runs in
    dest,   \* the copy in each directory
    kills,  \* the number of processes killed
    granted \* history: the clients whose file was open

srvVars == <<srv, cur, mail, fdFree, file, off, granted>>
fileVars == <<size, pos, dest>>
fixed == <<issuer, dir>>
vars == <<srvVars, cli, conn, c2s, s2c, fileVars, fixed, kills>>

Gone == {"failed", "killed", "done"}
CliPhase == {"idle", "connect", "request", "reply", "accept", "size", "ok", "open", "copy"} \cup Gone

TypeOK ==
    /\ srv \in {"accept", "handshake", "request", "reply", "grant", "open", "size",
               "confirm", "file", "close", "spin", "down"}
    /\ cur \in Client \cup {NoClient} /\ mail \in {"", "authority", "other"}
    /\ fdFree \in 0 .. MaxFds /\ file \in BOOLEAN /\ off \in 0 .. Len(File)
    /\ cli \in [Client -> CliPhase]
    /\ conn \in [Client -> {"none", "pending", "open", "closed"}]
    /\ issuer \in [Client -> Issuer] /\ dir \in [Client -> Directory]
    /\ c2s \in [Client -> 0 .. 2]
    /\ s2c \in [Client -> Seq(Record)] /\ \A c \in Client : Len(s2c[c]) <= Window
    /\ size \in [Client -> -1 .. Len(File) + 1] /\ pos \in [Client -> Nat]
    /\ dest \in [Directory -> Seq(Byte \cup {Hole})]
    /\ kills \in 0 .. MaxKills /\ granted \subseteq Client

Init ==
    /\ srv = "accept" /\ cur = NoClient /\ mail = "" /\ fdFree = MaxFds
    /\ file = FALSE /\ off = 0 /\ granted = {}
    /\ cli = [c \in Client |-> "idle"] /\ conn = [c \in Client |-> "none"]
    /\ issuer \in [Client -> Issuer] /\ dir \in [Client -> Directory]
    /\ c2s = [c \in Client |-> 0] /\ s2c = [c \in Client |-> <<>>]
    /\ size = [c \in Client |-> 0] /\ pos = [c \in Client |-> 0]
    /\ dest = [d \in Directory |-> <<>>] /\ kills = 0

-----------------------------------------------------------------------------
(* The server.                                                             *)

Min2(a, b) == IF a <= b THEN a ELSE b
Goto(c, phase) == cli' = [cli EXCEPT ![c] = phase]

\* The process ends: its connections are closed, those in the queue too.
Ends ==
    /\ srv' = "down"
    /\ conn' = [c \in Client |-> IF conn[c] = "none" THEN "none" ELSE "closed"]
    /\ UNCHANGED <<cur, mail, fdFree, file, off, granted, cli, c2s, s2c, fileVars, fixed>>

Accept ==
    /\ srv = "accept" /\ fdFree > 0
    /\ \E c \in Client :
          /\ conn[c] = "pending"
          /\ conn' = [conn EXCEPT ![c] = "open"] /\ cur' = c
    /\ srv' = "handshake" /\ fdFree' = fdFree - 1 /\ off' = 0 /\ file' = FALSE
    /\ UNCHANGED <<mail, granted, cli, c2s, s2c, fileVars, fixed, kills>>

\* For a client that has left.  Not looked at: the handshake fails on socket
\* -1, and the loop goes on.
AcceptFails ==
    /\ srv = "accept"
    /\ \E c \in Client : /\ conn[c] = "pending" /\ cli[c] \in Gone
                        /\ conn' = [conn EXCEPT ![c] = "closed"]
    /\ UNCHANGED <<srvVars, cli, c2s, s2c, fileVars, fixed, kills>>

\* What parseEmail leaves in mail: the name, or what was there.
Parsed(i) == IF i \in {"authority", "other"} THEN i ELSE mail

\* SSL_accept with SSL_connect, and ShowCerts.
Handshake ==
    /\ srv = "handshake" /\ cli[cur] = "connect" /\ issuer[cur] # "unverified"
    /\ srv' = "request" /\ mail' = Parsed(issuer[cur])
    /\ Goto(cur, "request")
    /\ UNCHANGED <<cur, fdFree, file, off, granted, conn, c2s, s2c, fileVars, fixed, kills>>

\* A client of TLS 1.3 learns of it later, when it reads.
HandshakeFails ==
    /\ srv = "handshake"
    /\ \/ cli[cur] \in Gone /\ cli' = cli
       \/ cli[cur] = "connect" /\ issuer[cur] = "unverified" /\ Goto(cur, "failed")
       \/ cli[cur] = "connect" /\ issuer[cur] = "unverified" /\ Goto(cur, "request")
    /\ srv' = "close"
    /\ UNCHANGED <<cur, mail, fdFree, file, off, granted, conn, c2s, s2c, fileVars, fixed, kills>>

\* A record of the client, or nothing once it has left.
ReadRequest ==
    /\ srv = "request"
    /\ \/ c2s[cur] > 0 /\ srv' = "reply" /\ c2s' = [c2s EXCEPT ![cur] = @ - 1]
       \/ c2s[cur] = 0 /\ cli[cur] \in Gone /\ srv' = "close" /\ c2s' = c2s
    /\ UNCHANGED <<cur, mail, fdFree, file, off, granted, cli, conn, s2c, fileVars, fixed, kills>>

\* SSL_write: for a client that has left, the record is lost.
Send(r) ==
    \/ cli[cur] \in Gone /\ s2c' = s2c
    \/ cli[cur] \notin Gone /\ Len(s2c[cur]) < Window /\ s2c' = [s2c EXCEPT ![cur] = Append(@, r)]

\* The echo, and the comparison.
SendReply_Early ==  \* variant: replies only to a client it refuses
    /\ srv = "reply"
    /\ IF mail = "authority" THEN s2c' = s2c ELSE Send(Reply)
    /\ srv' = IF mail = "authority" THEN "grant" ELSE "close"
    /\ UNCHANGED <<cur, mail, fdFree, file, off, granted, cli, conn, c2s, fileVars, fixed, kills>>
SendReply ==
    /\ srv = "reply" /\ Send(Reply)
    /\ srv' = IF mail = "authority" THEN "grant" ELSE "close"
    /\ UNCHANGED <<cur, mail, fdFree, file, off, granted, cli, conn, c2s, fileVars, fixed, kills>>

SendAccept ==
    /\ srv = "grant" /\ Send(Autoridad)
    /\ srv' = "open"
    /\ UNCHANGED <<cur, mail, fdFree, file, off, granted, cli, conn, c2s, fileVars, fixed, kills>>

\* Not looked at when it fails.  Never closed.
OpenFile_NoLimit ==  \* variant: takes a descriptor it does not have
    /\ srv = "open"
    /\ file' = TRUE /\ fdFree' = fdFree - 1
    /\ granted' = granted \cup {cur}
    /\ srv' = "size"
    /\ UNCHANGED <<cur, mail, off, cli, conn, c2s, s2c, fileVars, fixed, kills>>
OpenFile ==
    /\ srv = "open"
    /\ file' = (fdFree > 0)
    /\ fdFree' = IF fdFree > 0 THEN fdFree - 1 ELSE 0
    /\ granted' = IF fdFree > 0 THEN granted \cup {cur} ELSE granted
    /\ srv' = "size"
    /\ UNCHANGED <<cur, mail, off, cli, conn, c2s, s2c, fileVars, fixed, kills>>

\* st_size, which fstat does not set when the file is not open
Sizes == IF file THEN {Len(File)} ELSE -1 .. Len(File) + 1

SendSize ==
    /\ srv = "size"
    /\ \E n \in Sizes : Send(Rec("size", n, <<>>))
    /\ srv' = "confirm"
    /\ UNCHANGED <<cur, mail, fdFree, file, off, granted, cli, conn, c2s, fileVars, fixed, kills>>

ReadConfirmation ==
    /\ srv = "confirm"
    /\ \/ c2s[cur] > 0 /\ c2s' = [c2s EXCEPT ![cur] = @ - 1]
       \/ c2s[cur] = 0 /\ cli[cur] \in Gone /\ c2s' = c2s
    /\ srv' = "file"
    /\ UNCHANGED <<cur, mail, fdFree, file, off, granted, cli, conn, s2c, fileVars, fixed, kills>>

\* What the next read of the file returns.
Chunk == SubSeq(File, off + 1, Min2(off + BUFFERSIZE, Len(File)))

SendChunk_Again ==  \* variant: sends the first buffer twice
    /\ srv = "file" /\ file /\ off < Len(File)
    /\ Send(Rec("file", 0, Chunk))
    /\ off' = IF off = 0 THEN 1 ELSE off + Len(Chunk)
    /\ UNCHANGED <<srv, cur, mail, fdFree, file, granted, cli, conn, c2s, fileVars, fixed, kills>>
SendChunk ==
    /\ srv = "file" /\ file /\ off < Len(File)
    /\ Send(Rec("file", 0, Chunk))
    /\ off' = off + Len(Chunk)
    /\ UNCHANGED <<srv, cur, mail, fdFree, file, granted, cli, conn, c2s, fileVars, fixed, kills>>

EndOfFile_Early ==  \* variant: the last short read is not sent
    /\ srv = "file" /\ (file => Len(File) - off < BUFFERSIZE)
    /\ srv' = "close"
    /\ UNCHANGED <<cur, mail, fdFree, file, off, granted, cli, conn, c2s, s2c, fileVars, fixed, kills>>
EndOfFile ==
    /\ srv = "file" /\ (file => off = Len(File))
    /\ srv' = "close"
    /\ UNCHANGED <<cur, mail, fdFree, file, off, granted, cli, conn, c2s, s2c, fileVars, fixed, kills>>

Close_Not ==  \* variant: frees the SSL state and keeps the socket
    /\ srv = "close"
    /\ srv' = "accept"
    /\ UNCHANGED <<cur, mail, fdFree, file, off, granted, cli, conn, c2s, s2c, fileVars, fixed, kills>>
Close ==
    /\ srv = "close"
    /\ conn' = [conn EXCEPT ![cur] = "closed"] /\ fdFree' = fdFree + 1
    /\ srv' = "accept"
    /\ UNCHANGED <<cur, mail, file, off, granted, cli, c2s, s2c, fileVars, fixed, kills>>

\* SIGPIPE has its default action.
BrokenPipe ==
    /\ srv \in {"reply", "grant", "size", "file"} /\ cli[cur] \in Gone
    /\ Ends
    /\ UNCHANGED kills

\* The loops around SSL_write never end when it keeps returning -1.
WriteSpins ==
    /\ srv \in {"size", "file"} /\ cli[cur] \in Gone
    /\ srv' = "spin"
    /\ UNCHANGED <<cur, mail, fdFree, file, off, granted, cli, conn, c2s, s2c, fileVars, fixed, kills>>

ServerStep ==
    \/ Accept \/ AcceptFails \/ Handshake \/ HandshakeFails \/ ReadRequest \/ SendReply
    \/ SendAccept \/ OpenFile \/ SendSize \/ ReadConfirmation \/ SendChunk \/ EndOfFile \/ Close

-----------------------------------------------------------------------------
(* The clients.                                                            *)

Connect(c) ==
    /\ cli[c] = "idle"
    /\ IF srv = "down" THEN Goto(c, "failed") /\ conn' = conn
       ELSE Goto(c, "connect") /\ conn' = [conn EXCEPT ![c] = "pending"]
    /\ UNCHANGED <<srvVars, c2s, s2c, fileVars, fixed, kills>>

\* SSL_connect when the server has gone: -1 ends the client, 0 does not.
ConnectEnds(c) ==
    /\ cli[c] = "connect" /\ conn[c] = "closed"
    /\ Goto(c, "failed") \/ Goto(c, "request")
    /\ UNCHANGED <<srvVars, conn, c2s, s2c, fileVars, fixed, kills>>

\* SSL_write of the request and of the confirmation, not looked at.
Say(c, next) ==
    /\ c2s' = IF conn[c] = "open" THEN [c2s EXCEPT ![c] = @ + 1] ELSE c2s
    /\ Goto(c, next)
    /\ UNCHANGED <<srvVars, conn, s2c, fileVars, fixed, kills>>
SendRequest(c) == cli[c] = "request" /\ Say(c, "reply")
SayOk(c) == cli[c] = "ok" /\ Say(c, "open")

ClientBrokenPipe(c) ==
    /\ cli[c] \in {"request", "ok"} /\ conn[c] = "closed"
    /\ Goto(c, "killed")
    /\ UNCHANGED <<srvVars, conn, c2s, s2c, fileVars, fixed, kills>>

Eof(c) == s2c[c] = <<>> /\ conn[c] = "closed"

\* A record, or nothing at the end.  The result is only printed.
Skim(c, next) ==
    /\ s2c[c] # <<>> \/ Eof(c)
    /\ s2c' = IF Eof(c) THEN s2c ELSE [s2c EXCEPT ![c] = Tail(@)]
    /\ Goto(c, next)
    /\ UNCHANGED <<srvVars, conn, c2s, fileVars, fixed, kills>>
ReadReply(c) == cli[c] = "reply" /\ Skim(c, "accept")
ReadAccept(c) == cli[c] = "accept" /\ Skim(c, "size")

\* atoi of the empty buffer is 0.
ReadSize(c) ==
    /\ cli[c] = "size" /\ (s2c[c] # <<>> \/ Eof(c))
    /\ size' = [size EXCEPT ![c] = IF Eof(c) THEN 0 ELSE Head(s2c[c]).size]
    /\ s2c' = IF Eof(c) THEN s2c ELSE [s2c EXCEPT ![c] = Tail(@)]
    /\ Goto(c, "ok")
    /\ UNCHANGED <<srvVars, conn, c2s, pos, dest, fixed, kills>>

\* open with O_TRUNC, also after a refusal
OpenDest(c) ==
    /\ cli[c] = "open"
    /\ Goto(c, "copy")
    /\ dest' = [dest EXCEPT ![dir[c]] = <<>>]
    /\ UNCHANGED <<srvVars, conn, c2s, s2c, size, pos, fixed, kills>>

OpenDestFails(c) ==
    /\ cli[c] = "open"
    /\ Goto(c, "failed")
    /\ UNCHANGED <<srvVars, conn, c2s, s2c, fileVars, fixed, kills>>

\* A file after a write at offset p, which may be past its end.
Written(copy, p, bytes) ==
    LET upTo == p + Len(bytes)
    IN  [i \in 1 .. (IF upTo > Len(copy) THEN upTo ELSE Len(copy)) |->
            IF i \in p + 1 .. upTo THEN bytes[i - p]
            ELSE IF i <= Len(copy) THEN copy[i] ELSE Hole]

CopyRecord(c) ==
    /\ cli[c] = "copy" /\ pos[c] < size[c] /\ s2c[c] # <<>>
    /\ LET bytes == Head(s2c[c]).bytes
       IN  /\ dest' = [dest EXCEPT ![dir[c]] = Written(@, pos[c], bytes)]
           /\ pos' = [pos EXCEPT ![c] = @ + Len(bytes)]
    /\ s2c' = [s2c EXCEPT ![c] = Tail(@)]
    /\ UNCHANGED <<srvVars, cli, conn, c2s, size, fixed, kills>>

CopyEnds(c) ==
    /\ cli[c] = "copy" /\ (pos[c] >= size[c] \/ Eof(c))
    /\ Goto(c, "done")
    /\ UNCHANGED <<srvVars, conn, c2s, s2c, fileVars, fixed, kills>>

ClientStep(c) ==
    \/ ConnectEnds(c) \/ SendRequest(c) \/ ReadReply(c) \/ ReadAccept(c) \/ ReadSize(c)
    \/ SayOk(c) \/ OpenDest(c) \/ OpenDestFails(c) \/ CopyRecord(c) \/ CopyEnds(c)

-----------------------------------------------------------------------------
(* Any process may be killed at any moment.                                *)

Kill(c) ==
    /\ kills < MaxKills /\ cli[c] \notin Gone \cup {"idle"}
    /\ kills' = kills + 1
    /\ Goto(c, "killed")
    /\ UNCHANGED <<srvVars, conn, c2s, s2c, fileVars, fixed>>

KillServer ==
    /\ kills < MaxKills /\ srv # "down"
    /\ kills' = kills + 1
    /\ Ends

Next ==
    \/ ServerStep \/ BrokenPipe \/ WriteSpins \/ KillServer
    \/ \E c \in Client : Connect(c) \/ ClientStep(c) \/ ClientBrokenPipe(c) \/ Kill(c)

\* The kernel schedules the server and every client that has connected.
Fairness == WF_vars(ServerStep) /\ \A c \in Client : WF_vars(ClientStep(c))

Spec == Init /\ [][Next]_vars
FairSpec == Spec /\ Fairness

-----------------------------------------------------------------------------
(* Properties.                                                             *)

(* The client never looks at what it was sent (sslclient.c:156-172): each  *)
(* of its reads finds the record meant for it, or the end.                 *)
ReadsItsRecord ==
    \A c \in Client :
        s2c[c] # <<>> =>
            /\ cli[c] = "reply" => Head(s2c[c]) = Reply
            /\ cli[c] = "accept" => Head(s2c[c]) = Autoridad
            /\ cli[c] = "size" => Head(s2c[c]).kind = "size"
            /\ cli[c] = "copy" => Head(s2c[c]).kind = "file"

\* Nobody else has touched the copy in its directory.
Alone(c) ==
    \A d \in Client \ {c} :
        dir[d] = dir[c] => cli[d] \notin {"copy", "killed", "done"}

(* A client that ends has the whole file if the server had it open for it, *)
(* and an empty copy, truncated all the same, if it was refused or the     *)
(* server was out of descriptors (sslclient.c:163-200,                     *)
(* sslserver.c:142-197), unless the server died.                           *)
WholeOrEmpty ==
    \A c \in Client :
        cli[c] = "done" /\ Alone(c) /\ srv # "down" =>
            dest[dir[c]] = IF c \in granted THEN File ELSE <<>>

(* A refused client truncates the copy that another client of its          *)
(* directory is still writing (sslclient.c:183): what is left of it is in  *)
(* its place.                                                              *)
BytesInPlace ==
    \A d \in Directory :
        /\ Len(dest[d]) <= Len(File)
        /\ \A i \in 1 .. Len(dest[d]) : dest[d][i] \in {File[i], Hole}

(* Every client that connects ends, refused or served, whoever dies, as    *)
(* long as the server does not spin on a connection that was reset         *)
(* (sslserver.c:164-168, 185-189).                                         *)
EveryClientEnds ==
    [](srv # "spin") => \A c \in Client : cli[c] # "idle" ~> cli[c] \in Gone
=============================================================================
