------------------------------ MODULE OneFile ------------------------------
(***************************************************************************)
(* File_Transfer: simple_server.c opens one file when it starts and sends  *)
(* it, from wherever its offset is, to one client after the other; the     *)
(* end of the connection is the end of the file.  client.c truncates its   *)
(* copy, archivoRecivido.txt of its directory, as soon as it is connected, *)
(* which may be long before it is served.                                  *)
(*                                                                         *)
(* TCP is external: a stream of bytes to each client, of bounded length,   *)
(* in which the server's write waits for room.                             *)
(***************************************************************************)
EXTENDS Integers, Sequences

CONSTANTS
    Client,      \* the clients that may connect
    NoClient,    \* nobody was served yet
    Directory,   \* where they run
    File,        \* the contents of the server's file
    Byte,        \* what files are made of
    Hole,        \* what was never written of a copy, a zero byte
    BUFFERSIZE,  \* the largest read of file bytes, on both sides
    Window,      \* bound on the bytes on their way to a client
    MaxKills     \* bound on the processes killed

ASSUME ClientAssumption == NoClient \notin Client
ASSUME FileAssumption == File \in Seq(Byte) /\ Hole \notin Byte
ASSUME BoundAssumption ==
    /\ BUFFERSIZE \in Nat \ {0} /\ Window \in Nat /\ BUFFERSIZE <= Window
    /\ MaxKills \in Nat

-----------------------------------------------------------------------------
VARIABLES
    srv,    \* what the server does next
    cur,    \* the client it is serving, or served last
    off,    \* the offset of its file
    cli,    \* what each client does next
    conn,   \* the connection of each client
    s2c,    \* the bytes on their way
    pos,    \* the offset of each client's copy
    dir,    \* the directory each client runs in
    dest,   \* the copy in each directory
    kills,  \* the number of processes killed
    first,  \* history: the first client served
    sent    \* history: the bytes written to cur

srvVars == <<srv, cur, off, first, sent>>
fileVars == <<pos, dir, dest>>
vars == <<srv, cur, off, cli, conn, s2c, pos, dir, dest, kills, first, sent>>

Gone == {"failed", "killed", "done"}
CliPhase == {"idle", "open", "copy", "blind", "spin"} \cup Gone

TypeOK ==
    /\ srv \in {"accept", "serve", "down"} /\ cur \in Client \cup {NoClient}
    /\ off \in 0 .. Len(File) /\ sent \in 0 .. Len(File)
    /\ cli \in [Client -> CliPhase]
    /\ conn \in [Client -> {"none", "pending", "open", "closed"}]
    /\ s2c \in [Client -> Seq(Byte)] /\ \A c \in Client : Len(s2c[c]) <= Window
    /\ pos \in [Client -> Nat] /\ dir \in [Client -> Directory]
    /\ dest \in [Directory -> Seq(Byte \cup {Hole})]
    /\ kills \in 0 .. MaxKills /\ first \in Client \cup {NoClient}

Init ==
    /\ srv = "accept" /\ cur = NoClient /\ off = 0
    /\ cli = [c \in Client |-> "idle"] /\ conn = [c \in Client |-> "none"]
    /\ s2c = [c \in Client |-> <<>>] /\ pos = [c \in Client |-> 0]
    /\ dir \in [Client -> Directory] /\ dest = [d \in Directory |-> <<>>]
    /\ kills = 0 /\ first = NoClient /\ sent = 0

-----------------------------------------------------------------------------
(* The server.                                                             *)

Min2(a, b) == IF a <= b THEN a ELSE b

\* The process ends: its connections are closed, those in the queue too.
Ends ==
    /\ srv' = "down"
    /\ conn' = [c \in Client |-> IF conn[c] = "none" THEN "none" ELSE "closed"]
    /\ UNCHANGED <<cur, off, cli, s2c, fileVars, first, sent>>

Accept ==
    /\ srv = "accept"
    /\ \E c \in Client :
          /\ conn[c] = "pending"
          /\ conn' = [conn EXCEPT ![c] = "open"]
          /\ cur' = c
          /\ first' = IF first = NoClient THEN c ELSE first
    /\ srv' = "serve" /\ sent' = 0
    /\ UNCHANGED <<off, cli, s2c, fileVars, kills>>

\* For a client that has left, or by the length of its address, which is not
\* set before the first call.
AcceptFails ==
    /\ srv = "accept"
    /\ \E c \in Client : conn[c] = "pending" /\ (cli[c] \in Gone \/ first = NoClient)
    /\ Ends
    /\ UNCHANGED kills

\* What the next read of the file returns.
Chunk == SubSeq(File, off + 1, Min2(off + BUFFERSIZE, Len(File)))

SendChunk_WholeBuffer ==  \* variant: counts the buffer, not what was read
    /\ srv = "serve" /\ off < Len(File)
    /\ cli[cur] \in Gone \/ Len(s2c[cur]) + Len(Chunk) <= Window
    /\ s2c' = IF cli[cur] \in Gone THEN s2c ELSE [s2c EXCEPT ![cur] = @ \o Chunk]
    /\ off' = off + BUFFERSIZE /\ sent' = sent + BUFFERSIZE
    /\ UNCHANGED <<srv, cur, cli, conn, fileVars, kills, first>>
SendChunk_Again ==  \* variant: sends the first buffer twice
    /\ srv = "serve" /\ off < Len(File)
    /\ cli[cur] \in Gone \/ Len(s2c[cur]) + Len(Chunk) <= Window
    /\ s2c' = IF cli[cur] \in Gone THEN s2c ELSE [s2c EXCEPT ![cur] = @ \o Chunk]
    /\ off' = (IF sent = 0 THEN off ELSE off + Len(Chunk)) /\ sent' = sent + Len(Chunk)
    /\ UNCHANGED <<srv, cur, cli, conn, fileVars, kills, first>>
SendChunk ==
    /\ srv = "serve" /\ off < Len(File)
    /\ cli[cur] \in Gone \/ Len(s2c[cur]) + Len(Chunk) <= Window
    /\ s2c' = IF cli[cur] \in Gone THEN s2c ELSE [s2c EXCEPT ![cur] = @ \o Chunk]
    /\ off' = off + Len(Chunk) /\ sent' = sent + Len(Chunk)
    /\ UNCHANGED <<srv, cur, cli, conn, fileVars, kills, first>>

\* A read of the file returns 0.
Finish_NoClose ==  \* variant: leaves the connection open
    /\ srv = "serve" /\ off = Len(File)
    /\ srv' = "accept"
    /\ UNCHANGED <<cur, off, cli, conn, s2c, fileVars, kills, first, sent>>
Finish ==
    /\ srv = "serve" /\ off = Len(File)
    /\ conn' = [conn EXCEPT ![cur] = "closed"]
    /\ srv' = "accept"
    /\ UNCHANGED <<cur, off, cli, s2c, fileVars, kills, first, sent>>

\* SIGPIPE has its default action.
BrokenPipe ==
    /\ srv = "serve" /\ off < Len(File) /\ cli[cur] \in Gone
    /\ Ends
    /\ UNCHANGED kills

Server == Accept \/ SendChunk \/ Finish

-----------------------------------------------------------------------------
(* The clients.                                                            *)

Goto(c, phase) == cli' = [cli EXCEPT ![c] = phase]

Connect(c) ==
    /\ cli[c] = "idle"
    /\ IF srv = "down" THEN Goto(c, "failed") /\ conn' = conn
       ELSE Goto(c, "open") /\ conn' = [conn EXCEPT ![c] = "pending"]
    /\ UNCHANGED <<srvVars, s2c, fileVars, kills>>

\* open with O_TRUNC
OpenDest(c) ==
    /\ cli[c] = "open"
    /\ Goto(c, "copy")
    /\ dest' = [dest EXCEPT ![dir[c]] = <<>>]
    /\ UNCHANGED <<srvVars, conn, s2c, pos, dir, kills>>

\* Only reported: the client goes on with descriptor -1.
OpenDestFails(c) ==
    /\ cli[c] = "open"
    /\ Goto(c, "blind")
    /\ UNCHANGED <<srvVars, conn, s2c, fileVars, kills>>

\* A file after a write at offset p, which may be past its end.
Written(file, p, bytes) ==
    LET upTo == p + Len(bytes)
    IN  [i \in 1 .. (IF upTo > Len(file) THEN upTo ELSE Len(file)) |->
            IF i \in p + 1 .. upTo THEN bytes[i - p]
            ELSE IF i <= Len(file) THEN file[i] ELSE Hole]

CopyBytes_AtStart(c) ==  \* variant: writes from the start each time
    /\ cli[c] = "copy"
    /\ \E n \in 1 .. Min2(BUFFERSIZE, Len(s2c[c])) :
          /\ dest' = [dest EXCEPT ![dir[c]] = Written(@, 0, SubSeq(s2c[c], 1, n))]
          /\ pos' = [pos EXCEPT ![c] = @ + n]
          /\ s2c' = [s2c EXCEPT ![c] = SubSeq(@, n + 1, Len(@))]
    /\ UNCHANGED <<srvVars, cli, conn, dir, kills>>
CopyBytes(c) ==
    /\ cli[c] = "copy"
    /\ \E n \in 1 .. Min2(BUFFERSIZE, Len(s2c[c])) :
          /\ dest' = [dest EXCEPT ![dir[c]] = Written(@, pos[c], SubSeq(s2c[c], 1, n))]
          /\ pos' = [pos EXCEPT ![c] = @ + n]
          /\ s2c' = [s2c EXCEPT ![c] = SubSeq(@, n + 1, Len(@))]
    /\ UNCHANGED <<srvVars, cli, conn, dir, kills>>

\* The writing loop never ends when write returns -1.
Spin(c) ==
    /\ cli[c] = "blind"
    /\ \E n \in 1 .. Min2(BUFFERSIZE, Len(s2c[c])) :
          s2c' = [s2c EXCEPT ![c] = SubSeq(@, n + 1, Len(@))]
    /\ Goto(c, "spin")
    /\ UNCHANGED <<srvVars, conn, fileVars, kills>>

\* read returns 0, or -1 when the server never accepted the connection.
CopyEnds(c) ==
    /\ cli[c] \in {"copy", "blind"} /\ s2c[c] = <<>> /\ conn[c] = "closed"
    /\ Goto(c, IF cli[c] = "copy" THEN "done" ELSE "failed")
    /\ UNCHANGED <<srvVars, conn, s2c, fileVars, kills>>

ClientStep(c) == OpenDest(c) \/ OpenDestFails(c) \/ CopyBytes(c) \/ Spin(c) \/ CopyEnds(c)

-----------------------------------------------------------------------------
(* Any process may be killed at any moment.                                *)

Kill(c) ==
    /\ kills < MaxKills /\ cli[c] \notin Gone \cup {"idle"}
    /\ kills' = kills + 1
    /\ Goto(c, "killed")
    /\ s2c' = [s2c EXCEPT ![c] = <<>>]
    /\ UNCHANGED <<srvVars, conn, fileVars>>

KillServer ==
    /\ kills < MaxKills /\ srv # "down"
    /\ kills' = kills + 1
    /\ Ends

Next ==
    \/ Server \/ AcceptFails \/ BrokenPipe \/ KillServer
    \/ \E c \in Client : Connect(c) \/ ClientStep(c) \/ Kill(c)

\* The kernel schedules the server and every client that has connected.
Fairness == WF_vars(Server) /\ \A c \in Client : WF_vars(ClientStep(c))

Spec == Init /\ [][Next]_vars
FairSpec == Spec /\ Fairness

-----------------------------------------------------------------------------
(* Properties.                                                             *)

\* Nobody else has touched the copy in its directory.
Alone(c) ==
    \A d \in Client \ {c} :
        dir[d] = dir[c] => cli[d] \in {"idle", "open", "blind", "spin", "failed"}

(* The first client served, if it is the only one in its directory, ends   *)
(* with the whole file unless the server died, and has a prefix of it      *)
(* until then, whatever the pieces it is read in (client.c:76-84,          *)
(* simple_server.c:112-121).  Nobody served after it is sent a byte, for   *)
(* the file is never rewound, although the server says of each that the    *)
(* file was sent (simple_server.c:122).                                    *)
FirstGetsAll ==
    /\ first # NoClient /\ cli[first] \in {"copy", "done"} /\ Alone(first) =>
          LET copy == dest[dir[first]]
          IN  /\ copy = SubSeq(File, 1, Len(copy))
              /\ cli[first] = "done" /\ srv # "down" => copy = File
    /\ srv = "serve" /\ cur # first => sent = 0

(* Clients in one directory truncate each other's copy at any moment       *)
(* (client.c:71).  What is in it is still in its place: no byte of it was  *)
(* sent twice or written by two clients.                                   *)
BytesInPlace ==
    \A d \in Directory :
        /\ Len(dest[d]) <= Len(File)
        /\ \A i \in 1 .. Len(dest[d]) : dest[d][i] \in {File[i], Hole}

(* Every client that connects ends, whoever dies, as long as none of them  *)
(* spins because it could not open its copy (client.c:71-82).              *)
EveryClientEnds ==
    [](\A c \in Client : cli[c] # "spin") =>
        \A c \in Client : cli[c] # "idle" ~> cli[c] \in Gone

=============================================================================
