----------------------------- MODULE FTProtocol -----------------------------
(***************************************************************************)
(* The file transfer protocol of FT_protocoll: one sequential TCP server   *)
(* (server.c) and any number of client processes (client.c) started in the *)
(* server's directory, where makefile builds both.  A conversation is      *)
(*                                                                         *)
(*    client  name CRLF         Ok             Bye                         *)
(*    server            Ok size    file bytes      Bye   (or just NO)      *)
(*                                                                         *)
(* Every client saves the file it is sent under the same name, so the      *)
(* clients share Dest with each other, and with the server when one of     *)
(* them asks for it.                                                       *)
(*                                                                         *)
(* TCP is external: a byte stream per direction, which a process that ends *)
(* leaves readable up to its end.  The short messages travel in one        *)
(* segment each and are units of the stream here; the bytes of the file    *)
(* are read in pieces of any size.                                         *)
(***************************************************************************)
EXTENDS Integers, Sequences

CONSTANTS
    Client,      \* the client processes
    Name,        \* the file names of the server's directory, Dest left out
    Source,      \* the contents of those files
    Byte,        \* what files are made of
    Dest,        \* "archivoRecivido.txt"
    OldDest,     \* its contents before the first client runs
    Absent,      \* a name the directory does not hold
    Requests,    \* the names the clients may ask for
    BUFFERSIZE,  \* the size of one read of the file, on both sides
    MaxFds,      \* bound on the descriptors left to the server once it listens
    MaxKills     \* bound on the processes killed

Messages == {"Ok", "NO", "Bye"}
Msg(m) == [msg |-> m]
SizeMsg(n) == [size |-> n]
Unit == [msg : Messages] \cup [size : Nat] \cup Byte

ASSUME SourceAssumption == Source \in [Name -> Seq(Byte)] /\ OldDest \in Seq(Byte)
ASSUME NameAssumption ==
    /\ Dest \notin Name /\ Absent \notin Name /\ Absent # Dest
    /\ Requests \subseteq Name \cup {Dest, Absent}
ASSUME BoundAssumption ==
    BUFFERSIZE \in Nat \ {0} /\ MaxFds \in Nat \ {0, 1} /\ MaxKills \in Nat

-----------------------------------------------------------------------------
VARIABLES
    srv,     \* what the server does next
    cur,     \* the client it last accepted
    off,     \* the read offset of the file it has open
    fdFree,  \* the descriptors it has left
    conn,    \* the connection of each client, as the server's kernel has it
    cli,     \* what each client does next
    want,    \* the name each client was started with
    size,    \* totalFileSize of each client
    total,   \* totalReadBytes of each client
    c2s,     \* what each client has sent and the server has not read
    s2c,     \* what the server has sent and each client has not read
    dest,    \* the contents of Dest
    image,   \* history: the file being sent, as it was when it was opened
    kills    \* the processes killed so far

srvVars  == <<srv, cur, off, fdFree, conn, image>>
cliVars  == <<cli, want, size, total, dest>>
chanVars == <<c2s, s2c>>
vars == <<srv, cur, off, fdFree, conn, image, cli, want, size, total, dest,
          c2s, s2c, kills>>

SrvPhase == {"accept", "name", "no", "ok", "size", "confirm", "file", "bye",
             "sendBye", "down"}
SrvWrites == {"no", "ok", "size", "file", "sendBye"}
CliPhase == {"idle", "request", "status", "size", "confirm", "open", "copy",
             "sendBye", "bye", "done", "failed", "killed"}
CliWrites == {"request", "confirm", "sendBye"}
Gone == {"done", "failed", "killed"}
Copying == {"copy", "sendBye"}

TypeOK ==
    /\ srv \in SrvPhase /\ cur \in Client
    /\ off \in Nat /\ fdFree \in 0 .. MaxFds
    /\ conn \in [Client -> {"none", "pending", "open", "closed"}]
    /\ cli \in [Client -> CliPhase] /\ want \in [Client -> Requests]
    /\ size \in [Client -> Nat] /\ total \in [Client -> Nat]
    /\ c2s \in [Client -> Seq({"name", "Ok", "Bye"})]
    /\ s2c \in [Client -> Seq(Unit)]
    /\ dest \in Seq(Byte) /\ image \in Seq(Byte)
    /\ kills \in 0 .. MaxKills

Init ==
    /\ srv = "accept" /\ cur \in Client /\ off = 0 /\ fdFree \in 2 .. MaxFds
    /\ conn = [c \in Client |-> "none"]
    /\ cli = [c \in Client |-> "idle"]
    /\ want \in [Client -> Requests]
    /\ size = [c \in Client |-> 0] /\ total = [c \in Client |-> 0]
    /\ c2s = [c \in Client |-> <<>>] /\ s2c = [c \in Client |-> <<>>]
    /\ dest = OldDest /\ image = <<>>
    /\ kills = 0

-----------------------------------------------------------------------------
(* What both sides use.                                                    *)

Min2(a, b) == IF a <= b THEN a ELSE b

Exists(n) == n \in Name \cup {Dest}

\* open(name, O_RDONLY) succeeds.
CanOpen_NoLimit(n) == Exists(n)  \* variant: descriptors never run out
CanOpen(n) == Exists(n) /\ fdFree > 0

\* what the server reads from the file of that name now
Content(n) == IF n = Dest THEN dest ELSE Source[n]

\* st_size of the file being sent
FileSize_OneBit == Len(Content(want[cur])) % 2  \* variant: the field is too narrow
FileSize == Len(Content(want[cur]))

\* The bytes one read returns at the server's offset, none at the end.
Chunk == LET f == Content(want[cur])
         IN  SubSeq(f, off + 1, Min2(off + BUFFERSIZE, Len(f)))

SrvGoto(phase) == srv' = phase
CliGoto(c, phase) == cli' = [cli EXCEPT ![c] = phase]

\* A write to a client that is gone is lost (or is a BrokenPipe, below).
Reply(units) ==
    s2c' = IF cli[cur] \in Gone THEN s2c ELSE [s2c EXCEPT ![cur] = @ \o units]

\* A write to a connection the server closed is lost (or a ClientBrokenPipe).
Say(c, m) ==
    c2s' = IF conn[c] = "closed" THEN c2s ELSE [c2s EXCEPT ![c] = Append(@, m)]

\* The server's read of one message: the message, or 0 after a client is gone.
Receive_Retrying ==  \* variant: reads again until it has something
    /\ c2s[cur] # <<>>
    /\ c2s' = [c2s EXCEPT ![cur] = Tail(@)]
Receive ==
    \/ /\ c2s[cur] # <<>>
       /\ c2s' = [c2s EXCEPT ![cur] = Tail(@)]
    \/ /\ c2s[cur] = <<>> /\ cli[cur] \in Gone
       /\ c2s' = c2s

\* close(client)
Hangup_Leaking ==  \* variant: shutdown in place of close
    /\ conn' = [conn EXCEPT ![cur] = "closed"]
    /\ fdFree' = fdFree
Hangup ==
    /\ conn' = [conn EXCEPT ![cur] = "closed"]
    /\ fdFree' = fdFree + 1

-----------------------------------------------------------------------------
(* The server, in the order of its loop.                                   *)

Accept(c) ==
    /\ srv = "accept" /\ conn[c] = "pending" /\ fdFree > 0
    /\ SrvGoto("name")
    /\ cur' = c
    /\ fdFree' = fdFree - 1
    /\ conn' = [conn EXCEPT ![c] = "open"]
    /\ UNCHANGED <<off, image, kills, cliVars, chanVars>>

\* The process ends: its kernel closes every connection it had.
Exit ==
    /\ SrvGoto("down")
    /\ conn' = [c \in Client |-> IF conn[c] = "none" THEN "none" ELSE "closed"]
    /\ UNCHANGED <<cur, off, fdFree, image, cliVars, chanVars>>

\* Nobody has been accepted.
FirstCall == \A c \in Client : conn[c] \in {"none", "pending"}

\* accept fails on a client that left the queue, without a descriptor, or by the length
\* of the client's address, which is not set before the first call.
AcceptFails ==
    /\ srv = "accept"
    /\ \E c \in Client : conn[c] = "pending" /\ (cli[c] \in Gone \/ fdFree = 0 \/ FirstCall)
    /\ Exit
    /\ UNCHANGED kills

\* The name, then open: of "" when the client left without sending one.  The
\* descriptor of the file is never closed.
OpenFile ==
    /\ srv = "name"
    /\ Receive
    /\ IF c2s[cur] # <<>> /\ CanOpen(want[cur])
       THEN /\ SrvGoto("ok")
            /\ fdFree' = fdFree - 1
            /\ off' = 0
            /\ image' = Content(want[cur])
       ELSE /\ SrvGoto("no")
            /\ UNCHANGED <<fdFree, off, image>>
    /\ UNCHANGED <<cur, conn, s2c, kills, cliVars>>

Refuse ==
    /\ srv = "no"
    /\ Reply(<<Msg("NO")>>)
    /\ Hangup
    /\ SrvGoto("accept")
    /\ UNCHANGED <<cur, off, image, c2s, kills, cliVars>>

SendOk ==
    /\ srv = "ok"
    /\ Reply(<<Msg("Ok")>>)
    /\ SrvGoto("size")
    /\ UNCHANGED <<cur, off, fdFree, conn, image, c2s, kills, cliVars>>

SendSize ==
    /\ srv = "size"
    /\ Reply(<<SizeMsg(FileSize)>>)
    /\ SrvGoto("confirm")
    /\ UNCHANGED <<cur, off, fdFree, conn, image, c2s, kills, cliVars>>

ReadConfirmation ==
    /\ srv = "confirm"
    /\ Receive
    /\ SrvGoto("file")
    /\ UNCHANGED <<cur, off, fdFree, conn, image, s2c, kills, cliVars>>

SendChunk ==
    /\ srv = "file" /\ Chunk # <<>>
    /\ Reply(Chunk)
    /\ off' = off + Len(Chunk)
    /\ UNCHANGED <<srv, cur, fdFree, conn, image, c2s, kills, cliVars>>

EndOfFile_NoWait ==  \* variant: does not wait for the client's Bye
    /\ srv = "file" /\ Chunk = <<>>
    /\ SrvGoto("sendBye")
    /\ UNCHANGED <<cur, off, fdFree, conn, image, kills, cliVars, chanVars>>
EndOfFile ==
    /\ srv = "file" /\ Chunk = <<>>
    /\ SrvGoto("bye")
    /\ UNCHANGED <<cur, off, fdFree, conn, image, kills, cliVars, chanVars>>

ReadBye ==
    /\ srv = "bye"
    /\ Receive
    /\ SrvGoto("sendBye")
    /\ UNCHANGED <<cur, off, fdFree, conn, image, s2c, kills, cliVars>>

SendBye ==
    /\ srv = "sendBye"
    /\ Reply(<<Msg("Bye")>>)
    /\ Hangup
    /\ SrvGoto("accept")
    /\ UNCHANGED <<cur, off, image, c2s, kills, cliVars>>

\* SIGPIPE has its default action: a write to a client that is gone may end
\* the server.
BrokenPipe ==
    /\ srv \in SrvWrites /\ cli[cur] \in Gone
    /\ srv = "file" => Chunk # <<>>
    /\ Exit
    /\ UNCHANGED kills

Server == \/ \E c \in Client : Accept(c)
          \/ AcceptFails \/ OpenFile \/ Refuse \/ SendOk \/ SendSize
          \/ ReadConfirmation \/ SendChunk \/ EndOfFile \/ ReadBye \/ SendBye

-----------------------------------------------------------------------------
(* A client, in the order of its main.                                     *)

Eof(c) == s2c[c] = <<>> /\ conn[c] = "closed"

\* Refused by the kernel when no server listens.
Connect(c) ==
    /\ cli[c] = "idle"
    /\ IF srv = "down"
       THEN CliGoto(c, "failed") /\ UNCHANGED conn
       ELSE CliGoto(c, "request") /\ conn' = [conn EXCEPT ![c] = "pending"]
    /\ UNCHANGED <<srv, cur, off, fdFree, image, want, size, total, dest, kills,
                   chanVars>>

SendName(c) ==
    /\ cli[c] = "request"
    /\ Say(c, "name")
    /\ CliGoto(c, "status")
    /\ UNCHANGED <<srvVars, want, size, total, dest, s2c, kills>>

\* Anything but "Ok", the end of the stream included, ends the client.
ReadStatus_Ignoring(c) ==  \* variant: goes on whatever the answer
    /\ cli[c] = "status" /\ s2c[c] # <<>>
    /\ CliGoto(c, "size")
    /\ s2c' = [s2c EXCEPT ![c] = Tail(@)]
    /\ UNCHANGED <<srvVars, want, size, total, dest, c2s, kills>>
ReadStatus(c) ==
    /\ cli[c] = "status"
    /\ \/ /\ s2c[c] # <<>>
          /\ CliGoto(c, IF Head(s2c[c]) = Msg("Ok") THEN "size" ELSE "failed")
          /\ s2c' = [s2c EXCEPT ![c] = Tail(@)]
       \/ Eof(c) /\ CliGoto(c, "failed") /\ s2c' = s2c
    /\ UNCHANGED <<srvVars, want, size, total, dest, c2s, kills>>

Atoi(unit) == IF unit \in [size : Nat] THEN unit.size ELSE 0

\* The ten bytes, or the empty buffer at the end of the stream.
ReadSize(c) ==
    /\ cli[c] = "size"
    /\ \/ /\ s2c[c] # <<>>
          /\ size' = [size EXCEPT ![c] = Atoi(Head(s2c[c]))]
          /\ s2c' = [s2c EXCEPT ![c] = Tail(@)]
       \/ Eof(c) /\ UNCHANGED <<size, s2c>>
    /\ CliGoto(c, "confirm")
    /\ UNCHANGED <<srvVars, want, total, dest, c2s, kills>>

Confirm(c) ==
    /\ cli[c] = "confirm"
    /\ Say(c, "Ok")
    /\ CliGoto(c, "open")
    /\ UNCHANGED <<srvVars, want, size, total, dest, s2c, kills>>

\* open(Dest, O_TRUNC)
OpenDest_Keeping(c) ==  \* variant: without O_TRUNC
    /\ cli[c] = "open"
    /\ CliGoto(c, "copy")
    /\ UNCHANGED <<srvVars, want, size, total, dest, kills, chanVars>>
OpenDest(c) ==
    /\ cli[c] = "open"
    /\ dest' = <<>>
    /\ CliGoto(c, "copy")
    /\ UNCHANGED <<srvVars, want, size, total, kills, chanVars>>

OpenDestFails(c) ==
    /\ cli[c] = "open"
    /\ CliGoto(c, "failed")
    /\ UNCHANGED <<srvVars, want, size, total, dest, kills, chanVars>>

\* One read of up to BUFFERSIZE bytes, written at the end of Dest.
CopyBytes(c) ==
    /\ cli[c] = "copy" /\ total[c] < size[c]
    /\ \E n \in 1 .. Min2(BUFFERSIZE, Len(s2c[c])) :
          /\ dest' = dest \o SubSeq(s2c[c], 1, n)
          /\ s2c' = [s2c EXCEPT ![c] = SubSeq(@, n + 1, Len(@))]
          /\ total' = [total EXCEPT ![c] = @ + n]
    /\ UNCHANGED <<srvVars, cli, want, size, c2s, kills>>

\* The size is reached, or the stream ended before it: the client goes on alike.
CopyEnds_Early(c) ==  \* variant: takes "nothing yet" for the end
    /\ cli[c] = "copy"
    /\ total[c] >= size[c] \/ s2c[c] = <<>>
    /\ CliGoto(c, "sendBye")
    /\ UNCHANGED <<srvVars, want, size, total, dest, kills, chanVars>>
CopyEnds(c) ==
    /\ cli[c] = "copy"
    /\ total[c] >= size[c] \/ Eof(c)
    /\ CliGoto(c, "sendBye")
    /\ UNCHANGED <<srvVars, want, size, total, dest, kills, chanVars>>

SayBye(c) ==
    /\ cli[c] = "sendBye"
    /\ Say(c, "Bye")
    /\ CliGoto(c, "bye")
    /\ UNCHANGED <<srvVars, want, size, total, dest, s2c, kills>>

\* What is read, and whether anything is, makes no difference.
ReadFarewell(c) ==
    /\ cli[c] = "bye"
    /\ \/ s2c[c] # <<>> /\ s2c' = [s2c EXCEPT ![c] = Tail(@)]
       \/ Eof(c) /\ s2c' = s2c
    /\ CliGoto(c, "done")
    /\ UNCHANGED <<srvVars, want, size, total, dest, c2s, kills>>

ClientBrokenPipe(c) ==
    /\ cli[c] \in CliWrites /\ conn[c] = "closed"
    /\ CliGoto(c, "killed")
    /\ UNCHANGED <<srvVars, want, size, total, dest, kills, chanVars>>

ClientStep(c) ==
    \/ SendName(c) \/ ReadStatus(c) \/ ReadSize(c) \/ Confirm(c)
    \/ OpenDest(c) \/ OpenDestFails(c) \/ CopyBytes(c) \/ CopyEnds(c)
    \/ SayBye(c) \/ ReadFarewell(c)

-----------------------------------------------------------------------------
(* A process may be killed at any moment, MaxKills times in all.           *)

KillClient(c) ==
    /\ cli[c] \notin Gone \cup {"idle"} /\ kills < MaxKills
    /\ CliGoto(c, "killed")
    /\ kills' = kills + 1
    /\ UNCHANGED <<srvVars, want, size, total, dest, chanVars>>

KillServer ==
    /\ srv # "down" /\ kills < MaxKills
    /\ Exit
    /\ kills' = kills + 1

Next ==
    \/ Server \/ BrokenPipe \/ KillServer
    \/ \E c \in Client :
          Connect(c) \/ ClientStep(c) \/ ClientBrokenPipe(c) \/ KillClient(c)

\* The kernel schedules the server and every client that was started.
Fairness == WF_vars(Server) /\ \A c \in Client : WF_vars(ClientStep(c))

Spec == Init /\ [][Next]_vars
FairSpec == Spec /\ Fairness

-----------------------------------------------------------------------------
(* Properties.                                                             *)

(* The server never waits in accept without a descriptor for the next      *)
(* client (the failure of server.c:86-91 that ends it), although every     *)
(* file it opens at server.c:116 leaks one.                                *)
AcceptNeverStarves == srv = "accept" => fdFree > 0

(* All clients write the same file, client.c:111, with nothing to keep     *)
(* them apart but the server's taking them one by one: there is never a    *)
(* client copying while another copies or is about to truncate.            *)
OneWriter ==
    \A c, d \in Client :
        cli[c] \in Copying /\ cli[d] \in Copying \cup {"open"} => c = d

(* What a client has saved is, byte for byte, the beginning of the file    *)
(* the server opened for it, as long as its totalReadBytes says, whatever  *)
(* was killed and even when the file it asked for is the one it truncates  *)
(* (client.c:111-127 against server.c:166-175).                            *)
CopyIsPrefix ==
    \A c \in Client : cli[c] \in Copying =>
        /\ total[c] <= Len(image)
        /\ dest = SubSeq(image, 1, total[c])

(* A client never copies more than the size it was told: nothing but the   *)
(* file's bytes can be in the stream while it copies (client.c:118).       *)
NoOverread == \A c \in Client : cli[c] \in Copying => total[c] <= size[c]

(* The server says Bye (server.c:186) to a live client only when Dest is   *)
(* the whole file it opened for that client, for it waits for the          *)
(* client's Bye first.                                                     *)
FarewellMeansComplete ==
    [][srv = "sendBye" /\ srv' = "accept" /\ cli[cur] \notin Gone
          => dest = image /\ total[cur] = size[cur]]_vars

(* A client that is answered NO, server.c:118-129 ("envia file not         *)
(* found"), asked for a name the directory does not hold.                  *)
RefusedOnlyIfAbsent ==
    \A c \in Client :
        s2c[c] # <<>> /\ Head(s2c[c]) = Msg("NO") => ~Exists(want[c])

(* A client that has connected comes to an end, whoever else was killed    *)
(* and when: the queue behind a slow or dead client always moves on.  The  *)
(* one exception is the client that asks for the file it truncates and     *)
(* does so before the server has read it all (client.c:111): the server    *)
(* then waits for a Bye (server.c:181), with less sent than it announced,  *)
(* the client for the rest, and every other client for the server.         *)
EveryClientEnds ==
    [](srv = "bye" => off = Len(image))
        => \A c \in Client : cli[c] = "request" ~> cli[c] \in Gone

(* The protocol implements FileCopies: the clients write Dest in turns,    *)
(* each from the start and with the bytes of its own file only.            *)
CopyState(c) ==
    IF cli[c] \in Copying THEN "copying"
    ELSE IF cli[c] \in Gone \cup {"bye"} THEN "over" ELSE "waiting"
Copies == INSTANCE FileCopies WITH
    asked <- want,
    state <- [c \in Client |-> CopyState(c)],
    goal  <- IF \E c \in Client : cli[c] \in Copying THEN image ELSE <<>>
ImplementsFileCopies == Copies!Spec
=============================================================================
