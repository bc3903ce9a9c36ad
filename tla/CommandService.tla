--------------------------- MODULE CommandService ---------------------------
(***************************************************************************)
(* The TCP side of PRACTICA2: the thread of server.c that answers the      *)
(* commands of one connection, and the interactive client.c.  The client   *)
(* decides from the command alone how much of the stream is its reply:     *)
(*                                                                         *)
(*    PING         one read          OK PING PONG                          *)
(*    FILELIST     3, then 200       the number of files; their names      *)
(*    GETFILE      10, then as told  the size, the file; or NO             *)
(*    GETFILEPART  last - first      the bytes of the file; or NO          *)
(*    GETFILESIZE  10                the size; or FILE NOT FOUND           *)
(*                                                                         *)
(* TCP is external, as in FTProtocol, but here every byte is a unit of the *)
(* stream: a reply that is not read whole is there for the next command.   *)
(* A read returns what has arrived, which never ends inside a message sent *)
(* by one call unless the read is full.  The server's first client is its  *)
(* only one: it is served until it disconnects, and then the server ends,  *)
(* if nothing ended it before; a thread that cannot accept ends as well.   *)
(***************************************************************************)
EXTENDS Integers, Sequences

CONSTANTS
    Name,        \* the files of the server's directory
    Source,      \* their contents
    Byte,        \* what files are made of
    Absent,      \* a name that is not there
    Commands,    \* what the user may type
    CountLens,   \* the lengths the answer with the number of files may have
    ListLen,     \* the length of the listing, that fits the server's buffer
    BUFFERSIZE,  \* the largest read of file bytes, on both sides
    MaxFds,      \* bound on the server's descriptors
    MaxGuess,    \* bound on what atoi makes of bytes that are no size
    MaxCommands  \* bound on the commands typed

Command ==
    [op : {"PING", "FILELIST"}]
        \cup [op : {"GETFILE", "GETFILESIZE"}, name : Name \cup {Absent}]
        \cup [op : {"GETFILEPART"}, name : Name \cup {Absent}, first : Nat, last : Nat]

ASSUME SourceAssumption == Source \in [Name -> Seq(Byte)] /\ Absent \notin Name
ASSUME CommandAssumption == Commands \subseteq Command
ASSUME BoundAssumption ==
    /\ CountLens \subseteq {3, 4} /\ ListLen \in 1 .. 199
    /\ BUFFERSIZE \in Nat \ {0}
    /\ MaxFds \in Nat /\ MaxGuess \in Nat /\ MaxCommands \in Nat

\* The messages the server sends, and their bytes.
Message == [kind : {"pong", "list", "NO", "notFound"}] \cup [kind : {"count"}, len : {3, 4}]
               \cup [kind : {"size"}, value : Nat]
LenOf(m) == CASE m.kind = "pong" -> 16
              [] m.kind = "count" -> m.len
              [] m.kind = "list" -> ListLen
              [] m.kind = "size" -> 10
              [] m.kind = "NO" -> 2
              [] m.kind = "notFound" -> 14
Text(m) == [i \in 1 .. LenOf(m) |-> [msg |-> m, pos |-> i]]
Pong == [kind |-> "pong"]
Size(n) == [kind |-> "size", value |-> n]
Unit == [msg : Message, pos : 1 .. 199] \cup Byte

\* The bytes of files are told apart from those of messages.
ASSUME ByteAssumption == \A b \in Byte : b \notin [msg : Message, pos : 1 .. 199]

-----------------------------------------------------------------------------
VARIABLES
    srv,     \* what the server thread does next
    req,     \* the command it is answering
    off,     \* the offset of the file it is sending
    sent,    \* totalSent
    fdFree,  \* the descriptors left to it
    cli,     \* what the client does next
    job,     \* the command it typed last
    expect,  \* totalFileSize
    total,   \* totalReadBytes
    shown,   \* the reply it printed last
    saved,   \* the contents of the file it saved last
    c2s,     \* the commands on their way
    s2c,     \* the bytes on their way
    typed,   \* the number of commands typed
    slip     \* history: a command was typed that the two sides read differently

srvVars == <<srv, req, off, sent, fdFree>>
cliVars == <<cli, job, expect, total, shown, saved, typed>>
vars == <<srv, req, off, sent, fdFree, cli, job, expect, total, shown, saved, c2s,
          s2c, typed, slip>>

Ping == [op |-> "PING"]
SrvPhase == {"accept", "read", "pong", "count", "list", "open", "no", "size", "file",
             "length", "down"}
CliPhase == {"connect", "prompt", "pong", "count", "list", "size", "open", "copy",
             "length", "failed", "killed"}
Gone == {"failed", "killed"}

TypeOK ==
    /\ srv \in SrvPhase /\ req \in Commands \cup {Ping}
    /\ off \in Nat /\ sent \in Nat /\ fdFree \in 0 .. MaxFds
    /\ cli \in CliPhase /\ job \in Commands \cup {Ping}
    /\ expect \in Int /\ total \in Nat
    /\ shown \in Seq(Unit) /\ saved \in Seq(Unit)
    /\ c2s \in Seq(Commands) /\ s2c \in Seq(Unit)
    /\ typed \in 0 .. MaxCommands /\ slip \in BOOLEAN

Init ==
    /\ srv = "accept" /\ req = Ping /\ off = 0 /\ sent = 0 /\ fdFree \in 0 .. MaxFds
    /\ cli = "connect" /\ job = Ping /\ expect = 0 /\ total = 0
    /\ shown = <<>> /\ saved = <<>>
    /\ c2s = <<>> /\ s2c = <<>>
    /\ typed = 0 /\ slip = FALSE

-----------------------------------------------------------------------------
Min2(a, b) == IF a <= b THEN a ELSE b

SrvGoto(phase) == srv' = phase
CliGoto(phase) == cli' = phase

\* open(name, O_RDONLY) succeeds; nothing closes the descriptor.
CanOpen_NoLimit(n) == n \in Name  \* variant: descriptors never run out
CanOpen(n) == n \in Name /\ fdFree > 0

\* The byte sendFile skips to, and how many bytes it sends from there.
FirstByte(r) == IF r.op = "GETFILEPART" THEN r.first ELSE 0
Bytes(r) == IF r.op = "GETFILEPART" /\ r.last # 0 THEN r.last ELSE Len(Source[r.name])

\* A client that is gone loses what it is sent (or see BrokenPipe).
Reply(bytes) == s2c' = IF cli \in Gone THEN s2c ELSE s2c \o bytes

\* The thread or its process ends.  What it sent arrives, what it has not read is lost.
Ends ==
    /\ SrvGoto("down")
    /\ c2s' = <<>>
    /\ UNCHANGED <<req, off, sent, fdFree, cliVars, s2c, slip>>

-----------------------------------------------------------------------------
(* The server thread.                                                      *)

Accept ==
    /\ srv = "accept" /\ cli # "connect"
    /\ SrvGoto("read")
    /\ UNCHANGED <<req, off, sent, fdFree, cliVars, c2s, s2c, slip>>

\* For a client that has left the queue, or by the length of its address, which is not set
\* before the call.  The listening socket is closed, the client in its queue reset.
AcceptFails ==
    /\ srv = "accept" /\ cli # "connect"
    /\ Ends

\* One read takes all that has arrived; strtok looks at the first command only.
ReadCommand ==
    /\ srv = "read"
    /\ \E n \in 1 .. Len(c2s) : c2s' = SubSeq(c2s, n + 1, Len(c2s))
    /\ req' = Head(c2s)
    /\ SrvGoto(CASE req'.op = "PING" -> "pong"
                 [] req'.op = "FILELIST" -> "count"
                 [] req'.op = "GETFILESIZE" -> "length"
                 [] OTHER -> "open")
    /\ UNCHANGED <<off, sent, fdFree, cliVars, s2c, slip>>

\* read returns 0, strtok NULL, and strcmp ends the process.
CrashAtEof ==
    /\ srv = "read" /\ c2s = <<>> /\ cli \in Gone
    /\ Ends

SendPong ==
    /\ srv = "pong"
    /\ Reply(Text(Pong))
    /\ SrvGoto("read")
    /\ UNCHANGED <<req, off, sent, fdFree, cliVars, c2s, slip>>

\* getFileCount, as one or two digits and two more characters.
SendCount ==
    /\ srv = "count"
    /\ \E n \in IF fdFree = 0 THEN {3} ELSE CountLens :
          /\ Reply(Text([kind |-> "count", len |-> n]))
          /\ slip' = (slip \/ n # 3)
    /\ SrvGoto("list")
    /\ UNCHANGED <<req, off, sent, fdFree, cliVars, c2s>>

SendList ==
    /\ srv = "list" /\ fdFree > 0
    /\ Reply(Text([kind |-> "list"]))
    /\ SrvGoto("read")
    /\ UNCHANGED <<req, off, sent, fdFree, cliVars, c2s, slip>>

\* opendir is not checked here: without a descriptor readdir ends the process.
CrashInReaddir ==
    /\ srv = "list" /\ fdFree = 0
    /\ Ends

\* The skipping loop counts reads, not bytes: it ends at the end of a short file.
OpenFile_OneMode ==  \* variant: announces the size of a part as well
    /\ srv = "open"
    /\ IF CanOpen(req.name)
       THEN /\ SrvGoto("size")
            /\ fdFree' = fdFree - 1
            /\ off' = Min2(FirstByte(req), Len(Source[req.name]))
            /\ sent' = 0
       ELSE /\ SrvGoto("no")
            /\ UNCHANGED <<fdFree, off, sent>>
    /\ UNCHANGED <<req, cliVars, c2s, s2c, slip>>
OpenFile ==
    /\ srv = "open"
    /\ IF CanOpen(req.name)
       THEN /\ SrvGoto(IF req.op = "GETFILE" THEN "size" ELSE "file")
            /\ fdFree' = fdFree - 1
            /\ off' = Min2(FirstByte(req), Len(Source[req.name]))
            /\ sent' = 0
       ELSE /\ SrvGoto("no")
            /\ UNCHANGED <<fdFree, off, sent>>
    /\ UNCHANGED <<req, cliVars, c2s, s2c, slip>>

SendNo ==
    /\ srv = "no"
    /\ Reply(Text([kind |-> "NO"]))
    /\ SrvGoto("read")
    /\ UNCHANGED <<req, off, sent, fdFree, cliVars, c2s, slip>>

SendSize ==
    /\ srv = "size"
    /\ Reply(Text(Size(Len(Source[req.name]))))
    /\ SrvGoto("file")
    /\ UNCHANGED <<req, off, sent, fdFree, cliVars, c2s, slip>>

\* What the next read of the file returns.
Chunk_WholeBuffer ==  \* variant: does not count what was sent
    SubSeq(Source[req.name], off + 1, Min2(off + BUFFERSIZE, Len(Source[req.name])))
Chunk ==
    LET n == Min2(Bytes(req) - sent, BUFFERSIZE)
    IN  SubSeq(Source[req.name], off + 1, Min2(off + n, Len(Source[req.name])))

SendChunk ==
    /\ srv = "file" /\ Chunk # <<>>
    /\ Reply(Chunk)
    /\ off' = off + Len(Chunk) /\ sent' = sent + Len(Chunk)
    /\ UNCHANGED <<srv, req, fdFree, cliVars, c2s, slip>>

EndOfFile ==
    /\ srv = "file" /\ Chunk = <<>>
    /\ SrvGoto("read")
    /\ UNCHANGED <<req, off, sent, fdFree, cliVars, c2s, s2c, slip>>

AnswerLength_Short ==  \* variant: sends the digits only
    /\ srv = "length"
    /\ IF CanOpen(req.name)
       THEN /\ fdFree' = fdFree - 1
            /\ Reply(SubSeq(Text(Size(Len(Source[req.name]))), 1, 1))
       ELSE /\ fdFree' = fdFree
            /\ Reply(Text([kind |-> "notFound"]))
    /\ SrvGoto("read")
    /\ UNCHANGED <<req, off, sent, cliVars, c2s, slip>>
AnswerLength ==
    /\ srv = "length"
    /\ IF CanOpen(req.name)
       THEN /\ fdFree' = fdFree - 1
            /\ Reply(Text(Size(Len(Source[req.name]))))
       ELSE /\ fdFree' = fdFree
            /\ Reply(Text([kind |-> "notFound"]))
    /\ SrvGoto("read")
    /\ UNCHANGED <<req, off, sent, cliVars, c2s, slip>>

\* SIGPIPE has its default action.
BrokenPipe ==
    /\ srv \in {"pong", "count", "list", "no", "size", "file", "length"} /\ cli \in Gone
    /\ srv = "file" => Chunk # <<>>
    /\ Ends

\* Its user or the system ends the process, at any moment.
KillServer ==
    /\ srv # "down"
    /\ Ends

Server ==
    \/ Accept \/ ReadCommand \/ CrashAtEof \/ SendPong \/ SendCount \/ SendList
    \/ CrashInReaddir \/ OpenFile \/ SendNo \/ SendSize \/ SendChunk \/ EndOfFile \/ AnswerLength

-----------------------------------------------------------------------------
(* The client.                                                             *)

\* The result is not looked at: without a server all that follows fails.
Connect ==
    /\ cli = "connect"
    /\ CliGoto("prompt")
    /\ UNCHANGED <<srvVars, job, expect, total, shown, saved, c2s, s2c, typed, slip>>

\* history: the client will read, and wait for, exactly what the server sends.
Agrees(cmd) ==
    CASE cmd.op = "GETFILESIZE" -> CanOpen(cmd.name)
      [] cmd.op = "GETFILEPART" ->
            /\ CanOpen(cmd.name) /\ cmd.first < cmd.last
            /\ cmd.last - cmd.first = Min2(cmd.last, Len(Source[cmd.name]) - cmd.first)
      [] OTHER -> TRUE

\* The user types a command; it is lost if the server is gone.
Type(cmd) ==
    /\ cli = "prompt" /\ typed < MaxCommands
    /\ typed' = typed + 1
    /\ job' = cmd
    /\ slip' = (slip \/ ~Agrees(cmd))
    /\ c2s' = IF srv = "down" THEN c2s ELSE Append(c2s, cmd)
    /\ expect' = IF cmd.op = "GETFILEPART" THEN cmd.last - cmd.first ELSE expect
    /\ CliGoto(CASE cmd.op = "PING" -> "pong"
                 [] cmd.op = "FILELIST" -> "count"
                 [] cmd.op = "GETFILE" -> "size"
                 [] cmd.op = "GETFILEPART" -> "open"
                 [] cmd.op = "GETFILESIZE" -> "length")
    /\ UNCHANGED <<srvVars, total, shown, saved, s2c>>

Eof == s2c = <<>> /\ srv = "down"

\* The lengths a read of up to limit bytes may return.
Arrived(limit) ==
    LET most == Min2(limit, Len(s2c))
    IN  {n \in 1 .. most :
            \/ n = most \/ s2c[n] \in Byte \/ s2c[n].pos = LenOf(s2c[n].msg)}

Read(limit) ==
    \/ \E n \in Arrived(limit) :
          /\ shown' = SubSeq(s2c, 1, n)
          /\ s2c' = SubSeq(s2c, n + 1, Len(s2c))
    \/ Eof /\ shown' = <<>> /\ s2c' = s2c

ReadPong ==
    /\ cli = "pong"
    /\ Read(255)
    /\ CliGoto("prompt")
    /\ UNCHANGED <<srvVars, job, expect, total, saved, c2s, typed, slip>>

ReadCount ==
    /\ cli = "count"
    /\ Read(3)
    /\ CliGoto("list")
    /\ UNCHANGED <<srvVars, job, expect, total, saved, c2s, typed, slip>>

ReadList ==
    /\ cli = "list"
    /\ Read(200)
    /\ CliGoto("prompt")
    /\ UNCHANGED <<srvVars, job, expect, total, saved, c2s, typed, slip>>

\* What atoi may make of a buffer that begins with these bytes.
Atoi(bytes) ==
    IF bytes = <<>> \/ bytes[1] \in Byte THEN 0 .. MaxGuess
    ELSE LET m == bytes[1].msg
         IN  IF m.kind = "size" /\ bytes[1].pos = 1 THEN {m.value}
             ELSE IF m.kind \in {"size", "count"} THEN 0 .. MaxGuess ELSE {0}

\* GETFILE: the size, or the first bytes of whatever comes first.
ReadSize ==
    /\ cli = "size"
    /\ Read(10)
    /\ expect' \in Atoi(shown')
    /\ CliGoto("open")
    /\ UNCHANGED <<srvVars, job, total, saved, c2s, typed, slip>>

\* open(archivo, O_TRUNC)
OpenDest ==
    /\ cli = "open"
    /\ saved' = <<>> /\ total' = 0
    /\ CliGoto("copy")
    /\ UNCHANGED <<srvVars, job, expect, shown, c2s, s2c, typed, slip>>

\* main returns 1
OpenDestFails ==
    /\ cli = "open"
    /\ CliGoto("failed")
    /\ UNCHANGED <<srvVars, job, expect, total, shown, saved, c2s, s2c, typed, slip>>

CopyBytes ==
    /\ cli = "copy" /\ total < expect
    /\ \E n \in Arrived(BUFFERSIZE) :
          /\ saved' = saved \o SubSeq(s2c, 1, n)
          /\ total' = total + n
          /\ s2c' = SubSeq(s2c, n + 1, Len(s2c))
    /\ UNCHANGED <<srvVars, cli, job, expect, shown, c2s, typed, slip>>

CopyEnds_NoEof ==  \* variant: reads on after the end of the stream
    /\ cli = "copy"
    /\ total >= expect
    /\ CliGoto("prompt")
    /\ UNCHANGED <<srvVars, job, expect, total, shown, saved, c2s, s2c, typed, slip>>
CopyEnds ==
    /\ cli = "copy"
    /\ total >= expect \/ Eof
    /\ CliGoto("prompt")
    /\ UNCHANGED <<srvVars, job, expect, total, shown, saved, c2s, s2c, typed, slip>>

\* GETFILESIZE
ReadLength ==
    /\ cli = "length"
    /\ Read(10)
    /\ CliGoto("prompt")
    /\ UNCHANGED <<srvVars, job, expect, total, saved, c2s, typed, slip>>

\* A write to a server that is gone may end the client, and only a signal ends
\* it otherwise.
Killed ==
    /\ cli \notin Gone \cup {"connect"}
    /\ CliGoto("killed")
    /\ UNCHANGED <<srvVars, job, expect, total, shown, saved, c2s, s2c, typed, slip>>

Client ==
    \/ ReadPong \/ ReadCount \/ ReadList \/ ReadSize \/ OpenDest \/ OpenDestFails
    \/ CopyBytes \/ CopyEnds \/ ReadLength

Next ==
    \/ Server \/ AcceptFails \/ BrokenPipe \/ KillServer
    \/ Connect \/ Client \/ Killed \/ \E cmd \in Commands : Type(cmd)

\* The server thread and the client run when they can; the user types when he likes.
Fairness == WF_vars(Server) /\ WF_vars(Client)

Spec == Init /\ [][Next]_vars
FairSpec == Spec /\ Fairness

-----------------------------------------------------------------------------
(* Properties.                                                             *)

(* Back at its prompt (client.c:193) the client has left nothing in the    *)
(* stream and the server has nothing to send, so the next reply is the     *)
(* next command's: as long as only commands were typed that both sides     *)
(* read alike.                                                             *)
InStep ==
    cli = "prompt" /\ ~slip =>
        /\ s2c = <<>> /\ c2s = <<>>
        /\ \/ srv \in {"accept", "read", "down"}
           \/ srv = "file" /\ Chunk = <<>>

(* Then every command also gets its own answer: PING the PONG, GETFILESIZE *)
(* the size, GETFILE and GETFILEPART the bytes (client.c:204-320), and     *)
(* only a file the server cannot open is saved empty.  Whenever the server *)
(* ends, what is saved is a beginning of what was asked for.               *)
Beginning ==
    job.op \in {"GETFILE", "GETFILEPART"} /\ saved # <<>> =>
        /\ job.name \in Name
        /\ \E n \in 1 .. Len(Source[job.name]) :
              saved = SubSeq(Source[job.name], FirstByte(job) + 1, n)
Answer ==
    CASE job.op = "PING" -> shown = Text(Pong)
      [] job.op = "GETFILESIZE" -> shown = Text(Size(Len(Source[job.name])))
      [] job.op = "GETFILEPART" -> saved = SubSeq(Source[job.name], job.first + 1, job.last)
      [] job.op = "GETFILE" ->
            \/ job.name \in Name /\ saved = Source[job.name]
            \/ saved = <<>> /\ (job.name = Absent \/ fdFree = 0)
      [] OTHER -> shown = Text([kind |-> "list"])
OwnAnswer ==
    cli = "prompt" /\ ~slip /\ typed > 0 => Beginning /\ (srv # "down" => Answer)

(* A transfer, server.c:297-323, sends bytes from initialByte on, bytes of *)
(* them or all there are, however they are cut into reads; bytes 0 means   *)
(* the whole size.                                                         *)
SendsItsPart ==
    [][srv = "file" /\ srv' = "read" =>
          LET size == Len(Source[req.name])
          IN  /\ off - sent = Min2(FirstByte(req), size)
              /\ off = Min2(Min2(FirstByte(req), size) + Bytes(req), size)]_vars

(* The client never waits for ever for the reply to a command both sides   *)
(* read alike, also if the server ends in the middle of it, of a file for  *)
(* one (client.c:253), cannot accept, or ended before.                     *)
CommandsEnd ==
    [](cli \notin Gone \cup {"connect", "prompt"} =>
          <>(slip \/ cli \in Gone \cup {"prompt"}))

-----------------------------------------------------------------------------
(* What comments of the repository say and the code does not do.           *)

(* server.c:337, "getFilePart(name, firstbyte, lastbyte): transfiere el    *)
(* archivo name desde firstbyte hasta lastbyte": the last byte sent is     *)
(* lastbyte, or the one before it.                                         *)
EndsAtLastByte ==
    [][srv = "file" /\ srv' = "read" /\ req.op = "GETFILEPART"
          => off <= req.last + 1]_vars
=============================================================================
