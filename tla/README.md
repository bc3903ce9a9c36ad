# Verification of the iteso network programs

The repository is a collection of small client/server programs in C written
for a network programming course. This directory holds TLA+ models of the
programs whose behaviour takes more than one process to understand, the TLC
configurations that check them, and proofs checked by TLAPS.

## The system

Every directory of the repository is a program of its own; they share habits
(one blocking server, a loop around `accept`, `write` loops) and no code.

| part | state it keeps | operations | what makes it correct |
|---|---|---|---|
| `FT_protocoll` file transfer | the connection being served, the open file and its offset, descriptors; each client's announced size and count, and one shared file `archivoRecivido.txt` | name, Ok/NO, size, confirmation, file bytes, Bye both ways | copies are exact, clients never mix in the shared file, nobody waits for ever |
| `PRACTICA2` command service | one TCP connection for ever, descriptors; the client's buffer and counters | PING, FILELIST, GETFILE, GETFILEPART, GETFILESIZE | each reply is consumed by the command that asked for it |
| `PRACTICA2` host discovery | one UDP socket and one buffer shared by two client threads | broadcast, answers, Connect | the answer awaited is the answer read |
| `P3` TLS transfer | the global `mail`, one connection, descriptors; the clients' copies | accept, certificate check, reply, acceptance, size, file | a client that looks at no result takes no record for another, and ends with the whole file or with nothing |
| `P1` web server | a process per connection, inherited descriptors | accept, fork, answer, close | one process answers each connection, and it is closed in the end |
| `HTTPS` web server | one accepting process, a child per connection, the listening socket in all of them | accept, fork, handshake, answer | no connection is forgotten, every stream ends, the server ends only on a full process table |
| `File_Transfer` | one open file for all connections | send from the current offset | every client gets the file |
| `UDP` relay | one socket, one buffer, the port of the turn; each sender's two messages | broadcast, echo, twice a turn | who opens a turn gets two answers, with bytes of no other turn |
| write loops | a counter, a buffer, what the destination takes | `write`, `send`, `SSL_write` again and again, in all of the above | at the end the buffer is written, and there is an end |
| `UDPFileTransfer` | one socket | send a file in datagrams | the end marker ends the transfer |
| `HostDiscover`, `P3/tls_auth` | | | earlier versions of parts of `PRACTICA2` and `P3` |
| `Time_Server`, `Tarea2`, `name`, `lib`, `test`, `hello.c` | | | first exercises, see below |

The processes interact through TCP byte streams, UDP datagrams, the file
system (clients that write the same file) and, in `PRACTICA2` and `P3`, global
variables. What is hard about them: the streams carry no message boundaries, so
one reply read short or long shifts all that follow; descriptors leak and run
out; a peer that dies is seen as an end of file, as a broken pipe or not at
all; servers serve one client at a time and everybody else waits.

## Modules

| module | what it is |
|---|---|
| `FTProtocol` | `FT_protocoll/server.c` and `client.c`, all steps of both |
| `FileCopies` | what the transfer promises of the shared file: the clients write it in turns, from the start, with their own file's bytes |
| `MCFTProtocol` | small instances for TLC |
| `FTProtocolProofs` | the inductive invariant of `FTProtocol`, the theorems, and the proof that it implements `FileCopies` |
| `CommandService` | the TCP thread of `PRACTICA2/server.c` and the interactive `client.c`, every command |
| `MCCommandService` | small instances for TLC |
| `CommandServiceProofs` | the inductive invariant of `CommandService` and the theorems |
| `ForkingWeb` | `P1/server.c` with the socket functions of `P1/tcp.c`, in every process |
| `MCForkingWeb` | small instances for TLC |
| `ForkingWebProofs` | the inductive invariant of `ForkingWeb` and the theorems |
| `OneFile` | `File_Transfer/simple_server.c` and `client.c` |
| `MCOneFile` | small instances for TLC |
| `OneFileProofs` | the inductive invariant of `OneFile` and the theorems |
| `Discovery` | the UDP side of `PRACTICA2/server.c` and `client.c`: three client threads, the servers, the network |
| `MCDiscovery` | small instances for TLC |
| `DiscoveryProofs` | the inductive invariant of `Discovery` and the theorems |
| `TlsTransfer` | `P3/sslserver.c` and `P3/sslclient.c`, over a TLS that is external |
| `MCTlsTransfer` | small instances for TLC |
| `TlsTransferProofs` | the inductive invariant of `TlsTransfer` and the theorems |
| `UdpRelay` | `UDP/listen.c` and `sender.c`, over a network that is external |
| `MCUdpRelay` | small instances for TLC |
| `UdpRelayProofs` | the inductive invariant of `UdpRelay` and the theorems |
| `WriteLoops` | the loops around `write`, `send` and `SSL_write` of every program, which the other modules take as one step |
| `MCWriteLoops` | small instances for TLC |
| `HttpsWeb` | `HTTPS/server.c` (`start_server` and its children) with the socket functions of `HTTPS/tcp.c` |
| `MCHttpsWeb` | small instances for TLC |
| `HttpsWebProofs` | the inductive invariants of `HttpsWeb` and of `WriteLoops`, and a theorem about each |

### FTProtocol and the code

The server's program counter is `srv`, each client's is `cli[c]`. The server's
actions follow the loop of `server.c` (line 83): `Accept`, `OpenFile` (read the
name, `open`), then `Refuse`, or `SendOk`, `SendSize`, `ReadConfirmation`,
`SendChunk` until `EndOfFile`, `ReadBye`, `SendBye`. The clients' follow
`client.c`: `Connect`, `SendName`, `ReadStatus`, `ReadSize`, `Confirm`,
`OpenDest` (or `OpenDestFails`), `CopyBytes` until `CopyEnds`, `SayBye`,
`ReadFarewell`. `off` is the offset of the open file, `fdFree` counts the
server's descriptors (one is taken by `accept` and one by `open`; `close(client)`
gives back the first and nothing gives back the second), `size` and `total` are
`totalFileSize` and `totalReadBytes`, `dest` is the contents of
`archivoRecivido.txt`. `image` is a history variable: the contents of the file
being sent at the moment it was opened.

Abstractions: names and file bytes are model values. "Ok", "NO", "Bye" and the
ten bytes of the size travel in one segment and are units of the stream; file
bytes are read in pieces of every length up to `BUFFERSIZE`. `write` on a
blocking socket writes all it is given (the loops around it are wrong for short
writes, see the hazards). A write to a process that is gone is lost, or kills
the writer (`BrokenPipe`, `ClientBrokenPipe`: no program handles SIGPIPE).
`accept` may fail for a client that has already left (ECONNABORTED), without a
descriptor, or, on the first call (`FirstCall`), by the length of the client's address,
which `server.c` does not set (line 25); all three end the server. `archivoRecivido.txt` is under version control,
so it exists when the server starts, and a client may ask for it by name. The
listen queue of five is not reached by the clients modelled. A server that ended
is not restarted (it binds without SO_REUSEADDR and nothing restarts it).
Processes may be killed at any moment, `MaxKills` times.

### CommandService and the code

`srv` follows the thread `tcp_service` (`PRACTICA2/server.c`, 104-225) and the
functions it calls: `ReadCommand` is the `read` and `strtok` of line 118 on, then
`SendPong`; `SendCount` and `SendList`; `OpenFile`, `SendNo`, `SendSize`,
`SendChunk`, `EndOfFile` for `sendFile` in its two modes; `AnswerLength` for
`getFileSize`. `cli` follows the loop of `PRACTICA2/client.c` (193-326): `Type`
writes the command, and the `Read...` actions and `CopyBytes` read as much as the
client's branch for that command does. `expect` and `total` are `totalFileSize`
and `totalReadBytes`, `off` and `sent` the server's file offset and `totalSent`.

Here the unit of the stream is a byte, because what goes wrong in this program is
that a reply is longer or shorter than what its command reads. A byte of a message
is the message and a position; a byte of a file is a value. A read returns what
has arrived: it ends at its limit, at the end of what one call sent, or between
file bytes. `Atoi` gives what `atoi` makes of the buffer: the size when it begins
with one, 0 for letters, and any value up to `MaxGuess` for digits out of place.
One `read` of the server may take several commands, and only the first is
executed.

`slip` is a history variable: a command has been typed that client and server
read differently (GETFILESIZE or GETFILEPART of a file that is refused, a part
whose difference is not what the server counts), or the number of files had two
digits, which makes the listing's read depend on a `sleep(1)`. The properties of
the run say what holds before that happens, and `cmd_part` what a comment promises
and the code does not do. (No run shows the other case: after GETFILESIZE of an
absent file the client reads ten of the fourteen bytes of FILE NOT FOUND, and the
next GETFILE takes the rest for a size, and saves nothing.) Arguments are well
formed: the server does not check a missing argument, which is not modelled. The
client is alone: the server never returns to `accept`, and ends when the client
leaves. `Killed` is SIGINT or SIGPIPE, the loop has no other way out.

The server may end at any moment, and always in the way of `Ends`: what it has sent
arrives, the commands it has not read are lost, and the client's reads find the end of
the stream after the last byte. `KillServer` is a signal; `CrashAtEof` is the read of 0
that is parsed as a command, `CrashInReaddir` the listing without a descriptor
(`opendir` is not looked at), `BrokenPipe` a write to a client that is gone. In
`AcceptFails` only the thread ends (lines 108-113), for a client that has left or
because `clienteLen` is not set (line 70): the machine is up, and so is the UDP service
that sends clients to it. The client looks at neither the result of its `connect` nor
that of most reads, so it goes through all the steps of a command without a server too.

### ForkingWeb and the code

`proc[p]` is what process `p` does next: `Accept` (or `AcceptFails`) is
`waitConnection4`, then `Fork` (or `ForkFails`); the parent goes through
`ParentCloses`, the child through `clientProccess`: `ReadRequest`, `OpenFile`,
`SendLine` until `AnswerSent`, `ChildCloses`. The child does not exit. Its next
step is `accept`, with the descriptors it inherited. `holds[p]` are the
connections `p` has open and `leaked[p]` the files it or its ancestors opened:
`server.c` closes none. `line` and `todo` are the child's `firstLine` and what it
has yet to send; a 404 answer is `NotFound`, a 200 answer `Found(n)`, in units
(header lines, and one per read of the file).

A first line that has no space after its fifth byte (`Garbled`, also what is read
from socket -1 and from a browser that left without asking) makes the search at
line 103 run past the end: the process crashes (`Crash`), or a space is found
further on and the name is the empty one, that is `index.html`, or a name that
does not exist. `accept` on a process with no free descriptor fails at once and
the process forks all the same; `TableFull` is what makes `fork` fail, and no
process ever frees its place because nobody calls `wait`. A browser may connect
and never ask, ask for anything, or leave. Sending to a browser that has left is
lost or kills the process (`BrokenPipe`).

### OneFile and the code

`srv`, `cur`, `off` are the loop of `simple_server.c` (96-124), its client and the
offset of `file`, which `main` opens before the loop and never rewinds: `Accept`
or `AcceptFails`, `SendChunk` while `read` returns bytes, `Finish`. `cli[c]`
follows `client.c`: `Connect`, `OpenDest` (line 71, which truncates) or
`OpenDestFails`, `CopyBytes`, `CopyEnds`. A client connects by the kernel and
truncates its copy before it is accepted; two clients of one directory share the
copy and each writes at its own offset `pos`, so that a copy truncated under a
writer has a `Hole` at its start. `OpenDestFails` leaves descriptor -1; the next
bytes make the client spin at line 81 for ever, and the server's `write` waits when
`Window` bytes are on their way. `first` and `sent` are history variables.
`accept` may fail at the first call because `clienteLen` is not initialised.

### Discovery and the code

`main`, `rcv` and `greet` are the three threads of `PRACTICA2/client.c` up to its TCP
connection, which `CommandService` takes over: `Greet` is `sendMessages`; `Clear`,
`Receive`, `Name`, `PrintFound` are one turn of `receiveMessages`; `Cancel` is the end
of `sleep(4)` and `pthread_cancel`, then `SendConnect`, `ClearForAnswer`, `AwaitAnswer`,
`PrintAnswer`. `buffer` and `peer` (`udpClient`) are written by both threads. A
cancelled thread ends when it next comes to `recvfrom` (`CancelActs`), or in `printf`,
which may be a cancellation point; until then it goes on, and nothing joins it. A
thread that sleeps in `recvfrom` is woken by the cancellation, so it takes no datagram
after it. Time is not modelled: the four seconds may end at any moment, before the
greeting is sent or an answer has come. `Hear` and `Reply` are the loop of
`server.c` (397-410), `Stop` the end of the server's process, the `CrashAtEof`,
`CrashInReaddir`, `BrokenPipe` and `KillServer` of `CommandService`; a server that could not bind port 5000
hears nothing either. `wire` is what is on its way, in no order, `inbox` the client's
socket. An answer is the same text whatever it answers; `why` says what for, for the
properties. `midTurn` says that the receiver was not in `recvfrom` when cancelled:
then it may clear the buffer after main has read into it.

### TlsTransfer and the code

`srv` follows `main` and `Servlet` of `sslserver.c`: `Accept`, `Handshake` (with
`ShowCerts`, which leaves in the global `mail` what `parseEmail` finds, or what was
there) or `HandshakeFails`, `ReadRequest`, `SendReply` and the comparison, then
`SendAccept`, `OpenFile`, `SendSize`, `ReadConfirmation`, `SendChunk` until
`EndOfFile`, and `Close`, which gives back the socket and not the file. `cli[c]`
follows `sslclient.c`: `Connect`, `SendRequest`, `ReadReply`, `ReadAccept`, `ReadSize`,
`SayOk`, `OpenDest`, `CopyRecord` until `CopyEnds`. No step of it depends on a result
but the copy loop: a client that was refused goes through all of them, reads the
end of the connection three times and truncates its copy.

The unit here is the record: on these blocking connections an `SSL_read` of 1024
bytes returns what one `SSL_write` sent. A client is told of a failed handshake at
once, or (TLS 1.3) when it first reads. A write to a client that has left is lost, kills
the server (`BrokenPipe`), or returns -1, which the loops at lines 164 and 185 repeat
for ever (`WriteSpins`; OpenSSL refuses the retry because the buffer has moved). A
file that could not be opened leaves the size uninitialised: any of `Sizes`. `accept`
fails for a client that has left, and the loop goes on with socket -1. `granted` is a
history variable. What the byte stored before the buffer after a failed read
changes (`buf[bytes] = 0` with -1) is not modelled.

### UdpRelay and the code

`snd[s]` follows `main` of `sender.c`: `SendString`, `ReadAnswer`, `SendDos`,
`ReadLast`. `lsn[r]` follows the loop of `listen.c`: `HearFirst`, `EchoFirst`,
`HearSecond`, `EchoSecond`, which make up a turn. A broadcast is a datagram for each
relay; an echo goes to the broadcast address and the port of the sender that opened
the turn, hence to every sender that has the same port on its host. The second
`recvfrom` overwrites `udpClient` and not `broadcastAddr`: `client[r]` is the opener's
for the whole turn. A buffer is the message in it (`head`) and the one whose end is
still there after it (`tail`): `sendto` sends all 255 bytes. A message has a length
because `sendStringLen` is computed once (line 53) and used for "dos" as well (line
63): both messages of a sender are as long, so a sender's own "dos" covers its own
string. Datagrams are lost (`Lose`) or overtake each other (`net` is a set); the
copies a network makes of one are not modelled. A lost "dos" leaves a relay in the middle of a
turn, and the next sender's string is then the second message of a dead turn, whose
echo goes elsewhere: that sender waits for ever, which is why `OpenerEnds` is about
those who open a turn, and only when nothing was lost.

### WriteLoops and the code

The other modules let a loop around `write` write its whole buffer in one step, which
is what a blocking socket or a disk with room does. This module is about the rest.
Each loop of the programs is a record of what it keeps of the results and where it
writes (`ft_server`, ... `sendTCPLine4`, with the lines of each). Most keep the last
result only and compare it with the whole length (`"latest"`); those of HTTPS add the
results up in an unsigned int, so that -1 makes it huge (`"unsigned"`); that of P1
stops at a result of zero or less (`"positive"`). `Given` is what a call is given,
by place in the buffer: after a result of -1 the first kind passes the address before
the buffer, place 0. `Taken` is what the call does: what a disk has room for or a
socket takes before its peer is gone, all or nothing for TLS, which also refuses to
be called again with another buffer. `SigPipe` and `Free` (somebody deletes a file)
are the environment. `doGet` and `sendLine` are there as they are written: no run of
the program reaches them (see `HttpsWeb`). Seven more loops are not listed
one by one, for they are `"latest"` loops to the same destination as a listed one of
their program: `FT_protocoll/server.c:125`, 136 and 150 (NO, Ok and the size),
`PRACTICA2/server.c:266` and 285, `PRACTICA2/client.c:299`, `P3/sslserver.c:164`.

### HttpsWeb and the code

`root` follows `start_server`: `MakeContext` (`InitServerCTX` and `LoadCertificates`,
which abort), `Listen` (`newTCPServerSocket4`, which may return -1), then `Accept` or
`AcceptFails`, `Fork` or `ForkFails`, `ParentCloses`. `child[c]` is the child of
connection `c`: it waits in `SSL_accept` for the browser (`ShakeHands`, with
`ShowCerts`) and enters `start_protocol` with the number of the descriptor where the
SSL object belongs (line 134), a pointer no process has: `StartProtocol` ends it at
the first `SSL_read`. What follows there, and in `doGet`, does not happen, nor does
the child's return to the accept loop. A failed `accept` is skipped (line 122, unlike
P1); a failed `fork` ends the first process, but each child in `SSL_accept` still has
the listening socket, so browsers may connect to it and nobody accepts them
(`Listening`, `Ended`).

### Runs

| run | configuration | what it shows |
|---|---|---|
| `ft` | `FTProtocol.cfg` | two clients, files of 3 and 0 bytes read 2 at a time, the shared copy and an absent name as requests, one process killed: all properties of `FTProtocol` and the refinement of `FileCopies` |
| `ft_leak` | `FTProtocolLeak.cfg` | a file the server has is refused with NO: the descriptor opened at `server.c:116` is never closed in the loop |
| `cmd` | `CommandService.cfg` | three commands out of ten (every kind, both outcomes of `open`, parts inside, past the end and empty), a client killed and a server that ends at any moment, in the middle of a file or before `accept`: while both sides read alike, each command consumes its own reply (`InStep`), is answered with its own data, or with a beginning of it once the server has ended (`OwnAnswer`), and ends (`CommandsEnd`); a part is sent as counted however it is cut (`SendsItsPart`) |
| `cmd_part` | `CommandServicePart.cfg` | GETFILEPART sends bytes after `lastbyte`: the server takes the second number for a count |
| `web` | `ForkingWeb.cfg` | four processes, two browsers: a connection is open in its server only (`HeldWhileServed`), answered once (`OneAnswer`), wholly (`WholeAnswer`), and its stream ends (`EveryRequestEnds`); the first process never serves (`RootStaysFree`) |
| `discovery` | `Discovery.cfg` | two servers, datagrams lost, late and one delivered twice, the receiver cancelled anywhere: what main reads is late or was sent by the chosen server, which heard Connect (`HeardUnlessLate`); the shared buffer is main's when the receiver was waiting as it was cancelled (`OwnBuffer`); the receiver never takes main's answer (`AnswerLeftForMain`); without losses main goes on (`ConnectAnswered`) |
| `onefile` | `OneFile.cfg` | two clients, in one directory or in two, one process killed: the first client served ends with the whole file and nobody after it is sent a byte, for the file is never rewound (`FirstGetsAll`), whatever clients truncate or write in one directory no byte is out of its place (`BytesInPlace`), every client ends (`EveryClientEnds`) |
| `tls` | `TlsTransfer.cfg` | two clients with certificates of every kind, in one directory or in two, one process killed: each read finds the record meant for it or the end (`ReadsItsRecord`), a client that ends has the whole file or none (`WholeOrEmpty`), truncated copies keep what they have in its place (`BytesInPlace`), every client ends while the server does not spin (`EveryClientEnds`) |
| `relay` | `UdpRelay.cfg` | two senders and a relay, ports and lengths equal or not, datagrams lost or late, users who give up: the end of an echo is the turn's owner's (`TailIsTheOwners`), who opens a turn ends (`OpenerEnds`) |
| `loops` | `WriteLoops.cfg` | each of the twelve loops, over destinations that take none, some or all of the buffer: what is written at the end (`WrittenAtReturn`), which loops end (`LoopReturns`) |
| `https` | `HttpsWeb.cfg` | four browsers, two places for children: nobody accepted is forgotten and the server ends only on a full table (`DownWhenFull`), streams end (`StreamEnds`) |
| `https_download` | `HttpsWebDownload.cfg` | `/download` is never answered: the child dies at its first `SSL_read` |

Bounds of `ft`: two clients are enough for one to wait behind, overlap with or
follow the other, which is all the shared file and the queue distinguish; three
clients (2.6 million states) were checked once without finding anything more.
`BUFFERSIZE` 2 and a file of 3 bytes give a full and a short read; the empty file
skips the copy loop. `MaxFds` 3 lets the server run out of descriptors after one
or two transfers. One kill, at any point and of any process, is what separates
the interleavings; each property then holds for every number of kills by the
proofs. Deadlock is not checked: the server waits in `accept` for ever by design,
and a client that asks for `archivoRecivido.txt` and truncates it before the server
has read it does wait for ever: `EveryClientEnds` has that situation, and no other, in
its antecedent.

Bounds of `cmd`: what one command leaves behind is seen by the next, and the
third shows what a slip of the second does; the file of 4 bytes read by 2 gives
parts cut in zero to two chunks, and 0 to 2 descriptors let `open` fail from the
first, second or third command. A listing of 2 bytes stands for any that fits the
200 bytes the client reads. `MaxGuess` 1 lets a misread size be zero or not.
Bounds of `web`: two browsers are what can be confused with each other; four
processes let the root fork twice and a child fork once, or two children crash and
the table fill; two descriptors (the listening one apart) are exhausted by one
leaked file and one connection. Bounds of `onefile`: the offset a client leaves
is seen by the next, so two clients; three bytes read two at a time; a window of one
chunk lets the server wait for its client.
Bounds of `tls`: two clients are the one served and the one that was served before it,
waits behind it or shares its directory; a file of three bytes read two at a time is a
full and a short record; two descriptors make the first transfer take the last one
and the second go without; a window of two records lets the server be behind or ahead
of its client.
Bounds of `discovery`: two servers are the chosen one and another; one duplicate lets
a request be answered, or an answer be read, twice; everything else is sent once by
the code.
Bounds of `relay`: the second place of a turn is taken by its owner or by somebody
else, so two senders; lengths 4 and 5 put a shorter message over a longer one and the
other way round, neither being the three of "dos"; one sender with two relays was checked
once. Bounds of `loops`: three bytes are taken in one, two or three calls; room for five is more than enough and room made twice
lets a loop fail, go on and fail again; an unsigned int that ends at 7 wraps like one of 32 bits.
Bounds of `https`: two children fill the table, a third browser meets the failing
fork and a fourth is in the queue then.
Deadlock is not checked in any of them: a program that waits for a command or a
connection is at rest.

Fairness: the kernel schedules every runnable process, so each server, process
and thread, and each client that has connected, is weakly fair; in `web` a
browser also reads what it was sent (`SeeEnd`), and so in `https`. In `relay` a
sender or relay that has a datagram to read reads it. In `discovery` the network delivers what it does not lose, and a lost datagram is
excluded in the antecedent of the property. No fairness is assumed of
connecting, typing, asking, leaving, kills, crashes by a signal of the user or
broken pipes: those may or may not happen. One action of a process is enabled at a
time but for alternatives of the kernel's (accept failing or not), so fairness of
the whole process is all the scheduler gives.

## Proofs

`FTProtocolProofs` proves, for every set of clients, files, buffer size, number
of descriptors and of kills allowed by the assumptions of `FTProtocol`, the type
invariant, `AcceptNeverStarves`, `OneWriter`, `CopyIsPrefix`, `NoOverread` and
`FarewellMeansComplete`. None of them is inductive. The inductive invariant
`IInv` adds what ties the two ends of a connection together:

- `LoopInv`: the descriptor accounting of one turn of the loop;
- `ConnInv`: which phases of server and client go with which state of the connection;
- `HeardInv`: the messages a client has said are those the server has heard plus
  those on their way, which is why the server cannot be ahead of its client;
- `ServeInv`, `AnswerInv`, `BusyInv`: the open file is the one asked for, what is
  in the stream before the file, and that a client answered Ok is the one served;
- `StreamInv`: saved bytes and bytes in the stream are the file up to the
  server's offset.

There is one lemma per conjunct (`ConnStep`, `HeardStep`, `ServeStep`,
`AnswerStep`, `BusyStep`, `StreamStep`) with one step per action, and lemmas on
pieces of sequences (`Pieces`, `Taking`, `Growing`) for the byte counts.
Its last part adds `GoalInv` (the open file is still what the client asked
for when it truncates its copy) and maps every step to a step of `FileCopies` or a
stutter.

`ForkingWebProofs` proves, for any number of processes, browsers, files and
descriptors, `TypeOK` (which bounds the descriptors of each process),
`HeldWhileServed`, `OneAnswer`, `WholeAnswer` and `RootStaysFree`. Its `IInv` is

- `HoldInv`: a process at a connection has it open and no other, and it has left the queue;
- `ShareInv`: two processes have the same connection open only as parent and
  child, the child serving; before `fork` it is not shared. This is what makes the
  bytes of a connection come from one process although every process accepts;
- `ServeInv`: what was sent and what is still to send make up one answer to the
  request (`Answering`), for a browser that has not left;
- `EndInv`: when only parents have the connection open, the answer is whole, or the
  request was garbled, or nothing was sent and the table is full (`TableStaysFull`).

`ForkEffect`, `SendEffect` and `OpenEffect` restate the actions that pick a value,
`MoveUnit` and `PrefixOfConcat` are about sequences. There is one lemma per
conjunct, with a step per action.

`OneFileProofs` proves `TypeOK`, `FirstGetsAll` and `BytesInPlace` for any clients,
directories, file, buffer and window. Its `IInv` adds `ConnInv` (connections and
phases), `OffsetInv` (the server leaves its file at the end after the first client,
for ever, so that nobody else is ever sent a byte), `StreamInv` (what the first
client has saved and what is on its way are the file up to the offset) and `CopyInv`
(a client that is alone has in its directory what it has saved; `AloneKept`: who has
written in a directory stays in the way). `SendEffect`, `CopyEffect` and `SpinEffect`
restate the actions that move bytes element by element.

`DiscoveryProofs` proves `TypeOK`, `HeardUnlessLate`, `OwnBuffer` and
`AnswerLeftForMain` for any servers. Its `IInv` adds `CancelInv` (the receiver has been
cancelled before a server is chosen), `ConnectInv` (only the chosen server is sent
Connect and only it answers Connect, wherever the datagrams are) and `PeerInv`.

`HttpsWebProofs` proves `DownWhenFull` for any browsers and any size of the process
table. Its `IInv` adds to the type invariant `StartInv` (before the server listens it
has no child, and nobody is connected), `SockInv` (which connection the first process
has open at each point of its loop, and that after `fork` it has a child) and the two
halves of the property, `DownInv` and `KeptInv`. `ChildEffect` and `BrowserEffect` say
that children and browsers leave the first process alone, `QuietIsDeaf` that nobody
connects to a server that has never listened.

Its second half proves `WrittenAtReturn` of `WriteLoops` for every buffer, destination
and width of `unsigned int`, assuming only that a buffer is shorter than `UINT_MAX`
(the specification there is `LoopSpec`, its invariant `LoopInv`). The invariant
says where a loop that goes on may be: before a call has taken less than it was
given, at the start or at the end of the buffer (`Straight`); afterwards, a loop that
keeps the latest result is before the buffer or inside it but never back at its start,
that of P1 is inside it on a connection that takes no more, and those of HTTPS, whose
sum with -1 is above every length, are over (`Slipped`). `GivenShape`, `TakenShape` and
`CallEffect` restate a call byte by byte, `Modulo` is the unsigned arithmetic, and
`Beginning` recognises the first bytes of the buffer. `CallStep` splits on where the
loop is and on what it keeps.

`CommandServiceProofs` proves, for any files, buffer size, length of a listing, numbers of
descriptors and of commands, `TypeOK`, `InStep`, `OwnAnswer` and the action property
`SendsItsPart`. Its `IInv` adds to the types and to `OwnAnswer`

- `ServerInv`: what the server is answering, and, whoever listens, that `sendFile` has
  read as much as it has sent, from the byte it skipped to (this gives `SendsItsPart`,
  which holds of commands the two sides read differently as well);
- `TalkInv`: as long as no `slip` has happened, where the two sides of a command can be
  together. There is one operator for each of the client's phases (`PongTalk`,
  `CountTalk`, ... `CopyTalk`) with the phases of the server, and the exact bytes on
  their way, that go with it. A server that has ended goes with each of them: it ended
  before it had read the command (`Dead`, nothing is on its way), or while it was
  answering (`Answering` and `Sending`, whose bytes are then the last ones).

All the actions that end the server are `Ends` (`Endings`), and `EndTalk` is the one
lemma about it. That what a client then saves is a beginning of the file is the same
fact as that the server sends the file in its order: saved bytes and bytes on their way
are the file up to the server's offset (`Sending`, `SentSoFar`, `CopyDone`).
`InStep` is `PromptTalk`, but is not inductive without all the others. The lemmas on
messages (`TextShape`, `Front`, `MessageAhead`, `ReadsMessage`) say that a read that finds
a whole message at the front of the stream returns it and leaves what is behind it, and
`ChunkShape`, `Splitting`, `AllSent` how a part is cut. `ByteAssumption` says that a
byte of a file is not a byte of a message: it separates two kinds of values of the model
(in the program any byte may be a digit; where that matters, `Atoi` returns any value).
The proof showed that the arms of the `CASE` by which `Atoi` was defined overlapped, so
that TLA+ did not say which was meant although TLC took the first; it is an `IF` now.

`TlsTransferProofs` proves, for any clients, certificates, directories, file, buffer,
window and descriptors, `TypeOK`, `ReadsItsRecord`, `BytesInPlace` and `WholeOrEmpty`.
Its `IInv` adds to the types and to `BytesInPlace`

- `ServerInv` and `ClientInv`: the connection served is the only one open, the file is
  open exactly for a client that was granted it, and a client that waits for its turn
  has nothing in its stream;
- `StreamInv`, for every client that is still there: the records on their way are the
  next ones of the conversation in their order (`AllFit`), which is what a client that
  looks at none of them relies on; there are as many as the server has sent
  (`Counted`); and their bytes lie one after the other in the file, from the client's
  offset to the server's (`Covers`);
- `CopyInv`: a client alone in its directory has there the beginning of the file up to
  its offset, and has all of it, or nothing, when it is done.

`Covers` gives the offset at which each record begins. Saying that the concatenation of
the records is a piece of the file would need a recursive definition, and induction,
for each fact about it; the offsets make a record sent, or taken, a change at one end
(`CoversAppend`, `CoversTail`). `StreamSent`, `StreamServed`, `StreamUnread` and
`StreamSkimmed` are the four ways in which an action moves the stream, `Over` and
`WrittenShape` what a write at an offset makes of a copy. It is assumed that `Window` and
`MaxFds` are at least 1, as a socket's buffer and the descriptors of a process are; the
bound of the window is part of `TypeOK`.

`UdpRelayProofs` proves `TypeOK` and `TailIsTheOwners` for any senders, relays, ports and
lengths. Its `IInv` adds `LengthInv` (every message on its way or in a buffer has the
length of its sender's string, so that a sender's own "dos" leaves nothing of the string
it covers) and `TurnInv` (until the second message is heard the buffer holds the
opener's message and nothing else). `BroadcastStep`, `FewerStep`, `HeardStep` and
`EchoStep` are the four ways in which the network changes. It assumes that a run of
`sender.c` is not one of `listen.c`, which is how the model tells whom a datagram is for.

Every invariant and action property the runs check is proved, and so is the refinement
of `FileCopies`. Model-checked only is liveness (`EveryClientEnds` of three modules,
`CommandsEnd`, `EveryRequestEnds`, `ConnectAnswered`, `OpenerEnds`, `LoopReturns`,
`StreamEnds`), which is out of the prover's reach, as are ENABLED and induction over data.

## Not modelled, and the plan

`HTTPS`: what `start_protocol` and `doGet` would do with a session is not modelled,
because no execution gets there. `UDPFileTransfer`: its client does not compile
(`filedata` is not declared), so its server, whose loop also takes a `read` of -1 for
a full buffer and sends for ever, has no peer. Known of the code but shown by no run:
the descendants of a process of P1 that has answered inherit the files it did not close
and answer 404 for files that exist (`P1/server.c:117`); a late answer to the
broadcast is printed as the answer to Connect (`PRACTICA2/client.c:171`), which
`HeardUnlessLate` allows for.

Proofs still to do: the part of the liveness properties that is not about fairness. For
each of them, a number that the steps of the program never raise and that its own steps
lower (what a loop has left to write, the records, bytes and phases a client has before
it), as an action property: it says that a fair program ends, without saying that it is
fair. And the same of what `EveryClientEnds` excludes: that its antecedent is the only
state of the protocol in which client and server both wait.

`Time_Server`, `Tarea2`, `name`, `lib`,
`test` and `hello.c` have no state that outlives a call, or do not compile.
`HostDiscover` is an earlier version of what `Discovery` models, `P3/tls_auth` of `TlsTransfer`, without the transfer.
