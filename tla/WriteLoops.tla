----------------------------- MODULE WriteLoops -----------------------------
(***************************************************************************)
(* The loops around write(2), send(2) and SSL_write of all the programs,   *)
(* one loop over one buffer at a time, when a call takes less than it was  *)
(* given: a disk that fills up and is freed, a connection that is reset.   *)
(* The other modules take such a loop as one step that writes everything.  *)
(***************************************************************************)
EXTENDS Integers, Sequences

CONSTANTS
    MaxLen,    \* bound on the length of the buffer
    MaxRoom,   \* bound on what the destination takes at first
    MaxFrees,  \* bound on the times room is made on the disk
    UINT_MAX   \* the largest unsigned int, 2^32 - 1 in the code

ASSUME LengthsAssumption ==
    /\ {MaxLen, MaxRoom, MaxFrees, UINT_MAX} \subseteq Nat
    /\ MaxLen < UINT_MAX

\* What a loop keeps of the results, and where it writes:
\*   "latest"    the last result, and goes on while it is below the length
\*   "unsigned"  their sum, as an unsigned int, and goes on likewise
\*   "positive"  their sum, and goes on while the last is above 0
ft_server == [keeps |-> "latest", to |-> "socket"]
ft_request == [keeps |-> "latest", to |-> "socket"]
ft_client == [keeps |-> "latest", to |-> "file"]
practica2_server == [keeps |-> "latest", to |-> "socket"]
practica2_client == [keeps |-> "latest", to |-> "file"]
simple_server == [keeps |-> "latest", to |-> "socket"]
simple_client == [keeps |-> "latest", to |-> "file"]
sslserver == [keeps |-> "latest", to |-> "tls"]
sslclient == [keeps |-> "latest", to |-> "file"]
doGet == [keeps |-> "unsigned", to |-> "tls"]
sendLine == [keeps |-> "unsigned", to |-> "tls"]
sendTCPLine4 == [keeps |-> "positive", to |-> "socket"]
Loop == {ft_server, ft_request, ft_client, practica2_server, practica2_client,
         simple_server, simple_client, sslserver, sslclient, doGet, sendLine, sendTCPLine4}

-----------------------------------------------------------------------------
VARIABLES
    loop,       \* the loop
    length,     \* of the buffer
    writeBytes, \* what it keeps
    out,        \* the bytes written, by their place in the buffer: 0 is the byte before it
    room,       \* what the destination still takes
    frees,      \* the times room was made
    refused,    \* has SSL_write failed?  Then it refuses to be called with another buffer
    slip,       \* history: has a call taken less than it was given?
    phase       \* "loop", "returned", or "killed" by SIGPIPE

loopVars == <<loop, length, writeBytes, out, room, frees, refused, slip, phase>>

LoopInit ==
    /\ loop \in Loop /\ length \in 1 .. MaxLen /\ room \in 0 .. MaxRoom
    /\ writeBytes = 0 /\ out = <<>> /\ frees = 0
    /\ refused = FALSE /\ slip = FALSE /\ phase = "loop"

-----------------------------------------------------------------------------
\* The bytes a call is given: buf + writeBytes, length - writeBytes.
Given == [i \in 1 .. length - writeBytes |-> writeBytes + i]

\* How many it takes: a file or a socket what it has room for, TLS all or none.
Taken ==
    IF Given = <<>> THEN 0
    ELSE IF loop.to = "tls" THEN (IF room >= Len(Given) /\ ~refused THEN Len(Given) ELSE -1)
    ELSE IF room = 0 THEN -1
    ELSE IF room < Len(Given) THEN room ELSE Len(Given)

\* What the loop keeps of a result.
Keeps_Unsigned(r) ==  \* variant: every counter is unsigned
    IF loop.keeps = "latest" THEN r % (UINT_MAX + 1)
    ELSE IF loop.keeps = "unsigned" THEN (writeBytes + r) % (UINT_MAX + 1)
    ELSE IF r > 0 THEN writeBytes + r ELSE writeBytes
Keeps(r) ==
    IF loop.keeps = "latest" THEN r
    ELSE IF loop.keeps = "unsigned" THEN (writeBytes + r) % (UINT_MAX + 1)
    ELSE IF r > 0 THEN writeBytes + r ELSE writeBytes

\* Does it go on?
GoesOn_OnZero(r) ==  \* variant: 0 bytes are no reason to stop
    IF loop.keeps = "positive" THEN r >= 0 ELSE Keeps(r) < length
GoesOn(r) == IF loop.keeps = "positive" THEN r > 0 ELSE Keeps(r) < length

Call ==
    /\ phase = "loop"
    /\ writeBytes' = Keeps(Taken)
    /\ phase' = IF GoesOn(Taken) THEN "loop" ELSE "returned"
    /\ LET n == IF Taken > 0 THEN Taken ELSE 0
       IN  out' = out \o SubSeq(Given, 1, n) /\ room' = room - n
    /\ slip' = (slip \/ Taken < Len(Given))
    /\ refused' = (refused \/ (loop.to = "tls" /\ Taken = -1))
    /\ UNCHANGED <<loop, length, frees>>

\* Writing on a connection that was reset.
SigPipe ==
    /\ phase = "loop" /\ loop.to # "file" /\ room = 0 /\ Given # <<>>
    /\ phase' = "killed" /\ slip' = TRUE
    /\ UNCHANGED <<loop, length, writeBytes, out, room, frees, refused>>

\* Somebody else deletes a file.
Free ==
    /\ phase = "loop" /\ loop.to = "file" /\ frees < MaxFrees
    /\ \E n \in 1 .. MaxRoom : room' = room + n
    /\ frees' = frees + 1
    /\ UNCHANGED <<loop, length, writeBytes, out, refused, slip, phase>>

LoopNext == Call \/ SigPipe \/ Free

\* The process is scheduled.
LoopFairness == WF_loopVars(Call)

LoopSpec == LoopInit /\ [][LoopNext]_loopVars
FairLoopSpec == LoopSpec /\ LoopFairness

-----------------------------------------------------------------------------
(* Properties.                                                             *)

Whole == [i \in 1 .. length |-> i]

(* What a loop has written when it returns: the buffer, if no call took    *)
(* less than it was given.  Else the loops of HTTPS and P1 return with a   *)
(* beginning of it, and the others (FT_protocoll/server.c:170-174 and all  *)
(* that are written like it) never return but by writing the byte before   *)
(* the buffer: below the length they know of no result but the last.       *)
WrittenAtReturn ==
    phase = "returned" =>
        IF ~slip THEN out = Whole
        ELSE IF loop.keeps = "latest" THEN \E i \in DOMAIN out : out[i] = 0
        ELSE \E n \in 0 .. length - 1 : out = SubSeq(Whole, 1, n)

(* The loops of HTTPS and P1 return whatever happens, the others if every  *)
(* call takes all it is given (the spinning of File_Transfer/client.c:81   *)
(* and P3/sslserver.c:166 when it does not).                               *)
LoopReturns == [](slip => loop.keeps # "latest") => <>(phase # "loop")
=============================================================================
