--------------------------- MODULE HttpsWebProofs ---------------------------
(***************************************************************************)
(* The inductive invariant of HttpsWeb, for any browsers and any size of   *)
(* the process table, and that the server ends only on a full one.  And    *)
(* what its write loops, doGet's and sendLine's, and those of the other    *)
(* programs have written when they return, for buffers and destinations of *)
(* every size: the second half, about WriteLoops.                          *)
(***************************************************************************)
EXTENDS HttpsWeb, WriteLoops, SequenceTheorems, TLAPS

(* Before the server listens it has no children, and nobody is connected.  *)
Quiet == Forked = {} /\ accepted = {} /\ \A c \in Conn : cli[c] \in {"idle", "refused"}
StartInv == root \in {"context", "listen"} => Quiet /\ sock = {}

(* The connection at hand, and whether it has a child already.             *)
SockInv ==
    /\ root \in {"fork", "parent"} => \E c \in Conn : sock = {c}
    /\ root = "parent" => sock \subseteq Forked
    /\ root = "accept" => sock = {}

(* A server that has ended had a full table, or never listened.            *)
DownInv == root = "down" => TableFull \/ Quiet

(* Nobody accepted is forgotten but a browser that had left.               *)
KeptInv == \A c \in accepted \ (Forked \cup sock) : cli[c] = "left" \/ root = "down"

IInv == TypeOK /\ StartInv /\ SockInv /\ DownInv /\ KeptInv

-----------------------------------------------------------------------------
LEMMA InitInv == Init => IInv
  <1> SUFFICES ASSUME Init PROVE IInv
    OBVIOUS
  <1>1. TypeOK /\ Quiet
    BY DEF Init, TypeOK, Quiet, Forked
  <1> QED
    BY <1>1 DEF Init, IInv, StartInv, SockInv, DownInv, KeptInv

(* The steps of a child and of a browser leave the first process alone,    *)
(* and a child that ends keeps its place in the table.                     *)
LEMMA ChildEffect ==
    ASSUME TypeOK, NEW c \in Conn, ChildStep(c)
    PROVE  TypeOK' /\ Forked' = Forked /\ UNCHANGED <<root, sock, cli, accepted>>
  <1>1. /\ UNCHANGED <<root, sock, cli, accepted>>
        /\ child[c] # "none"
        /\ \/ child' = [child EXCEPT ![c] = "protocol"]
           \/ child' = [child EXCEPT ![c] = "zombie"]
    BY DEF ChildStep, ShakeHands, StartProtocol, connVars
  <1>2. child' \in [Conn -> {"none", "handshake", "protocol", "zombie"}]
    BY <1>1 DEF TypeOK
  <1>3. \A d \in Conn : child'[d] # "none" <=> child[d] # "none"
    BY <1>1 DEF TypeOK
  <1> QED
    BY <1>1, <1>2, <1>3 DEF TypeOK, Forked

LEMMA BrowserEffect ==
    ASSUME TypeOK, NEW c \in Conn, Browser(c)
    PROVE  /\ TypeOK' /\ UNCHANGED <<root, sock, child, accepted>>
           /\ \A d \in Conn : cli[d] = "left" => cli'[d] = "left"
           /\ Quiet => \A d \in Conn : cli'[d] \in {"idle", "refused"} \/ Listening
  <1> DEFINE From == {"idle", "open", "asked"}
  <1>1. \E f \in From, t \in {"open", "refused", "asked", "left", "cut"} :
            /\ BrowserDoes(c, f, t)
            /\ f = "idle" => t = "refused" \/ Listening
    BY DEF Browser, Connect, Ask, Leave, SeeEnd
  <1>2. PICK f \in From, t \in {"open", "refused", "asked", "left", "cut"} :
            /\ cli[c] = f /\ cli' = [cli EXCEPT ![c] = t]
            /\ f = "idle" => t = "refused" \/ Listening
    BY <1>1 DEF BrowserDoes
  <1>3. UNCHANGED <<root, sock, child, accepted>>
    BY <1>1 DEF BrowserDoes, procVars
  <1>4. TypeOK'
    BY <1>2, <1>3 DEF TypeOK
  <1>5. \A d \in Conn : cli[d] = "left" => cli'[d] = "left"
    BY <1>2 DEF TypeOK
  <1>6. Quiet => \A d \in Conn : cli'[d] \in {"idle", "refused"} \/ Listening
    BY <1>2 DEF TypeOK, Quiet
  <1> QED
    BY <1>3, <1>4, <1>5, <1>6

(* With no children and no first process nobody has the listening socket.  *)
LEMMA QuietIsDeaf ==
    ASSUME Quiet, root \in {"context", "listen", "down"} PROVE ~Listening
  BY DEF Quiet, Listening, Alive, Forked

LEMMA Inductive == IInv /\ [Next]_vars => IInv'
  <1> SUFFICES ASSUME IInv, [Next]_vars PROVE IInv'
    OBVIOUS
  <1> USE DEF IInv, StartInv, SockInv, DownInv, KeptInv
  <1>1. CASE MakeContext \/ Listen
    <2>1. Quiet /\ sock = {} /\ UNCHANGED <<sock, child, cli, accepted>>
      BY <1>1 DEF MakeContext, Listen, connVars
    <2>2. Quiet' /\ accepted' = {} /\ sock' = {}
      BY <2>1 DEF Quiet, Forked
    <2>3. root' \in {"listen", "accept", "down"} /\ TypeOK'
      BY <1>1 DEF MakeContext, Listen, TypeOK, connVars
    <2> QED
      BY <2>2, <2>3
  <1>2. CASE Accept
    <2>1. PICK c \in Conn : accepted' = accepted \cup {c} /\ sock' = {c}
      BY <1>2 DEF Accept, Queued
    <2>2. root = "accept" /\ root' = "fork" /\ UNCHANGED <<child, cli>>
      BY <1>2 DEF Accept
    <2>3. TypeOK'
      BY <2>1, <2>2 DEF TypeOK
    <2>4. KeptInv'
      BY <2>1, <2>2 DEF Forked
    <2> QED
      BY <2>1, <2>2, <2>3, <2>4
  <1>3. CASE AcceptFails
    <2>1. PICK c \in Conn : cli[c] = "left" /\ accepted' = accepted \cup {c}
      BY <1>3 DEF AcceptFails, Queued
    <2>2. root = "accept" /\ UNCHANGED <<root, sock, child, cli>>
      BY <1>3 DEF AcceptFails, procVars
    <2>3. TypeOK'
      BY <2>1, <2>2 DEF TypeOK
    <2>4. KeptInv'
      BY <2>1, <2>2 DEF Forked
    <2> QED
      BY <2>2, <2>3, <2>4
  <1>4. CASE Fork
    <2>1. PICK c \in Conn : sock = {c} /\ child' = [child EXCEPT ![c] = "handshake"]
      BY <1>4 DEF Fork
    <2>2. root = "fork" /\ root' = "parent" /\ UNCHANGED <<sock, cli, accepted>>
      BY <1>4 DEF Fork, connVars
    <2>3. TypeOK'
      BY <2>1, <2>2 DEF TypeOK
    <2>4. Forked' = Forked \cup {c}
      BY <2>1 DEF Forked, TypeOK
    <2> QED
      BY <2>1, <2>2, <2>3, <2>4
  <1>5. CASE ForkFails
    <2>1. TableFull /\ root' = "down" /\ sock' = {} /\ UNCHANGED <<child, cli, accepted>>
      BY <1>5 DEF ForkFails, connVars
    <2>2. TableFull'
      BY <2>1 DEF TableFull, Forked
    <2>3. TypeOK'
      BY <2>1 DEF TypeOK
    <2> QED
      BY <2>1, <2>2, <2>3
  <1>6. CASE ParentCloses
    <2>1. /\ root = "parent" /\ root' = "accept" /\ sock' = {}
          /\ UNCHANGED <<child, cli, accepted>>
      BY <1>6 DEF ParentCloses, connVars
    <2>2. Forked' = Forked /\ sock \subseteq Forked
      BY <2>1 DEF Forked
    <2>3. TypeOK'
      BY <2>1 DEF TypeOK
    <2> QED
      BY <2>1, <2>2, <2>3
  <1>7. ASSUME NEW c \in Conn, ChildStep(c) PROVE IInv'
    <2>1. TypeOK' /\ Forked' = Forked /\ UNCHANGED <<root, sock, cli, accepted>>
      BY <1>7, ChildEffect
    <2>2. (TableFull => TableFull') /\ (Quiet => Quiet')
      BY <2>1 DEF TableFull, Quiet
    <2> QED
      BY <2>1, <2>2
  <1>8. ASSUME NEW c \in Conn, Browser(c) PROVE IInv'
    <2>1. /\ TypeOK' /\ UNCHANGED <<root, sock, child, accepted>>
          /\ \A d \in Conn : cli[d] = "left" => cli'[d] = "left"
          /\ Quiet => \A d \in Conn : cli'[d] \in {"idle", "refused"} \/ Listening
      BY <1>8, BrowserEffect
    <2>2. Forked' = Forked /\ (TableFull => TableFull')
      BY <2>1 DEF Forked, TableFull
    <2>3. root \in {"context", "listen", "down"} /\ Quiet => Quiet'
      BY <2>1, <2>2, QuietIsDeaf DEF Quiet
    <2>4. KeptInv'
      BY <2>1, <2>2 DEF TypeOK
    <2> QED
      BY <2>1, <2>2, <2>3, <2>4
  <1>9. CASE UNCHANGED vars
    BY <1>9 DEF vars, TypeOK, Quiet, Forked, TableFull
  <1> QED
    BY <1>1, <1>2, <1>3, <1>4, <1>5, <1>6, <1>7, <1>8, <1>9 DEF Next, RootStep

LEMMA Invariant == Spec => []IInv
  <1>1. Init => IInv
    BY InitInv
  <1>2. IInv /\ [Next]_vars => IInv'
    BY Inductive
  <1> QED BY <1>1, <1>2, PTL DEF Spec

-----------------------------------------------------------------------------
(* The server, once it listens, ends only on a fork that fails with a full *)
(* process table (server.c:145), and forgets no connection it accepted     *)
(* before that, whatever browsers leave its queue (server.c:119).          *)
THEOREM EndsWhenFull == Spec => []DownWhenFull
  <1>1. IInv => DownWhenFull
    BY DEF IInv, DownInv, KeptInv, Quiet, DownWhenFull
  <1> QED BY Invariant, <1>1, PTL

-----------------------------------------------------------------------------
(* The write loops.                                                        *)

LoopTypeInv ==
    /\ loop \in Loop /\ length \in 1 .. MaxLen
    /\ writeBytes \in Int /\ out \in Seq(Int) /\ room \in Nat
    /\ refused \in BOOLEAN /\ slip \in BOOLEAN
    /\ phase \in {"loop", "returned", "killed"}

(* Before a call has taken less than it was given, all is written or       *)
(* nothing is.                                                             *)
Straight ==
    phase = "loop" /\ ~slip =>
        \/ writeBytes = 0 /\ out = <<>>
        \/ loop.keeps = "positive" /\ writeBytes = length /\ out = Whole

(* Afterwards a loop that keeps the latest result only goes on below the   *)
(* length, from before the buffer or from inside it; that of P1 is inside  *)
(* the buffer on a connection that takes no more; those of HTTPS are over. *)
Slipped ==
    phase = "loop" /\ slip =>
        /\ loop.keeps # "unsigned"
        /\ loop.keeps = "latest" => writeBytes \in -1 .. length - 1 /\ writeBytes # 0
        /\ loop.keeps = "positive" =>
             /\ room = 0
             /\ writeBytes \in 0 .. length - 1
             /\ out = SubSeq(Whole, 1, writeBytes)

LoopInv == LoopTypeInv /\ Straight /\ Slipped /\ WrittenAtReturn

-----------------------------------------------------------------------------
(* The loops.                                                              *)
LEMMA Kinds ==
    ASSUME NEW l \in Loop
    PROVE  /\ l.keeps \in {"latest", "unsigned", "positive"}
           /\ l.keeps = "unsigned" => l.to = "tls"
           /\ l.keeps = "positive" => l.to = "socket"
  BY DEF Loop, ft_server, ft_request, ft_client, practica2_server, practica2_client,
         simple_server, simple_client, sslserver, sslclient, doGet, sendLine, sendTCPLine4

(* The arithmetic of unsigned int, on a length and on -1.                  *)
LEMMA Modulo ==
    ASSUME NEW m \in Nat, NEW n \in 0 .. m
    PROVE  n % (m + 1) = n /\ (-1) % (m + 1) = m
  <1>1. n % (m + 1) = n
    BY SMTT(30)
  <1>2. (-1) % (m + 1) = m
    BY SMTT(30)
  <1> QED BY <1>1, <1>2

(* What a call is given, and the part of it that is taken.                 *)
LEMMA GivenShape ==
    ASSUME LoopTypeInv, writeBytes \in -1 .. length
    PROVE  /\ Given \in Seq(Int) /\ Len(Given) = length - writeBytes
           /\ Given = <<>> <=> writeBytes = length
           /\ \A i \in 1 .. length - writeBytes : Given[i] = writeBytes + i
  <1>1. length - writeBytes \in Nat /\ length \in Nat /\ writeBytes \in Int
    BY LengthsAssumption DEF LoopTypeInv
  <1>2. Given \in Seq(Int) /\ Len(Given) = length - writeBytes
    BY <1>1 DEF Given
  <1>3. Given = <<>> <=> Len(Given) = 0
    BY <1>2, EmptySeq
  <1>4. \A i \in 1 .. length - writeBytes : Given[i] = writeBytes + i
    BY <1>1 DEF Given
  <1> QED BY <1>1, <1>2, <1>3, <1>4
LEMMA TakenShape ==
    ASSUME LoopTypeInv, writeBytes \in -1 .. length
    PROVE  /\ Taken \in -1 .. Len(Given)
           /\ Taken = 0 <=> writeBytes = length
           /\ Taken < Len(Given) /\ Taken # -1 => loop.to # "tls" /\ Taken = room
           /\ loop.to = "socket" /\ room = 0 /\ writeBytes # length => Taken = -1
  <1>1. /\ Len(Given) \in Nat /\ Len(Given) = length - writeBytes
        /\ Given = <<>> <=> writeBytes = length
        /\ room \in Nat /\ length \in Nat /\ writeBytes \in Int
    BY GivenShape, LengthsAssumption DEF LoopTypeInv
  <1>2. CASE writeBytes = length
    BY <1>1, <1>2 DEF Taken
  <1>3. CASE writeBytes # length
    BY <1>1, <1>3 DEF Taken
  <1> QED BY <1>2, <1>3

(* What a call writes: the next bytes by place, none after a failure.      *)
LEMMA CallEffect ==
    ASSUME LoopTypeInv, writeBytes \in -1 .. length, Call
    PROVE  /\ LoopTypeInv'
           /\ UNCHANGED <<loop, length>>
           /\ Taken <= 0 => out' = out /\ room' = room
           /\ Taken > 0 => /\ room' = room - Taken
                           /\ Len(out') = Len(out) + Taken
                           /\ \A i \in 1 .. Len(out) : out'[i] = out[i]
                           /\ \A i \in 1 .. Taken : out'[Len(out) + i] = writeBytes + i
  <1> DEFINE n == IF Taken > 0 THEN Taken ELSE 0
             piece == SubSeq(Given, 1, n)
  <1>1. /\ Given \in Seq(Int) /\ Len(Given) \in Nat /\ Len(Given) = length - writeBytes
        /\ Taken \in -1 .. Len(Given) /\ n \in 0 .. Len(Given) /\ Taken <= Len(Given)
        /\ \A i \in 1 .. length - writeBytes : Given[i] = writeBytes + i
    BY GivenShape, TakenShape DEF LoopTypeInv
  <1>2. /\ out' = out \o piece /\ room' = room - n
        /\ writeBytes' = Keeps(Taken) /\ phase' \in {"loop", "returned"}
        /\ slip' \in BOOLEAN /\ refused' \in BOOLEAN
        /\ UNCHANGED <<loop, length>>
    BY DEF Call, LoopTypeInv
  <1>3. /\ piece \in Seq(Int) /\ Len(piece) = n
        /\ \A i \in 1 .. n : piece[i] = Given[i]
    BY <1>1, SubSeqProperties
  <1>4. /\ out \in Seq(Int) /\ out' \in Seq(Int) /\ Len(out) \in Nat
        /\ Len(out') = Len(out) + n
        /\ \A i \in 1 .. Len(out) : out'[i] = out[i]
        /\ \A i \in 1 .. n : out'[Len(out) + i] = piece[i]
    BY <1>2, <1>3, ConcatProperties, LenProperties DEF LoopTypeInv
  <1> HIDE DEF piece
  <1>5. n = 0 => out' = out
    BY <1>2, <1>3, <1>4, EmptySeq, ConcatEmptySeq
  <1>6. room' \in Nat
    BY <1>1, <1>2 DEF LoopTypeInv, Taken
  <1>7. Keeps(Taken) \in Int
    BY <1>1, LengthsAssumption DEF Keeps, LoopTypeInv
  <1>8. LoopTypeInv'
    BY <1>2, <1>4, <1>6, <1>7 DEF LoopTypeInv
  <1>9. CASE Taken > 0
    <2>1. n = Taken /\ n \in Nat
      BY <1>1, <1>9
    <2>2. \A i \in 1 .. Taken : i \in 1 .. length - writeBytes
      BY <1>1, <1>9
    <2>3. \A i \in 1 .. Taken : out'[Len(out) + i] = writeBytes + i
      BY <1>1, <1>3, <1>4, <2>1, <2>2
    <2> QED BY <1>2, <1>4, <1>8, <1>9, <2>1, <2>3
  <1>10. CASE ~(Taken > 0)
    <2>1. n = 0 /\ room - n = room /\ out' = out
      BY <1>1, <1>5, <1>10 DEF LoopTypeInv
    <2> QED BY <1>2, <1>8, <1>10, <2>1
  <1> QED BY <1>9, <1>10

(* A buffer's first n bytes, by place.                                     *)
LEMMA Beginning ==
    ASSUME LoopTypeInv, NEW s \in Seq(Int), NEW n \in 0 .. length, Len(s) = n,
           \A i \in 1 .. n : s[i] = i
    PROVE  s = SubSeq(Whole, 1, n) /\ (n = length => s = Whole)
  <1>1. length \in Nat /\ Whole \in Seq(Int) /\ Len(Whole) = length
    BY LengthsAssumption DEF LoopTypeInv, Whole
  <1>2. /\ SubSeq(Whole, 1, n) \in Seq(Int) /\ Len(SubSeq(Whole, 1, n)) = n
        /\ \A i \in 1 .. n : SubSeq(Whole, 1, n)[i] = Whole[i]
    BY <1>1, SubSeqProperties
  <1>3. \A i \in 1 .. length : Whole[i] = i
    BY DEF Whole
  <1>4. s = SubSeq(Whole, 1, n)
    BY <1>1, <1>2, <1>3, SeqEqual
  <1>5. n = length => s = Whole
    BY <1>1, <1>3, SeqEqual
  <1> QED BY <1>4, <1>5

LEMMA BeginningOf ==
    ASSUME LoopTypeInv, NEW n \in 0 .. length
    PROVE  LET s == SubSeq(Whole, 1, n)
           IN  s \in Seq(Int) /\ Len(s) = n /\ \A i \in 1 .. n : s[i] = i
  <1>1. length \in Nat /\ Whole \in Seq(Int) /\ Len(Whole) = length
    BY LengthsAssumption DEF LoopTypeInv, Whole
  <1>2. \A i \in 1 .. length : Whole[i] = i
    BY DEF Whole
  <1> QED BY <1>1, <1>2, SubSeqProperties

(* Where a loop that goes on may be.                                       *)
LEMMA InRange == ASSUME LoopInv, phase = "loop" PROVE writeBytes \in -1 .. length
  <1>1. loop.keeps \in {"latest", "unsigned", "positive"} /\ length \in Nat
    BY Kinds, LengthsAssumption DEF LoopInv, LoopTypeInv
  <1> QED BY <1>1 DEF LoopInv, Straight, Slipped

LEMMA CallStep == LoopInv /\ Call => LoopInv'
  <1> SUFFICES ASSUME LoopInv, Call PROVE LoopInv'
    OBVIOUS
  <1>0. /\ LoopTypeInv /\ phase = "loop" /\ writeBytes \in -1 .. length
        /\ length \in Nat /\ length >= 1 /\ length < UINT_MAX /\ UINT_MAX \in Nat
        /\ loop.keeps \in {"latest", "unsigned", "positive"}
        /\ loop.keeps = "unsigned" => loop.to = "tls"
        /\ loop.keeps = "positive" => loop.to = "socket"
    BY InRange, Kinds, LengthsAssumption DEF LoopInv, LoopTypeInv, Call
  <1>1. /\ LoopTypeInv' /\ loop' = loop /\ length' = length /\ Whole' = Whole
        /\ Taken <= 0 => out' = out /\ room' = room
        /\ Taken > 0 => /\ room' = room - Taken
                        /\ Len(out') = Len(out) + Taken
                        /\ \A i \in 1 .. Len(out) : out'[i] = out[i]
                        /\ \A i \in 1 .. Taken : out'[Len(out) + i] = writeBytes + i
    BY <1>0, CallEffect DEF Whole
  <1>2. /\ Len(Given) = length - writeBytes /\ Taken \in -1 .. length - writeBytes
        /\ Taken = 0 <=> writeBytes = length
        /\ Taken < Len(Given) /\ Taken # -1 => loop.to # "tls" /\ Taken = room
        /\ loop.to = "socket" /\ room = 0 /\ writeBytes # length => Taken = -1
    BY <1>0, GivenShape, TakenShape
  <1>3. /\ writeBytes' = Keeps(Taken)
        /\ phase' = IF GoesOn(Taken) THEN "loop" ELSE "returned"
        /\ slip' <=> slip \/ Taken < Len(Given)
    BY DEF Call
  <1>4. out \in Seq(Int) /\ out' \in Seq(Int) /\ Len(out) \in Nat
    BY <1>0, <1>1 DEF LoopTypeInv
  <1>5. CASE ~slip /\ writeBytes = 0 /\ out = <<>>
    <2>1. Len(out) = 0
      BY <1>5
    <2>2. Taken > 0 => Len(out') = Taken /\ \A i \in 1 .. Taken : out'[i] = i
      BY <1>1, <1>2, <1>5, <2>1
    <2>3. Taken > 0 => out' = SubSeq(Whole, 1, Taken) /\ (Taken = length => out' = Whole)
      BY <1>0, <1>2, <1>4, <1>5, <2>2, Beginning
    <2>4. SubSeq(Whole, 1, 0) = <<>>
      BY <1>0, BeginningOf, EmptySeq
    <2>5. CASE loop.keeps = "latest"
      BY <1>0, <1>1, <1>2, <1>3, <1>5, <2>3, <2>5
         DEF LoopInv, Straight, Slipped, WrittenAtReturn, Keeps, GoesOn
    <2>6. CASE loop.keeps = "unsigned"
      <3>1. Taken = -1 \/ Taken = length
        BY <1>0, <1>2, <1>5, <2>6
      <3>2. Keeps(Taken) = IF Taken = -1 THEN UINT_MAX ELSE length
        <4>1. (-1) % (UINT_MAX + 1) = UINT_MAX /\ length % (UINT_MAX + 1) = length
          BY <1>0, Modulo
        <4>2. writeBytes + Taken = Taken
          BY <1>0, <1>2, <1>5
        <4>3. Keeps(Taken) = (writeBytes + Taken) % (UINT_MAX + 1)
          BY <2>6 DEF Keeps
        <4> QED BY <1>0, <3>1, <4>1, <4>2, <4>3
      <3>3. phase' = "returned"
        BY <1>0, <1>3, <2>6, <3>1, <3>2 DEF GoesOn
      <3>4. CASE Taken = -1
        <4>1. out' = SubSeq(Whole', 1, 0) /\ 0 \in 0 .. length' - 1
          BY <1>0, <1>1, <1>5, <2>4, <3>4
        <4>2. slip' /\ loop'.keeps # "latest"
          BY <1>0, <1>1, <1>2, <1>3, <1>5, <2>6, <3>4
        <4> QED
          BY <1>1, <3>3, <4>1, <4>2 DEF LoopInv, Straight, Slipped, WrittenAtReturn
      <3>5. CASE Taken = length
        <4>1. ~slip' /\ out' = Whole'
          BY <1>0, <1>1, <1>2, <1>3, <1>5, <2>3, <3>5
        <4> QED
          BY <1>1, <3>3, <4>1 DEF LoopInv, Straight, Slipped, WrittenAtReturn
      <3> QED BY <3>1, <3>4, <3>5
    <2>7. CASE loop.keeps = "positive"
      <3>1. /\ writeBytes' = IF Taken > 0 THEN Taken ELSE 0
            /\ phase' = IF Taken > 0 THEN "loop" ELSE "returned"
        BY <1>2, <1>3, <1>5, <2>7 DEF Keeps, GoesOn
      <3> QED
        BY <1>0, <1>1, <1>2, <1>3, <1>5, <2>3, <2>4, <2>7, <3>1
           DEF LoopInv, Straight, Slipped, WrittenAtReturn, LoopTypeInv
    <2> QED BY <1>0, <2>5, <2>6, <2>7
  <1>6. CASE ~slip /\ loop.keeps = "positive" /\ writeBytes = length /\ out = Whole
    <2>1. Taken = 0 /\ Len(Given) = 0
      BY <1>0, <1>2, <1>6
    <2>2. phase' = "returned" /\ ~slip' /\ out' = Whole'
      BY <1>1, <1>3, <1>6, <2>1 DEF GoesOn
    <2> QED BY <1>1, <2>2 DEF LoopInv, Straight, Slipped, WrittenAtReturn
  <1>7. CASE slip /\ loop.keeps = "latest"
    <2>1. writeBytes \in -1 .. length - 1 /\ writeBytes # 0 /\ Taken # 0
      BY <1>0, <1>2, <1>7 DEF LoopInv, Slipped
    <2>2. /\ writeBytes' = Taken /\ slip'
          /\ phase' = IF Taken < length THEN "loop" ELSE "returned"
      BY <1>3, <1>7 DEF Keeps, GoesOn
    <2>3. Taken >= length => writeBytes = -1 /\ Taken > 0
      BY <1>0, <1>2, <2>1
    <2>4. Taken >= length => Len(out) + 1 \in 1 .. Len(out') /\ out'[Len(out) + 1] = 0
      BY <1>0, <1>1, <1>2, <1>4, <2>3
    <2>5. Taken >= length => \E i \in DOMAIN out' : out'[i] = 0
      BY <1>4, <2>4
    <2> QED
      BY <1>0, <1>1, <1>2, <1>7, <2>1, <2>2, <2>5
         DEF LoopInv, Straight, Slipped, WrittenAtReturn
  <1>8. CASE slip /\ loop.keeps = "positive"
    <2>1. /\ room = 0 /\ writeBytes \in 0 .. length - 1 /\ Taken = -1
          /\ out = SubSeq(Whole, 1, writeBytes)
      BY <1>0, <1>2, <1>8 DEF LoopInv, Slipped
    <2>2. phase' = "returned" /\ slip' /\ out' = SubSeq(Whole', 1, writeBytes)
      BY <1>1, <1>3, <1>8, <2>1 DEF GoesOn
    <2> QED
      BY <1>1, <1>8, <2>1, <2>2 DEF LoopInv, Straight, Slipped, WrittenAtReturn
  <1> QED
    BY <1>0, <1>5, <1>6, <1>7, <1>8 DEF LoopInv, Straight, Slipped, LoopTypeInv

LEMMA LoopInductive == LoopInv /\ [LoopNext]_loopVars => LoopInv'
  <1> SUFFICES ASSUME LoopInv, [LoopNext]_loopVars PROVE LoopInv'
    OBVIOUS
  <1>1. CASE Call
    BY <1>1, CallStep
  <1>2. CASE SigPipe
    <2>1. /\ phase' = "killed"
          /\ UNCHANGED <<loop, length, writeBytes, out, room, refused>> /\ slip' = TRUE
      BY <1>2 DEF SigPipe
    <2> QED
      BY <2>1 DEF LoopInv, LoopTypeInv, Straight, Slipped, WrittenAtReturn
  <1>3. CASE Free
    <2>1. /\ loop.to = "file" /\ room' \in Nat
          /\ UNCHANGED <<loop, length, writeBytes, out, refused, slip, phase>>
      BY <1>3, LengthsAssumption DEF Free, LoopInv, LoopTypeInv
    <2>2. loop.keeps # "positive"
      BY <2>1, Kinds DEF LoopInv, LoopTypeInv
    <2>3. Whole' = Whole
      BY <2>1 DEF Whole
    <2> QED
      BY <2>1, <2>2, <2>3 DEF LoopInv, LoopTypeInv, Straight, Slipped, WrittenAtReturn
  <1>4. CASE UNCHANGED loopVars
    <2>1. UNCHANGED <<loop, length, writeBytes, out, room, refused, slip, phase>> /\ Whole' = Whole
      BY <1>4 DEF loopVars, Whole
    <2> QED
      BY <2>1 DEF LoopInv, LoopTypeInv, Straight, Slipped, WrittenAtReturn
  <1> QED BY <1>1, <1>2, <1>3, <1>4 DEF LoopNext

-----------------------------------------------------------------------------
(* A loop that returns has written its buffer if no call took less than    *)
(* it was given; else a beginning of it (HTTPS/server.c:207-211,           *)
(* P1/tcp.c:178-180), or, in all the others, the byte before it as well    *)
(* (FT_protocoll/server.c:170-174).                                        *)
THEOREM Written == LoopSpec => []WrittenAtReturn
  <1>1. LoopInit => LoopInv
    <2> SUFFICES ASSUME LoopInit PROVE LoopInv
      OBVIOUS
    <2>1. LoopTypeInv
      <3>1. out \in Seq(Int)
        BY EmptySeq DEF LoopInit
      <3>2. room \in Nat /\ writeBytes \in Int
        BY LengthsAssumption DEF LoopInit
      <3> QED BY <3>1, <3>2 DEF LoopInit, LoopTypeInv
    <2>2. writeBytes = 0 /\ out = <<>> /\ slip = FALSE /\ phase = "loop"
      BY DEF LoopInit
    <2> QED BY <2>1, <2>2 DEF LoopInv, Straight, Slipped, WrittenAtReturn
  <1>2. LoopInv /\ [LoopNext]_loopVars => LoopInv'
    BY LoopInductive
  <1>3. LoopInv => WrittenAtReturn
    BY DEF LoopInv
  <1> QED BY <1>1, <1>2, <1>3, PTL DEF LoopSpec
=============================================================================
