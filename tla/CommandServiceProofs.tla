------------------------ MODULE CommandServiceProofs ------------------------
(***************************************************************************)
(* Proofs about CommandService, for any files, commands, buffer size and   *)
(* descriptors: a client that types what both sides read alike stays in    *)
(* step with the server and gets every command its own answer, or what the *)
(* server sent of it before it ended.                                      *)
(***************************************************************************)
EXTENDS CommandService, SequenceTheorems, TLAPS

Content == Source[job.name]

(* What the server is at, whoever listens: sendFile has read as much of    *)
(* the file as it has sent, from the byte it skipped to.                   *)
ServerInv ==
    /\ srv = "open" => req.op \in {"GETFILE", "GETFILEPART"}
    /\ srv = "length" => req.op = "GETFILESIZE"
    /\ srv \in {"size", "file"} =>
         /\ req.op \in {"GETFILE", "GETFILEPART"} /\ req.name \in Name
         /\ off \in 0 .. Len(Source[req.name]) /\ sent <= Bytes(req)
         /\ off - sent = Min2(FirstByte(req), Len(Source[req.name]))
    /\ srv = "size" => req.op = "GETFILE" /\ sent = 0

-----------------------------------------------------------------------------
(* The two sides of a command that they read alike, at every point of it.  *)
Ready == srv \in {"accept", "read"} \/ (srv = "file" /\ Chunk = <<>>)
Quiet == c2s = <<>> /\ s2c = <<>>

\* The server has not read the command, is answering it or was when it ended, or ended before.
Asked == Ready /\ c2s = <<job>> /\ s2c = <<>>
Answering(phase, bytes) == srv \in {phase, "down"} /\ req = job /\ c2s = <<>> /\ s2c = bytes
Dead == srv = "down" /\ Quiet

Count == [kind |-> "count", len |-> 3]
List == [kind |-> "list"]
No == [kind |-> "NO"]
Length == Size(Len(Content))

Unopened == job.name \notin Name \/ fdFree = 0

\* The bytes of a file that a command asks for, after the first and up to the last.
First == FirstByte(job)
Last == IF job.op = "GETFILE" THEN Len(Content) ELSE job.last
PartOfFile ==
    job.op = "GETFILEPART" =>
        /\ job.first < job.last /\ job.last <= Len(Content)
        /\ job.first # 0 => job.last = Len(Content)
Sending ==
    /\ req = job /\ c2s = <<>> /\ job.name \in Name /\ PartOfFile
    /\ \/ srv = "file"
       \/ srv = "read" /\ off = Last
       \/ srv = "down" /\ First <= off /\ off <= Last
UpTo(n) == SubSeq(Content, First + 1, n)

PromptTalk == Quiet /\ (Ready \/ srv = "down")
PongTalk ==
    /\ job.op = "PING"
    /\ Asked \/ Dead \/ Answering("pong", <<>>) \/ Answering("read", Text(Pong))
CountTalk ==
    /\ job.op = "FILELIST"
    /\ \/ Asked \/ Dead
       \/ Answering("count", <<>>)
       \/ Answering("list", Text(Count))
       \/ Answering("read", Text(Count) \o Text(List))
ListTalk ==
    /\ job.op = "FILELIST"
    /\ Dead \/ Answering("list", <<>>) \/ Answering("read", Text(List))
LengthTalk ==
    /\ job.op = "GETFILESIZE" /\ job.name \in Name
    /\ \/ Dead
       \/ fdFree > 0 /\ (Asked \/ Answering("length", <<>>))
       \/ Answering("read", Text(Length))
SizeTalk ==
    /\ job.op = "GETFILE"
    /\ \/ Asked \/ Dead
       \/ Answering("open", <<>>)
       \/ Unopened /\ (Answering("no", <<>>) \/ Answering("read", Text(No)))
       \/ Answering("size", <<>>)
       \/ Sending /\ s2c = Text(Length) \o UpTo(off)

\* got is what has been saved of the file.
CopyTalk(got) ==
    /\ job.op \in {"GETFILE", "GETFILEPART"}
    /\ \/ Dead /\ got = <<>>
       \/ /\ job.op = "GETFILEPART" /\ job.name \in Name /\ fdFree > 0 /\ PartOfFile
          /\ expect = Last - First /\ got = <<>>
          /\ Asked \/ Answering("open", <<>>)
       \/ /\ job.op = "GETFILE" /\ Unopened
          /\ expect = 0 /\ got = <<>> /\ Answering("read", <<>>)
       \/ Sending /\ expect = Last - First /\ got \o s2c = UpTo(off)

Talk ==
    /\ cli = "connect" => typed = 0
    /\ cli \in {"connect", "prompt"} => PromptTalk
    /\ cli = "pong" => PongTalk
    /\ cli = "count" => CountTalk
    /\ cli = "list" => ListTalk
    /\ cli = "length" => LengthTalk
    /\ cli = "size" => SizeTalk
    /\ cli = "open" => CopyTalk(<<>>)
    /\ cli = "copy" => total = Len(saved) /\ CopyTalk(saved)
TalkInv == ~slip => Talk

IInv == TypeOK /\ ServerInv /\ TalkInv /\ OwnAnswer

-----------------------------------------------------------------------------
(* The messages.                                                           *)
LEMMA Messages ==
    /\ Pong \in Message /\ List \in Message /\ No \in Message
    /\ [kind |-> "notFound"] \in Message
    /\ \A n \in {3, 4} : [kind |-> "count", len |-> n] \in Message
    /\ \A n \in Nat : Size(n) \in Message
  BY DEF Message, Pong, List, No, Size

LEMMA Lengths ==
    /\ LenOf(Pong) = 16 /\ LenOf(List) = ListLen /\ LenOf(No) = 2
    /\ \A n \in {3, 4} : LenOf([kind |-> "count", len |-> n]) = n
    /\ \A n \in Nat : LenOf(Size(n)) = 10
  BY DEF LenOf, Pong, List, No, Size

\* A byte of a message.
Sign(m, i) == [msg |-> m, pos |-> i]

LEMMA SignShape ==
    ASSUME NEW m \in Message, NEW i \in 1 .. 199
    PROVE  Sign(m, i) \in Unit /\ Sign(m, i) \notin Byte
  BY ByteAssumption DEF Sign, Unit

LEMMA SignFields ==
    ASSUME NEW m, NEW i PROVE Sign(m, i).msg = m /\ Sign(m, i).pos = i
  BY DEF Sign

LEMMA TextShape ==
    ASSUME NEW m \in Message
    PROVE  /\ LenOf(m) \in Nat /\ 1 <= LenOf(m) /\ LenOf(m) <= 199
           /\ Text(m) \in Seq(Unit) /\ Len(Text(m)) = LenOf(m) /\ Text(m) # <<>>
           /\ \A i \in 1 .. LenOf(m) : Text(m)[i] = Sign(m, i)
  <1> DEFINE n == LenOf(m)
  <1>1. n \in Nat /\ 1 <= n /\ n <= 199
    BY BoundAssumption DEF Message, LenOf
  <1>2. \A i \in 1 .. n : Sign(m, i) \in Unit
    BY <1>1, SignShape
  <1>3. Text(m) = [i \in 1 .. n |-> Sign(m, i)]
    BY DEF Text, Sign
  <1>4. Text(m) \in Seq(Unit) /\ Len(Text(m)) = n /\ \A i \in 1 .. n : Text(m)[i] = Sign(m, i)
    <2> HIDE DEF n
    <2> QED BY <1>1, <1>2, <1>3
  <1>5. Len(Text(m)) # 0
    BY <1>1, <1>4
  <1>6. Text(m) # <<>>
    BY <1>5, EmptySeq
  <1> QED BY <1>1, <1>4, <1>6

(* What has arrived of a message is read whole, up to the limit, and what  *)
(* comes after it is not.                                                  *)
LEMMA Front ==
    ASSUME NEW S, NEW s \in Seq(S), NEW t \in Seq(S), s # <<>>
    PROVE  /\ SubSeq(s \o t, 1, Len(s)) = s
           /\ SubSeq(s \o t, Len(s) + 1, Len(s \o t)) = t
           /\ Len(s \o t) = Len(s) + Len(t)
           /\ \A i \in 1 .. Len(s) : (s \o t)[i] = s[i]
  <1>1. Len(s) \in Nat \ {0} /\ Len(t) \in Nat
    BY EmptySeq, LenProperties
  <1>2. Len(s \o t) = Len(s) + Len(t)
    BY ConcatProperties
  <1>3. \A i \in 1 .. Len(s) : (s \o t)[i] = s[i]
    <2>1. \A i \in 1 .. Len(s) + Len(t) :
              (s \o t)[i] = IF i <= Len(s) THEN s[i] ELSE t[i - Len(s)]
      BY ConcatProperties
    <2> QED BY <1>1, <2>1
  <1>4. SubSeq(s \o t, 1, Len(s)) = s
    <2>1. SubSeq(s \o t, 1, Len(s)) = SubSeq(s, 1, Len(s))
      BY <1>1, SubSeqOfConcat1
    <2> QED BY <2>1, SubSeqFull
  <1>5. SubSeq(s \o t, Len(s) + 1, Len(s \o t)) = t
    <2>1. CASE t = <<>>
      <3>1. Len(t) = 0
        BY <2>1, EmptySeq
      <3> QED BY <1>1, <1>2, <2>1, <3>1, SubSeqEmpty
    <2>2. CASE t # <<>>
      <3>1. Len(t) \in Nat \ {0}
        BY <2>2, EmptySeq
      <3>2. /\ Len(s) + 1 \in Len(s) + 1 .. Len(s) + Len(t)
            /\ Len(s) + Len(t) \in Len(s) + 1 .. Len(s) + Len(t)
            /\ Len(s) + 1 - Len(s) = 1 /\ Len(s) + Len(t) - Len(s) = Len(t)
        BY <1>1, <3>1
      <3>3. SubSeq(s \o t, Len(s) + 1, Len(s) + Len(t))
              = SubSeq(t, Len(s) + 1 - Len(s), Len(s) + Len(t) - Len(s))
        BY <3>2, SubSeqOfConcat2
      <3>4. SubSeq(t, 1, Len(t)) = t
        BY SubSeqFull
      <3> QED BY <1>2, <3>2, <3>3, <3>4
    <2> QED BY <2>1, <2>2
  <1> QED BY <1>2, <1>3, <1>4, <1>5

LEMMA MessageAhead ==
    ASSUME NEW m \in Message, NEW rest \in Seq(Unit)
    PROVE  LET s == Text(m) \o rest
           IN  /\ Len(s) = LenOf(m) + Len(rest) /\ Len(rest) \in Nat /\ s # <<>>
               /\ SubSeq(s, 1, LenOf(m)) = Text(m) /\ SubSeq(s, LenOf(m) + 1, Len(s)) = rest
               /\ \A n \in 1 .. LenOf(m) : s[n] = Sign(m, n)
  <1> DEFINE s == Text(m) \o rest
  <1>1. /\ LenOf(m) \in Nat /\ 1 <= LenOf(m) /\ LenOf(m) <= 199 /\ Text(m) \in Seq(Unit) /\ Len(Text(m)) = LenOf(m)
        /\ \A i \in 1 .. LenOf(m) : Text(m)[i] = Sign(m, i)
        /\ Text(m) # <<>> /\ Len(rest) \in Nat
    BY TextShape, LenProperties
  <1>2. /\ SubSeq(s, 1, Len(Text(m))) = Text(m)
        /\ SubSeq(s, Len(Text(m)) + 1, Len(s)) = rest
        /\ Len(s) = Len(Text(m)) + Len(rest)
        /\ \A i \in 1 .. Len(Text(m)) : s[i] = Text(m)[i]
    BY <1>1, Front
  <1> HIDE DEF s
  <1>3. Len(s) # 0
    BY <1>1, <1>2
  <1> QED BY <1>1, <1>2, <1>3, EmptySeq DEF s

LEMMA ReadsMessage ==
    ASSUME NEW m \in Message, NEW rest \in Seq(Unit), NEW limit \in Nat
    PROVE  /\ s2c = Text(m) \o rest
           /\ limit = LenOf(m) \/ (rest = <<>> /\ limit >= LenOf(m))
           /\ Read(limit)
           => shown' = Text(m) /\ s2c' = rest
  <1>1. LenOf(m) \in Nat /\ 1 <= LenOf(m) /\ LenOf(m) <= 199
    BY TextShape
  <1> DEFINE s == Text(m) \o rest
  <1>2. Len(s) = LenOf(m) + Len(rest) /\ Len(rest) \in Nat
    BY MessageAhead
  <1>7. SubSeq(s, 1, LenOf(m)) = Text(m) /\ SubSeq(s, LenOf(m) + 1, Len(s)) = rest /\ s # <<>>
    BY MessageAhead
  <1>8. \A n \in 1 .. LenOf(m) : s[n] = Sign(m, n)
    BY MessageAhead
  <1> HIDE DEF s
  <1>3. rest = <<>> => Len(rest) = 0
    BY EmptySeq
  <1>4. limit = LenOf(m) \/ (rest = <<>> /\ limit >= LenOf(m)) => Min2(limit, Len(s)) = LenOf(m)
    BY <1>1, <1>2, <1>3 DEF Min2
  <1>5. s2c = s /\ Min2(limit, Len(s)) = LenOf(m) => \A n \in Arrived(limit) : n = LenOf(m)
    <2> SUFFICES ASSUME s2c = s, Min2(limit, Len(s)) = LenOf(m), NEW n \in Arrived(limit)
                 PROVE  n = LenOf(m)
      OBVIOUS
    <2>1. n \in 1 .. LenOf(m)
      BY DEF Arrived
    <2>2. n \in 1 .. 199
      BY <1>1, <2>1
    <2>3. s[n] = Sign(m, n)
      BY <1>8, <2>1
    <2>4. s[n].msg = m /\ s[n].pos = n
      <3>1. Sign(m, n).msg = m /\ Sign(m, n).pos = n
        BY SignFields
      <3> QED BY <2>3, <3>1
    <2>5. s[n] \notin Byte
      BY <2>2, <2>3, SignShape
    <2>6. n = LenOf(m) \/ s[n] \in Byte \/ s[n].pos = LenOf(s[n].msg)
      BY DEF Arrived
    <2> QED BY <2>4, <2>5, <2>6, Zenon
  <1>6. /\ s2c = s /\ (\A n \in Arrived(limit) : n = LenOf(m)) /\ Read(limit)
        => shown' = Text(m) /\ s2c' = rest
    BY <1>7 DEF Read, Eof
  <1> QED BY <1>4, <1>5, <1>6 DEF s

(* Bytes taken from the front of a stream.                                 *)
LEMMA Splitting ==
    ASSUME NEW S, NEW s \in Seq(S), NEW n \in 1 .. Len(s)
    PROVE  /\ SubSeq(s, 1, n) \in Seq(S) /\ Len(SubSeq(s, 1, n)) = n
           /\ SubSeq(s, n + 1, Len(s)) \in Seq(S)
           /\ Len(SubSeq(s, n + 1, Len(s))) = Len(s) - n
           /\ SubSeq(s, 1, n) \o SubSeq(s, n + 1, Len(s)) = s
  <1>1. Len(s) \in Nat /\ \A i \in 1 .. Len(s) : s[i] \in S
    BY LenProperties, ElementOfSeq
  <1>2. SubSeq(s, 1, n) \in Seq(S) /\ Len(SubSeq(s, 1, n)) = n
    BY <1>1, SubSeqProperties
  <1>3. /\ SubSeq(s, n + 1, Len(s)) \in Seq(S)
        /\ Len(SubSeq(s, n + 1, Len(s))) = Len(s) - n
    BY <1>1, SubSeqProperties
  <1>4. SubSeq(s, 1, n) \o SubSeq(s, n + 1, Len(s)) = SubSeq(s, 1, Len(s))
    BY <1>1, ConcatAdjacentSubSeq
  <1>5. SubSeq(s, 1, Len(s)) = s
    BY SubSeqFull
  <1> QED BY <1>2, <1>3, <1>4, <1>5

-----------------------------------------------------------------------------
(* The commands, and the file that one of them names.                      *)
LEMMA CommandShape ==
    ASSUME NEW r \in Commands \cup {Ping}
    PROVE  /\ r.op \in {"PING", "FILELIST", "GETFILE", "GETFILESIZE", "GETFILEPART"}
           /\ r.op \in {"GETFILE", "GETFILESIZE", "GETFILEPART"} => r.name \in Name \cup {Absent}
           /\ r.op = "GETFILEPART" => r.first \in Nat /\ r.last \in Nat
  BY CommandAssumption DEF Command, Ping

LEMMA FileShape ==
    ASSUME NEW r \in Commands \cup {Ping}, r.op \in {"GETFILE", "GETFILEPART"}, r.name \in Name
    PROVE  /\ Source[r.name] \in Seq(Byte) /\ Len(Source[r.name]) \in Nat
           /\ FirstByte(r) \in Nat /\ Bytes(r) \in Nat
           /\ r.op = "GETFILE" => FirstByte(r) = 0 /\ Bytes(r) = Len(Source[r.name])
           /\ r.op = "GETFILEPART" =>
                FirstByte(r) = r.first /\ (r.last # 0 => Bytes(r) = r.last)
  <1>1. Source[r.name] \in Seq(Byte)
    BY SourceAssumption
  <1>2. Len(Source[r.name]) \in Nat
    BY <1>1, LenProperties
  <1> QED BY <1>1, <1>2, CommandShape DEF FirstByte, Bytes

(* What a read of the file returns is the bytes at its offset, never more  *)
(* than are to be sent; nothing once all are sent or the file is at its end. *)
LEMMA ChunkShape ==
    ASSUME TypeOK, ServerInv, srv = "file"
    PROVE  LET file == Source[req.name]
           IN  /\ Chunk \in Seq(Byte) /\ Len(Chunk) \in Nat
               /\ off + Len(Chunk) <= Len(file) /\ sent + Len(Chunk) <= Bytes(req)
               /\ Chunk = SubSeq(file, off + 1, off + Len(Chunk))
               /\ Chunk = <<>> => off = Len(file) \/ sent = Bytes(req)
  <1> DEFINE file == Source[req.name]
             n == Min2(Bytes(req) - sent, BUFFERSIZE)
             end == Min2(off + n, Len(file))
  <1>1. /\ file \in Seq(Byte) /\ Len(file) \in Nat /\ Bytes(req) \in Nat
        /\ off \in 0 .. Len(file) /\ sent \in Nat /\ sent <= Bytes(req)
    BY FileShape DEF TypeOK, ServerInv
  <1>2. n \in Nat /\ n <= Bytes(req) - sent /\ (n = 0 => sent = Bytes(req))
    BY <1>1, BoundAssumption DEF Min2
  <1>3. Chunk = SubSeq(file, off + 1, end)
    BY DEF Chunk
  <1> HIDE DEF n, file
  <1>4. /\ end \in Nat /\ off <= end /\ end <= Len(file) /\ end <= off + n
        /\ end = off => n = 0 \/ off = Len(file)
    BY <1>1, <1>2 DEF Min2
  <1> HIDE DEF end
  <1>5. \A i \in off + 1 .. end : file[i] \in Byte
    BY <1>1, <1>4, ElementOfSeq
  <1>6. Chunk \in Seq(Byte) /\ Len(Chunk) = end - off
    BY <1>1, <1>3, <1>4, <1>5, SubSeqProperties
  <1>7. Chunk = <<>> => end = off
    BY <1>1, <1>4, <1>6, EmptySeq
  <1>8. off + Len(Chunk) = end
    BY <1>1, <1>4, <1>6
  <1>9. Chunk = SubSeq(file, off + 1, off + Len(Chunk)) /\ Chunk \in Seq(Byte) /\ Len(Chunk) \in Nat
    BY <1>3, <1>6, <1>8, LenProperties
  <1>10. off + Len(Chunk) <= Len(file) /\ sent + Len(Chunk) <= Bytes(req)
    BY <1>1, <1>2, <1>4, <1>8
  <1>11. Chunk = <<>> => off = Len(file) \/ sent = Bytes(req)
    BY <1>2, <1>4, <1>7
  <1> QED BY <1>9, <1>10, <1>11 DEF file

LEMMA Reading ==
    ASSUME s2c \in Seq(Unit), NEW limit \in Nat, Read(limit)
    PROVE  shown' \in Seq(Unit) /\ s2c' \in Seq(Unit)
  <1>1. CASE Eof /\ shown' = <<>> /\ s2c' = s2c
    BY <1>1, EmptySeq
  <1>2. ASSUME NEW n \in Arrived(limit),
               shown' = SubSeq(s2c, 1, n), s2c' = SubSeq(s2c, n + 1, Len(s2c))
        PROVE  shown' \in Seq(Unit) /\ s2c' \in Seq(Unit)
    <2>1. n \in 1 .. Len(s2c)
      BY <1>2, LenProperties DEF Arrived, Min2
    <2> QED BY <1>2, <2>1, Splitting
  <1> QED BY <1>1, <1>2 DEF Read

LEMMA Sizes ==
    ASSUME NEW bytes \in Seq(Unit)
    PROVE  Atoi(bytes) \subseteq Nat
  <1>1. CASE bytes = <<>> \/ bytes[1] \in Byte
    BY <1>1, BoundAssumption DEF Atoi
  <1>2. CASE bytes # <<>> /\ bytes[1] \notin Byte
    <2>1. Len(bytes) \in Nat \ {0}
      BY <1>2, EmptySeq
    <2>2. bytes[1] \in Unit
      BY <2>1, ElementOfSeq
    <2>3. bytes[1].msg \in Message
      BY <1>2, <2>2 DEF Unit
    <2>4. bytes[1].msg.kind = "size" => bytes[1].msg.value \in Nat
      BY <2>3 DEF Message
    <2> DEFINE m == bytes[1].msg
    <2>5. Atoi(bytes) = IF m.kind = "size" /\ bytes[1].pos = 1 THEN {m.value}
                        ELSE IF m.kind \in {"size", "count"} THEN 0 .. MaxGuess ELSE {0}
      BY <1>2 DEF Atoi
    <2> HIDE DEF m
    <2>6. m.kind = "size" => m.value \in Nat
      BY <2>4 DEF m
    <2>7. /\ m.kind = "size" /\ bytes[1].pos = 1 => {m.value} \subseteq Nat
          /\ 0 .. MaxGuess \subseteq Nat /\ {0} \subseteq Nat
      BY <2>6, BoundAssumption
    <2>8. CASE m.kind = "size" /\ bytes[1].pos = 1
      BY <2>5, <2>7, <2>8
    <2>9. CASE ~(m.kind = "size" /\ bytes[1].pos = 1)
      BY <2>5, <2>7, <2>9
    <2> QED BY <2>8, <2>9
  <1> QED BY <1>1, <1>2

-----------------------------------------------------------------------------
(* Whatever ends the server, it ends in the same way.                      *)
LEMMA Endings ==
    AcceptFails \/ BrokenPipe \/ KillServer \/ CrashAtEof \/ CrashInReaddir => Ends
  BY DEF AcceptFails, BrokenPipe, KillServer, CrashAtEof, CrashInReaddir

-----------------------------------------------------------------------------
(* Types, and what the server is at.                                       *)
LEMMA Replying ==
    ASSUME s2c \in Seq(Unit), NEW bytes \in Seq(Unit), Reply(bytes)
    PROVE  /\ s2c' \in Seq(Unit)
           /\ cli \notin Gone => s2c' = s2c \o bytes
  <1>1. s2c \o bytes \in Seq(Unit)
    BY ConcatProperties
  <1> QED BY <1>1 DEF Reply

LEMMA ByteUnits == ASSUME NEW s \in Seq(Byte) PROVE s \in Seq(Unit)
  BY SeqMonotonic DEF Unit

LEMMA InitTypes == Init => TypeOK /\ ServerInv
  <1> SUFFICES ASSUME Init PROVE TypeOK /\ ServerInv
    OBVIOUS
  <1>1. <<>> \in Seq(Unit) /\ <<>> \in Seq(Commands) /\ 0 \in 0 .. MaxCommands
    BY EmptySeq, BoundAssumption
  <1>2. /\ shown \in Seq(Unit) /\ saved \in Seq(Unit) /\ s2c \in Seq(Unit)
        /\ c2s \in Seq(Commands) /\ typed \in 0 .. MaxCommands
    BY <1>1 DEF Init
  <1>3. /\ srv \in SrvPhase /\ cli \in CliPhase /\ req \in Commands \cup {Ping}
        /\ job \in Commands \cup {Ping} /\ slip \in BOOLEAN /\ fdFree \in 0 .. MaxFds
    BY DEF Init, SrvPhase, CliPhase
  <1>4. off \in Nat /\ sent \in Nat /\ expect \in Int /\ total \in Nat
    BY DEF Init
  <1> QED BY <1>2, <1>3, <1>4 DEF Init, TypeOK, ServerInv

LEMMA ServerTypes ==
    ASSUME TypeOK, ServerInv, Server \/ Ends
    PROVE  TypeOK'
  <1>0. /\ req \in Commands \cup {Ping} /\ off \in Nat /\ sent \in Nat
        /\ fdFree \in 0 .. MaxFds /\ MaxFds \in Nat /\ s2c \in Seq(Unit) /\ c2s \in Seq(Commands)
    BY BoundAssumption DEF TypeOK
  <1> USE DEF TypeOK, SrvGoto, SrvPhase, cliVars
  <1>1. CASE Accept \/ EndOfFile
    BY <1>1 DEF Accept, EndOfFile
  <1>11. CASE Ends \/ CrashAtEof \/ CrashInReaddir
    <2>1. <<>> \in Seq(Commands) /\ Ends
      BY <1>11, EmptySeq, Endings
    <2> QED BY <2>1 DEF Ends
  <1>2. CASE ReadCommand
    <2>1. PICK n \in 1 .. Len(c2s) : c2s' = SubSeq(c2s, n + 1, Len(c2s))
      BY <1>2 DEF ReadCommand
    <2>2. Len(c2s) # 0
      BY <1>0, <2>1, LenProperties
    <2>3. c2s # <<>>
      BY <2>2, EmptySeq
    <2>4. c2s' \in Seq(Commands) /\ Head(c2s) \in Commands
      BY <1>0, <2>1, <2>3, Splitting, HeadTailProperties
    <2> QED BY <1>2, <2>4 DEF ReadCommand
  <1>3. CASE SendPong
    <2>1. s2c' \in Seq(Unit)
      BY <1>0, <1>3, Messages, TextShape, Replying DEF SendPong
    <2> QED BY <1>3, <2>1 DEF SendPong
  <1>4. CASE SendCount
    <2>1. PICK n \in {3, 4} : Reply(Text([kind |-> "count", len |-> n])) /\ slip' \in BOOLEAN
      BY <1>4, BoundAssumption DEF SendCount
    <2>2. s2c' \in Seq(Unit)
      BY <1>0, <2>1, Messages, TextShape, Replying
    <2> QED BY <1>4, <2>1, <2>2 DEF SendCount
  <1>5. CASE SendList
    <2>1. s2c' \in Seq(Unit)
      BY <1>0, <1>5, Messages, TextShape, Replying DEF SendList, List
    <2> QED BY <1>5, <2>1 DEF SendList
  <1>6. CASE OpenFile
    <2>1. req.op \in {"GETFILE", "GETFILEPART"}
      BY <1>6 DEF OpenFile, ServerInv
    <2>2. CASE CanOpen(req.name)
      <3>1. req.name \in Name /\ fdFree > 0
        BY <2>2 DEF CanOpen
      <3>2. Min2(FirstByte(req), Len(Source[req.name])) \in Nat
        BY <1>0, <2>1, <3>1, FileShape DEF Min2
      <3> QED BY <1>0, <1>6, <2>2, <3>1, <3>2 DEF OpenFile
    <2>3. CASE ~CanOpen(req.name)
      BY <1>6, <2>3 DEF OpenFile
    <2> QED BY <2>2, <2>3
  <1>7. CASE SendNo
    <2>1. s2c' \in Seq(Unit)
      BY <1>0, <1>7, Messages, TextShape, Replying DEF SendNo, No
    <2> QED BY <1>7, <2>1 DEF SendNo
  <1>8. CASE SendSize
    <2>1. Len(Source[req.name]) \in Nat
      BY <1>0, <1>8, FileShape DEF SendSize, ServerInv
    <2>2. s2c' \in Seq(Unit)
      BY <1>0, <1>8, <2>1, Messages, TextShape, Replying DEF SendSize
    <2> QED BY <1>8, <2>2 DEF SendSize
  <1>9. CASE SendChunk
    <2>1. srv = "file" /\ Reply(Chunk) /\ off' = off + Len(Chunk) /\ sent' = sent + Len(Chunk)
      BY <1>9 DEF SendChunk
    <2>2. Chunk \in Seq(Unit) /\ Len(Chunk) \in Nat
      BY <2>1, ChunkShape, ByteUnits
    <2>3. s2c' \in Seq(Unit)
      BY <1>0, <2>1, <2>2, Replying
    <2> QED BY <1>0, <1>9, <2>1, <2>2, <2>3 DEF SendChunk
  <1>10. CASE AnswerLength
    <2>1. CASE CanOpen(req.name)
      <3>1. Source[req.name] \in Seq(Byte) /\ fdFree > 0
        BY <2>1, SourceAssumption DEF CanOpen
      <3>2. Len(Source[req.name]) \in Nat
        BY <3>1, LenProperties
      <3>3. s2c' \in Seq(Unit)
        BY <1>0, <1>10, <2>1, <3>2, Messages, TextShape, Replying DEF AnswerLength
      <3> QED BY <1>0, <1>10, <2>1, <3>1, <3>3 DEF AnswerLength
    <2>2. CASE ~CanOpen(req.name)
      <3>1. s2c' \in Seq(Unit)
        BY <1>0, <1>10, <2>2, Messages, TextShape, Replying DEF AnswerLength
      <3> QED BY <1>10, <2>2, <3>1 DEF AnswerLength
    <2> QED BY <2>1, <2>2
  <1> QED
    BY <1>1, <1>2, <1>3, <1>4, <1>5, <1>6, <1>7, <1>8, <1>9, <1>10, <1>11 DEF Server

LEMMA ClientTypes ==
    ASSUME TypeOK, Connect \/ Client \/ Killed \/ \E cmd \in Commands : Type(cmd)
    PROVE  TypeOK'
  <1>0. /\ s2c \in Seq(Unit) /\ c2s \in Seq(Commands) /\ typed \in 0 .. MaxCommands
        /\ MaxCommands \in Nat /\ saved \in Seq(Unit) /\ total \in Nat /\ expect \in Int
    BY BoundAssumption DEF TypeOK
  <1> USE DEF TypeOK, CliGoto, CliPhase, srvVars
  <1>1. CASE Connect \/ Killed \/ OpenDestFails \/ CopyEnds
    BY <1>1 DEF Connect, Killed, OpenDestFails, CopyEnds
  <1>6. CASE OpenDest
    <2>1. saved' \in Seq(Unit) /\ total' \in Nat
      BY <1>6, EmptySeq DEF OpenDest
    <2> QED BY <1>6, <2>1 DEF OpenDest
  <1>2. ASSUME NEW cmd \in Commands, Type(cmd) PROVE TypeOK'
    <2>1. cmd.op \in {"PING", "FILELIST", "GETFILE", "GETFILESIZE", "GETFILEPART"}
      BY CommandShape
    <2>2. expect' \in Int
      <3>1. cmd.op = "GETFILEPART" => cmd.first \in Nat /\ cmd.last \in Nat
        BY CommandShape
      <3>2. expect' = IF cmd.op = "GETFILEPART" THEN cmd.last - cmd.first ELSE expect
        BY <1>2 DEF Type
      <3> QED BY <1>0, <3>1, <3>2
    <2>3. c2s' \in Seq(Commands)
      BY <1>0, <1>2, AppendProperties DEF Type
    <2>4. typed' \in 0 .. MaxCommands /\ slip' \in BOOLEAN
      BY <1>0, <1>2 DEF Type
    <2>5. cli' \in CliPhase
      BY <1>2, <2>1 DEF Type
    <2> QED BY <1>2, <2>2, <2>3, <2>4, <2>5 DEF Type
  <1>3. CASE ReadPong \/ ReadCount \/ ReadList \/ ReadLength
    <2>1. \E limit \in {3, 10, 200, 255} : Read(limit)
      BY <1>3 DEF ReadPong, ReadCount, ReadList, ReadLength
    <2>2. shown' \in Seq(Unit) /\ s2c' \in Seq(Unit)
      BY <1>0, <2>1, Reading
    <2> QED BY <1>3, <2>2 DEF ReadPong, ReadCount, ReadList, ReadLength
  <1>4. CASE ReadSize
    <2>1. shown' \in Seq(Unit) /\ s2c' \in Seq(Unit)
      BY <1>0, <1>4, Reading DEF ReadSize
    <2>2. expect' \in Nat
      BY <1>4, <2>1, Sizes DEF ReadSize
    <2> QED BY <1>4, <2>1, <2>2 DEF ReadSize
  <1>5. CASE CopyBytes
    <2>1. PICK n \in Arrived(BUFFERSIZE) :
              /\ saved' = saved \o SubSeq(s2c, 1, n)
              /\ total' = total + n
              /\ s2c' = SubSeq(s2c, n + 1, Len(s2c))
      BY <1>5 DEF CopyBytes
    <2>2. n \in 1 .. Len(s2c)
      BY <1>0, BoundAssumption, LenProperties DEF Arrived, Min2
    <2>3. SubSeq(s2c, 1, n) \in Seq(Unit) /\ s2c' \in Seq(Unit)
      BY <1>0, <2>1, <2>2, Splitting
    <2>4. saved' \in Seq(Unit) /\ total' \in Nat
      BY <1>0, <2>1, <2>2, <2>3, ConcatProperties
    <2> QED BY <1>5, <2>3, <2>4 DEF CopyBytes
  <1> QED
    BY <1>1, <1>2, <1>3, <1>4, <1>5, <1>6 DEF Client

LEMMA ServerInvStep ==
    ASSUME TypeOK, ServerInv, Next
    PROVE  ServerInv'
  <1>0. req \in Commands \cup {Ping} /\ off \in Nat /\ sent \in Nat
    BY DEF TypeOK
  <1> USE DEF ServerInv, SrvGoto
  <1>1. CASE Connect \/ Client \/ Killed \/ \E cmd \in Commands : Type(cmd)
    <2>1. UNCHANGED srvVars
      BY <1>1 DEF Connect, Client, Killed, Type, ReadPong, ReadCount, ReadList, ReadLength,
         ReadSize, OpenDest, OpenDestFails, CopyBytes, CopyEnds
    <2> QED BY <2>1 DEF srvVars, FirstByte, Bytes
  <1>2. CASE \/ Accept \/ EndOfFile \/ SendPong \/ SendCount \/ SendList \/ SendNo \/ AnswerLength
             \/ AcceptFails \/ BrokenPipe \/ KillServer \/ CrashAtEof \/ CrashInReaddir
    <2>1. srv' \in {"read", "down", "list"}
      BY <1>2, Endings DEF Accept, EndOfFile, SendPong, SendCount, SendList, SendNo, AnswerLength,
         Ends
    <2> QED BY <2>1
  <1>3. CASE ReadCommand
    <2>1. /\ srv' \in {"pong", "count", "length", "open"}
          /\ srv' = "length" => req'.op = "GETFILESIZE"
          /\ srv' = "open" => req'.op \notin {"PING", "FILELIST", "GETFILESIZE"}
      BY <1>3 DEF ReadCommand
    <2>2. req' \in Commands \cup {Ping}
      BY <1>3, ServerTypes DEF Server, TypeOK
    <2>3. req'.op \in {"PING", "FILELIST", "GETFILE", "GETFILESIZE", "GETFILEPART"}
      BY <2>2, CommandShape
    <2> QED BY <2>1, <2>3
  <1>4. CASE OpenFile
    <2>1. req.op \in {"GETFILE", "GETFILEPART"} /\ req' = req
      BY <1>4 DEF OpenFile
    <2>2. CASE CanOpen(req.name)
      <3>1. /\ req.name \in Name /\ sent' = 0
            /\ off' = Min2(FirstByte(req), Len(Source[req.name]))
            /\ srv' = IF req.op = "GETFILE" THEN "size" ELSE "file"
        BY <1>4, <2>2 DEF CanOpen, OpenFile
      <3>2. FirstByte(req) \in Nat /\ Bytes(req) \in Nat /\ Len(Source[req.name]) \in Nat
        BY <1>0, <2>1, <3>1, FileShape
      <3>3. /\ off' \in 0 .. Len(Source[req.name]) /\ sent' <= Bytes(req)
            /\ off' - sent' = Min2(FirstByte(req), Len(Source[req.name]))
        BY <3>1, <3>2 DEF Min2
      <3>4. FirstByte(req)' = FirstByte(req) /\ Bytes(req)' = Bytes(req)
        BY <2>1 DEF FirstByte, Bytes
      <3> QED BY <2>1, <3>1, <3>3, <3>4
    <2>3. CASE ~CanOpen(req.name)
      BY <1>4, <2>1, <2>3 DEF OpenFile
    <2> QED BY <2>2, <2>3
  <1>5. CASE SendSize
    <2>1. srv = "size" /\ srv' = "file" /\ UNCHANGED <<req, off, sent>>
      BY <1>5 DEF SendSize
    <2> QED BY <2>1 DEF FirstByte, Bytes
  <1>6. CASE SendChunk
    <2>1. /\ srv = "file" /\ off' = off + Len(Chunk) /\ sent' = sent + Len(Chunk)
          /\ srv' = srv /\ req' = req
      BY <1>6 DEF SendChunk
    <2>2. /\ Len(Chunk) \in Nat /\ off + Len(Chunk) <= Len(Source[req.name])
          /\ sent + Len(Chunk) <= Bytes(req)
      BY <2>1, ChunkShape
    <2>3. Len(Source[req.name]) \in Nat
      BY <1>0, <2>1, FileShape
    <2>4. /\ off' \in 0 .. Len(Source[req.name]) /\ sent' <= Bytes(req)
          /\ off' - sent' = off - sent
      BY <1>0, <2>1, <2>2, <2>3
    <2>5. FirstByte(req)' = FirstByte(req) /\ Bytes(req)' = Bytes(req)
      BY <2>1 DEF FirstByte, Bytes
    <2> QED BY <2>1, <2>4, <2>5
  <1> QED
    BY <1>1, <1>2, <1>3, <1>4, <1>5, <1>6 DEF Next, Server

-----------------------------------------------------------------------------
(* The server's side of a command.                                         *)

\* When there is nothing more to send, everything asked for was sent.
LEMMA AllSent ==
    ASSUME TypeOK, ServerInv, srv = "file", Chunk = <<>>
    PROVE  LET size == Len(Source[req.name])
           IN  off = Min2(Min2(FirstByte(req), size) + Bytes(req), size)
  <1> DEFINE size == Len(Source[req.name])
  <1>1. /\ size \in Nat /\ FirstByte(req) \in Nat /\ Bytes(req) \in Nat /\ sent \in Nat
        /\ off \in Nat /\ off <= size /\ sent <= Bytes(req)
        /\ off - sent = Min2(FirstByte(req), size)
    BY FileShape DEF TypeOK, ServerInv
  <1>2. off = size \/ sent = Bytes(req)
    BY ChunkShape
  <1> HIDE DEF size
  <1> QED BY <1>1, <1>2 DEF Min2, size

LEMMA LastSent ==
    ASSUME TypeOK, ServerInv, srv = "file", Chunk = <<>>, req = job, PartOfFile
    PROVE  off = Last
  <1>1. /\ Len(Content) \in Nat /\ FirstByte(job) \in Nat
        /\ off = Min2(Min2(FirstByte(job), Len(Content)) + Bytes(job), Len(Content))
    BY AllSent, FileShape DEF TypeOK, ServerInv, Content
  <1>2. job.op = "GETFILE" => FirstByte(job) = 0 /\ Bytes(job) = Len(Content)
    BY FileShape DEF TypeOK, ServerInv, Content
  <1>3. job.op = "GETFILEPART" =>
            /\ FirstByte(job) = job.first /\ (job.last # 0 => Bytes(job) = job.last)
            /\ job.first \in Nat /\ job.last \in Nat
    BY FileShape, CommandShape DEF TypeOK, ServerInv, Content
  <1>4. job.op \in {"GETFILE", "GETFILEPART"}
    BY DEF ServerInv
  <1> QED BY <1>1, <1>2, <1>3, <1>4 DEF Last, PartOfFile, Min2

LEMMA SameJob ==
    ASSUME job' = job
    PROVE  /\ Content' = Content /\ First' = First /\ Last' = Last /\ Length' = Length
           /\ PartOfFile' <=> PartOfFile
           /\ UpTo(off)' = UpTo(off')
  BY DEF Content, First, Last, Length, PartOfFile, UpTo, FirstByte

\* Who the server is answering, by what it is at.
LEMMA Answered ==
    ASSUME Talk, cli \notin Gone, cli \in CliPhase
    PROVE  /\ srv = "pong" => cli = "pong" /\ Answering("pong", <<>>)
           /\ srv = "count" => cli = "count" /\ Answering("count", <<>>)
           /\ srv = "list" => \/ cli = "count" /\ Answering("list", Text(Count))
                              \/ cli = "list" /\ Answering("list", <<>>)
           /\ srv = "open" => cli \in {"size", "open", "copy"} /\ Answering("open", <<>>)
           /\ srv = "no" => cli = "size" /\ Answering("no", <<>>) /\ Unopened
           /\ srv = "size" => cli = "size" /\ Answering("size", <<>>)
           /\ srv = "length" => /\ cli = "length" /\ Answering("length", <<>>)
                                /\ job.name \in Name /\ fdFree > 0
           /\ srv = "file" /\ Chunk # <<>> => cli \in {"size", "open", "copy"} /\ Sending
           /\ c2s # <<>> => Asked /\ cli \notin {"connect", "prompt", "list"}
  BY DEF Talk, PromptTalk, PongTalk, CountTalk, ListTalk, LengthTalk, SizeTalk, CopyTalk,
         Ready, Quiet, Asked, Answering, Dead, Sending, CliPhase, Gone

LEMMA Regroup ==
    \A a, b, c \in Seq(Unit) : (a \o b) \o c = a \o (b \o c)
  <1> SUFFICES ASSUME NEW S, NEW a \in Seq(S), NEW b \in Seq(S), NEW c \in Seq(S)
               PROVE  (a \o b) \o c = a \o (b \o c)
    OBVIOUS
  <1> QED BY ConcatAssociative

(* The bytes of a file that has been sent so far are some of those asked   *)
(* for, and when all of those are sent the server has no more to send.     *)
LEMMA SentSoFar ==
    ASSUME TypeOK, ServerInv, Sending, job.op \in {"GETFILE", "GETFILEPART"}
    PROVE  /\ First \in Nat /\ Last \in Nat /\ off \in Nat /\ First <= off /\ off <= Last
           /\ UpTo(off) \in Seq(Unit) /\ Len(UpTo(off)) = off - First
           /\ off = Last => Ready \/ srv = "down"
           /\ Last <= Len(Content) /\ Len(Content) \in Nat
           /\ job.op = "GETFILE" => First = 0 /\ Last = Len(Content)
  <1>1. /\ Content \in Seq(Byte) /\ Len(Content) \in Nat /\ Bytes(job) \in Nat /\ First \in Nat
        /\ job.op = "GETFILE" => First = 0 /\ Bytes(job) = Len(Content)
        /\ job.op = "GETFILEPART" => First = job.first /\ (job.last # 0 => Bytes(job) = job.last)
    BY FileShape DEF Sending, TypeOK, Content, First
  <1>2. job.op = "GETFILEPART" => job.first \in Nat /\ job.last \in Nat
    BY CommandShape DEF TypeOK
  <1>3. /\ Last \in Nat /\ First <= Last /\ Last <= Len(Content)
        /\ Last = Bytes(job) \/ job.op = "GETFILEPART"
        /\ First = 0 => Last = Bytes(job)
        /\ First # 0 => Last = Len(Content)
        /\ job.op = "GETFILE" => Last = Len(Content)
    BY <1>1, <1>2 DEF Last, Sending, PartOfFile
  <1>4. srv = "file" => /\ off \in Nat /\ off <= Len(Content) /\ sent \in Nat
                        /\ sent <= Bytes(job) /\ off - sent = Min2(First, Len(Content))
    BY <1>1 DEF ServerInv, Sending, TypeOK, Content, First
  <1>5. off \in Nat /\ First <= off /\ off <= Last
    <2>1. off \in Nat
      BY DEF TypeOK
    <2>2. srv = "file" => First <= off /\ off <= Last
      BY <1>1, <1>2, <1>3, <1>4, <2>1 DEF Min2, Sending, PartOfFile, Last
    <2> QED BY <1>3, <2>1, <2>2 DEF Sending
  <1>6. srv = "file" /\ off = Last => Chunk = <<>>
    <2> SUFFICES ASSUME srv = "file", off = Last PROVE Chunk = <<>>
      OBVIOUS
    <2>1. off = Len(Content) \/ sent = Bytes(job)
      BY <1>1, <1>3, <1>4 DEF Min2
    <2>2. /\ Len(Chunk) \in Nat /\ off + Len(Chunk) <= Len(Content)
          /\ sent + Len(Chunk) <= Bytes(job) /\ Chunk \in Seq(Byte)
      BY ChunkShape DEF Sending, Content
    <2>3. Len(Chunk) = 0
      BY <1>1, <1>4, <2>1, <2>2
    <2> QED BY <2>2, <2>3, EmptySeq
  <1>7. UpTo(off) \in Seq(Unit) /\ Len(UpTo(off)) = off - First
    <2>1. \A i \in First + 1 .. off : Content[i] \in Byte
      BY <1>1, <1>3, <1>5, ElementOfSeq
    <2>2. UpTo(off) \in Seq(Byte) /\ Len(UpTo(off)) = off - First
      BY <1>1, <1>5, <2>1, SubSeqProperties DEF UpTo
    <2> QED BY <2>2, ByteUnits
  <1> QED BY <1>1, <1>3, <1>5, <1>6, <1>7 DEF Sending, Ready

\* What was sent before the end is still there to read.
LEMMA EndTalk ==
    ASSUME TypeOK, ServerInv, TalkInv, Ends
    PROVE  TalkInv'
  <1> SUFFICES ASSUME ~slip' PROVE Talk'
    BY DEF TalkInv
  <1>1. /\ srv' = "down" /\ c2s' = <<>> /\ Talk
        /\ UNCHANGED <<req, off, fdFree, cli, job, expect, total, saved, s2c, typed>>
    BY DEF Ends, TalkInv, SrvGoto, cliVars
  <1>2. /\ Content' = Content /\ First' = First /\ Last' = Last /\ Length' = Length
        /\ PartOfFile' <=> PartOfFile
        /\ UpTo(off)' = UpTo(off)
    BY <1>1, SameJob
  <1>3. (Asked => Dead') /\ (Dead => Dead') /\ (PromptTalk => PromptTalk')
    BY <1>1 DEF Asked, Dead, Quiet, PromptTalk
  <1>4. Unopened' <=> Unopened
    BY <1>1 DEF Unopened
  <1>5. Sending /\ job.op \in {"GETFILE", "GETFILEPART"} => Sending'
    <2> SUFFICES ASSUME Sending, job.op \in {"GETFILE", "GETFILEPART"} PROVE Sending'
      OBVIOUS
    <2>1. First <= off /\ off <= Last
      BY SentSoFar
    <2> QED BY <1>1, <1>2, <2>1 DEF Sending
  <1>6. /\ PongTalk => PongTalk'
        /\ CountTalk => CountTalk'
        /\ ListTalk => ListTalk'
        /\ LengthTalk => LengthTalk'
    BY <1>1, <1>2, <1>3 DEF PongTalk, CountTalk, ListTalk, LengthTalk, Answering
  <1>7. SizeTalk => SizeTalk'
    BY <1>1, <1>2, <1>3, <1>4, <1>5 DEF SizeTalk, Answering
  <1>8. /\ CopyTalk(<<>>) => CopyTalk(<<>>)'
        /\ CopyTalk(saved) => CopyTalk(saved)'
    BY <1>1, <1>2, <1>3, <1>4, <1>5 DEF CopyTalk, Answering
  <1> QED BY <1>1, <1>3, <1>6, <1>7, <1>8 DEF Talk

LEMMA ServerTalk ==
    ASSUME TypeOK, ServerInv, TalkInv, Server
    PROVE  TalkInv'
  <1> SUFFICES ASSUME ~slip', cli \notin Gone PROVE Talk'
    <2>1. UNCHANGED cli
      BY Endings DEF Server, Accept, ReadCommand, SendPong, SendCount, SendList, OpenFile,
         SendNo, SendSize, SendChunk, EndOfFile, AnswerLength, Ends, cliVars
    <2>2. cli \in Gone => Talk'
      BY <2>1 DEF Talk, Gone
    <2> QED BY <2>1, <2>2 DEF TalkInv
  <1>0. /\ UNCHANGED <<cli, job, expect, total, shown, saved, typed>> /\ Talk
        /\ cli \in CliPhase /\ cli \notin Gone /\ s2c \in Seq(Unit) /\ c2s \in Seq(Commands)
    BY Endings DEF TypeOK, TalkInv, Server, Accept, ReadCommand, SendPong, SendCount, SendList,
       OpenFile, SendNo, SendSize, SendChunk, EndOfFile, AnswerLength, Ends, cliVars
  <1>same. /\ Content' = Content /\ First' = First /\ Last' = Last /\ Length' = Length
           /\ PartOfFile' <=> PartOfFile
           /\ UpTo(off)' = UpTo(off')
    BY <1>0, SameJob
  <1>ans. /\ srv = "pong" => cli = "pong" /\ Answering("pong", <<>>)
          /\ srv = "count" => cli = "count" /\ Answering("count", <<>>)
          /\ srv = "list" => \/ cli = "count" /\ Answering("list", Text(Count))
                             \/ cli = "list" /\ Answering("list", <<>>)
          /\ srv = "open" => cli \in {"size", "open", "copy"} /\ Answering("open", <<>>)
          /\ srv = "no" => cli = "size" /\ Answering("no", <<>>) /\ Unopened
          /\ srv = "size" => cli = "size" /\ Answering("size", <<>>)
          /\ srv = "length" => /\ cli = "length" /\ Answering("length", <<>>)
                               /\ job.name \in Name /\ fdFree > 0
          /\ srv = "file" /\ Chunk # <<>> => cli \in {"size", "open", "copy"} /\ Sending
          /\ c2s # <<>> => Asked /\ cli \notin {"connect", "prompt", "list"}
    BY <1>0, Answered
  <1>empty. ASSUME NEW m \in Message PROVE <<>> \o Text(m) = Text(m)
    BY TextShape, ConcatEmptySeq
  <1> USE DEF SrvGoto
  <1>1. CASE Accept
    <2>1. srv = "accept" /\ srv' = "read" /\ UNCHANGED <<req, off, sent, fdFree, c2s, s2c>>
      BY <1>1 DEF Accept
    <2> QED
      BY <1>0, <1>same, <2>1 DEF Talk, PromptTalk, PongTalk, CountTalk, ListTalk, LengthTalk,
         SizeTalk, CopyTalk, Ready, Quiet, Asked, Answering, Dead, Sending
  <1>2. CASE ReadCommand
    <2>1. PICK n \in 1 .. Len(c2s) : c2s' = SubSeq(c2s, n + 1, Len(c2s))
      BY <1>2 DEF ReadCommand
    <2>2. Len(c2s) # 0
      BY <1>0, <2>1, LenProperties
    <2>3. c2s = <<job>> /\ s2c = <<>> /\ cli \notin {"connect", "prompt", "list"}
      BY <1>ans, <2>2, EmptySeq DEF Asked
    <2>4. c2s' = <<>> /\ Head(c2s) = job
      BY <2>1, <2>3
    <2>5. /\ UNCHANGED <<fdFree, s2c>> /\ req' = job
          /\ job.op = "PING" => srv' = "pong"
          /\ job.op = "FILELIST" => srv' = "count"
          /\ job.op = "GETFILESIZE" => srv' = "length"
          /\ job.op \in {"GETFILE", "GETFILEPART"} => srv' = "open"
      BY <1>2, <2>4 DEF ReadCommand
    <2>6. Asked
      BY <1>ans, <2>2, EmptySeq
    <2> QED
      BY <1>0, <1>same, <2>3, <2>4, <2>5, <2>6 DEF Talk, PongTalk, CountTalk, LengthTalk,
         SizeTalk, CopyTalk, Asked, Ready, Answering, Dead, Quiet, Sending, CliPhase
  <1>3. CASE CrashAtEof \/ CrashInReaddir
    BY <1>0, <1>3, Endings, EndTalk DEF TalkInv
  <1>4. CASE SendPong
    <2>1. cli = "pong" /\ req = job /\ c2s = <<>> /\ s2c = <<>>
      BY <1>4, <1>ans DEF SendPong, Answering
    <2>2. s2c' = Text(Pong) /\ srv' = "read" /\ UNCHANGED <<req, c2s>>
      BY <1>0, <1>4, <1>empty, <2>1, Messages DEF SendPong, Reply
    <2> QED
      BY <1>0, <2>1, <2>2 DEF Talk, PongTalk, Answering
  <1>5. CASE SendCount
    <2>1. cli = "count" /\ req = job /\ c2s = <<>> /\ s2c = <<>>
      BY <1>5, <1>ans DEF SendCount, Answering
    <2>2. Reply(Text(Count)) /\ srv' = "list" /\ UNCHANGED <<req, c2s>>
      BY <1>5 DEF SendCount, Count
    <2>3. s2c' = Text(Count)
      BY <1>0, <1>empty, <2>1, <2>2, Messages DEF Reply, Count
    <2> QED
      BY <1>0, <2>1, <2>2, <2>3 DEF Talk, CountTalk, Answering
  <1>6. CASE SendList
    <2>1. UNCHANGED <<req, c2s>> /\ req = job /\ c2s = <<>> /\ job.op = "FILELIST"
      BY <1>0, <1>6, <1>ans DEF SendList, Answering, Talk, CountTalk, ListTalk
    <2>2. srv' = "read" /\ s2c' = s2c \o Text(List)
      BY <1>0, <1>6 DEF SendList, Reply, List
    <2>3. \/ cli = "count" /\ s2c = Text(Count)
          \/ cli = "list" /\ s2c = <<>>
      BY <1>6, <1>ans DEF SendList, Answering
    <2> QED
      BY <1>0, <1>empty, <2>1, <2>2, <2>3, Messages
         DEF Talk, CountTalk, ListTalk, Answering, Dead, Quiet
  <1>7. CASE OpenFile
    <2>1. /\ cli \in {"size", "open", "copy"} /\ req = job /\ c2s = <<>> /\ s2c = <<>>
          /\ UNCHANGED <<req, c2s, s2c>>
      BY <1>7, <1>ans DEF OpenFile, Answering
    <2>2. CASE CanOpen(job.name)
      <3>1. /\ job.name \in Name /\ sent' = 0
            /\ off' = Min2(First, Len(Content))
            /\ srv' = IF job.op = "GETFILE" THEN "size" ELSE "file"
        BY <1>7, <2>1, <2>2 DEF CanOpen, OpenFile, First, Content
      <3>2. CASE cli = "size"
        BY <1>0, <2>1, <3>1, <3>2 DEF Talk, SizeTalk, Answering
      <3>3. CASE cli \in {"open", "copy"}
        <4> DEFINE got == IF cli = "open" THEN <<>> ELSE saved
        <4>1. /\ job.op = "GETFILEPART" /\ PartOfFile /\ expect = Last - First /\ got = <<>>
              /\ cli = "copy" => total = Len(saved)
          BY <1>0, <1>7, <2>1, <3>3 DEF Talk, CopyTalk, Answering, Dead, Sending, OpenFile
        <4>2. First = job.first /\ job.first < job.last /\ job.last <= Len(Content)
              /\ job.first \in Nat /\ job.last \in Nat /\ Len(Content) \in Nat
          BY <1>0, <3>1, <4>1, CommandShape, FileShape
             DEF PartOfFile, First, FirstByte, TypeOK, Content
        <4>3. off' = First
          BY <3>1, <4>2 DEF Min2
        <4>4. UpTo(off') = <<>>
          BY <4>2, <4>3, SubSeqEmpty DEF UpTo
        <4>5. got' = <<>> /\ got' \o s2c' = UpTo(off')
          BY <1>0, <2>1, <4>1, <4>4, EmptySeq, ConcatEmptySeq
        <4>6. Sending'
          BY <1>0, <1>same, <2>1, <3>1, <4>1 DEF Sending
        <4> QED
          BY <1>0, <1>same, <3>3, <4>1, <4>5, <4>6 DEF Talk, CopyTalk
      <3> QED BY <2>1, <3>2, <3>3
    <2>3. CASE ~CanOpen(job.name)
      <3>1. srv' = "no" /\ fdFree' = fdFree
        BY <1>7, <2>1, <2>3 DEF OpenFile
      <3>2. Unopened /\ Unopened'
        BY <1>0, <2>3, <3>1 DEF CanOpen, Unopened, TypeOK
      <3>3. cli = "size" /\ job.op = "GETFILE"
        BY <1>0, <1>7, <2>1, <3>2 DEF OpenFile, Talk, SizeTalk, CopyTalk, Answering, Dead, Sending,
           Unopened
      <3> QED BY <1>0, <2>1, <3>1, <3>2, <3>3 DEF Talk, SizeTalk, Answering
    <2> QED BY <2>2, <2>3
  <1>8. CASE SendNo
    <2>1. cli = "size" /\ req = job /\ c2s = <<>> /\ s2c = <<>> /\ Unopened
      BY <1>8, <1>ans DEF SendNo, Answering
    <2>2. Reply(Text(No)) /\ srv' = "read" /\ UNCHANGED <<req, c2s, fdFree>>
      BY <1>8 DEF SendNo, No
    <2>3. s2c' = Text(No) /\ Unopened'
      BY <1>0, <1>empty, <2>1, <2>2, Messages DEF Reply, Unopened
    <2> QED
      BY <1>0, <2>1, <2>2, <2>3 DEF Talk, SizeTalk, Answering
  <1>9. CASE SendSize
    <2>1. /\ cli = "size" /\ req = job /\ c2s = <<>> /\ s2c = <<>> /\ sent = 0
          /\ job.op = "GETFILE" /\ job.name \in Name
      BY <1>9, <1>ans DEF SendSize, Answering, ServerInv
    <2>2. Reply(Text(Length)) /\ srv' = "file" /\ UNCHANGED <<req, off, c2s>>
      BY <1>9, <2>1 DEF SendSize, Length, Content
    <2>3. off = 0 /\ First = 0 /\ Length \in Message
      BY <1>9, <2>1, FileShape, Messages
         DEF SendSize, ServerInv, TypeOK, Min2, First, Length, Content
    <2>4. UpTo(off') = <<>>
      BY <2>2, <2>3, SubSeqEmpty DEF UpTo
    <2>5. s2c' = Text(Length) \o UpTo(off')
      BY <1>0, <1>empty, <2>1, <2>2, <2>3, <2>4, TextShape, ConcatEmptySeq DEF Reply
    <2>6. Sending'
      BY <1>0, <1>same, <2>1, <2>2 DEF Sending, PartOfFile
    <2> QED
      BY <1>0, <1>same, <2>1, <2>5, <2>6 DEF Talk, SizeTalk
  <1>10. CASE SendChunk
    <2>1. /\ srv = "file" /\ Chunk # <<>> /\ Reply(Chunk) /\ off' = off + Len(Chunk)
          /\ UNCHANGED <<srv, req, c2s, fdFree>>
      BY <1>10 DEF SendChunk
    <2>2. cli \in {"size", "open", "copy"} /\ Sending
      BY <1>ans, <2>1
    <2>3. /\ Content \in Seq(Byte) /\ off + Len(Chunk) <= Len(Content) /\ Len(Content) \in Nat
          /\ Chunk = SubSeq(Content, off + 1, off + Len(Chunk)) /\ Len(Chunk) \in Nat
          /\ Chunk \in Seq(Unit) /\ off \in Nat /\ First \in Nat /\ First <= off
      <3>1. req = job /\ job.op \in {"GETFILE", "GETFILEPART"} /\ job.name \in Name
        BY <2>1, <2>2 DEF Sending, ServerInv
      <3>2. /\ Content \in Seq(Byte) /\ Len(Content) \in Nat /\ First \in Nat
            /\ job.op = "GETFILE" => First = 0
            /\ job.op = "GETFILEPART" => First = job.first
        BY <1>0, <3>1, FileShape DEF Content, First, TypeOK
      <3>3. off - sent = Min2(First, Len(Content)) /\ sent \in Nat /\ off \in Nat
        BY <2>1, <3>1 DEF ServerInv, First, Content, TypeOK
      <3>4. First <= Len(Content)
        BY <2>2, <3>1, <3>2, CommandShape DEF Sending, PartOfFile, TypeOK
      <3>5. First <= off
        BY <3>2, <3>3, <3>4 DEF Min2
      <3> QED BY <2>1, <3>1, <3>2, <3>3, <3>5, ChunkShape, ByteUnits DEF Content
    <2>4. UpTo(off) \o Chunk = UpTo(off') /\ UpTo(off) \in Seq(Unit)
      <3>1. /\ First + 1 \in 1 .. Len(Content) + 1 /\ off \in First + 1 - 1 .. Len(Content)
            /\ off + Len(Chunk) \in off .. Len(Content)
        BY <2>3
      <3>2. UpTo(off) \o SubSeq(Content, off + 1, off + Len(Chunk)) = UpTo(off + Len(Chunk))
        <4> HIDE DEF Chunk
        <4>1. \A n \in off .. Len(Content) :
                SubSeq(Content, First + 1, off) \o SubSeq(Content, off + 1, n)
                  = SubSeq(Content, First + 1, n)
          BY <2>3, <3>1, ConcatAdjacentSubSeq
        <4> QED BY <3>1, <4>1 DEF UpTo
      <3>3. \A i \in First + 1 .. off : Content[i] \in Byte
        BY <2>3, ElementOfSeq
      <3>4. UpTo(off) \in Seq(Byte)
        BY <2>3, <3>3, SubSeqProperties DEF UpTo
      <3> QED BY <2>1, <2>3, <3>2, <3>4, ByteUnits
    <2>5. s2c' = s2c \o Chunk
      BY <1>0, <2>1 DEF Reply
    <2>6. Sending'
      BY <1>0, <1>same, <2>1, <2>2 DEF Sending
    <2>7. Chunk \in Seq(Unit) /\ s2c \in Seq(Unit)
      BY <1>0, <2>3
    <2>8. CASE cli = "size"
      <3>1. job.op = "GETFILE" /\ s2c = Text(Length) \o UpTo(off)
        BY <1>0, <2>1, <2>8 DEF Talk, SizeTalk, Answering, Asked, Ready, Dead
      <3>2. Text(Length) \in Seq(Unit)
        BY <2>3, Messages, TextShape DEF Length
      <3>3. (Text(Length) \o UpTo(off)) \o Chunk = Text(Length) \o (UpTo(off) \o Chunk)
        BY <2>3, <2>4, <3>2, Regroup
      <3>4. s2c' = Text(Length) \o UpTo(off')
        BY <2>4, <2>5, <3>1, <3>3
      <3> QED BY <1>0, <1>same, <2>6, <2>8, <3>1, <3>4 DEF Talk, SizeTalk
    <2>9. CASE cli \in {"open", "copy"}
      <3> DEFINE got == IF cli = "open" THEN <<>> ELSE saved
      <3>1. /\ job.op \in {"GETFILE", "GETFILEPART"}
            /\ expect = Last - First /\ got \o s2c = UpTo(off)
            /\ cli = "copy" => total = Len(saved)
        BY <1>0, <2>1, <2>9 DEF Talk, CopyTalk, Answering, Asked, Ready, Dead
      <3>2. got \in Seq(Unit)
        BY EmptySeq DEF TypeOK
      <3> HIDE DEF got
      <3>3. (got \o s2c) \o Chunk = got \o (s2c \o Chunk)
        BY <2>7, <3>2, Regroup
      <3>4. got \o s2c' = UpTo(off')
        BY <2>4, <2>5, <3>1, <3>3, Zenon
      <3>5. got' = got
        BY <1>0 DEF got
      <3> QED BY <1>0, <1>same, <2>6, <2>9, <3>1, <3>4, <3>5 DEF Talk, CopyTalk, got
    <2> QED BY <2>2, <2>8, <2>9
  <1>11. CASE EndOfFile
    <2>1. /\ srv = "file" /\ Chunk = <<>> /\ srv' = "read"
          /\ UNCHANGED <<req, off, sent, fdFree, c2s, s2c>>
      BY <1>11 DEF EndOfFile
    <2>2. Sending => off = Last
      BY <2>1, LastSent DEF Sending
    <2>3. UpTo(off)' = UpTo(off)
      BY <1>same, <2>1
    <2> QED
      BY <1>0, <1>same, <2>1, <2>2, <2>3 DEF Talk, PromptTalk, PongTalk, CountTalk, ListTalk,
         LengthTalk, SizeTalk, CopyTalk, Ready, Quiet, Asked, Answering, Dead, Sending
  <1>12. CASE AnswerLength
    <2>1. /\ cli = "length" /\ req = job /\ c2s = <<>> /\ s2c = <<>>
          /\ job.name \in Name /\ fdFree > 0
      BY <1>12, <1>ans DEF AnswerLength, Answering
    <2>2. Reply(Text(Length)) /\ srv' = "read" /\ UNCHANGED <<req, c2s>>
      BY <1>12, <2>1 DEF AnswerLength, CanOpen, Length, Content
    <2>3. Length \in Message
      BY <2>1, SourceAssumption, LenProperties, Messages DEF Length, Content
    <2>4. s2c' = Text(Length)
      BY <1>0, <1>empty, <2>1, <2>2, <2>3 DEF Reply
    <2> QED
      BY <1>0, <1>same, <2>1, <2>2, <2>4 DEF Talk, LengthTalk, Answering
  <1> QED
    BY <1>1, <1>2, <1>3, <1>4, <1>5, <1>6, <1>7, <1>8, <1>9, <1>10, <1>11, <1>12 DEF Server

-----------------------------------------------------------------------------
(* The client's steps.                                                     *)

\* A read finds nothing only at the end of the stream.
LEMMA ReadsNothing ==
    ASSUME NEW limit \in Nat
    PROVE  s2c = <<>> /\ Read(limit) => srv = "down" /\ shown' = <<>> /\ s2c' = <<>>
  <1>1. s2c = <<>> => Len(s2c) = 0
    BY EmptySeq
  <1>2. Len(s2c) = 0 => Min2(limit, Len(s2c)) = 0
    BY DEF Min2
  <1>3. s2c = <<>> => Arrived(limit) = {}
    BY <1>1, <1>2 DEF Arrived
  <1> QED BY <1>3 DEF Read, Eof

\* A message that is alone in the stream is read whole.
LEMMA ReadsLast ==
    ASSUME NEW m \in Message, NEW limit \in Nat
    PROVE  s2c = Text(m) /\ limit >= LenOf(m) /\ Read(limit)
           => shown' = Text(m) /\ s2c' = <<>>
  <1>1. Text(m) = Text(m) \o <<>> /\ <<>> \in Seq(Unit)
    BY TextShape, ConcatEmptySeq, EmptySeq
  <1> QED BY <1>1, ReadsMessage

\* What the client makes of the answers to GETFILE.
LEMMA SizesRead ==
    /\ Atoi(Text(No)) = {0}
    /\ \A n \in Nat : Atoi(Text(Size(n))) = {n}
  <1>1. ASSUME NEW m \in Message
        PROVE  /\ Text(m) # <<>> /\ Text(m)[1] \notin Byte
               /\ Text(m)[1].msg = m /\ Text(m)[1].pos = 1
    <2>1. Text(m) # <<>> /\ Text(m)[1] = Sign(m, 1)
      BY TextShape
    <2> QED BY <2>1, SignShape, SignFields
  <1>2. Atoi(Text(No)) = {0}
    <2>1. No \in Message /\ No.kind = "NO"
      BY Messages DEF No
    <2> QED BY <1>1, <2>1 DEF Atoi
  <1>3. ASSUME NEW n \in Nat PROVE Atoi(Text(Size(n))) = {n}
    <2>1. Size(n) \in Message /\ Size(n).kind = "size" /\ Size(n).value = n
      BY Messages DEF Size
    <2> DEFINE t == Text(Size(n))
    <2>2. t # <<>> /\ t[1] \notin Byte /\ t[1].msg = Size(n) /\ t[1].pos = 1
      BY <1>1, <2>1
    <2> HIDE DEF t
    <2>3. t[1].msg.kind = "size" /\ t[1].msg.value = n
      BY <2>1, <2>2
    <2>4. Atoi(t) = {n}
      BY <2>2, <2>3 DEF Atoi
    <2> QED BY <2>4 DEF t
  <1> QED BY <1>2, <1>3

LEMMA PongRead ==
    ASSUME TypeOK, Talk, ReadPong
    PROVE  /\ job.op = "PING" /\ Quiet'
           /\ srv = "down" \/ (srv = "read" /\ shown' = Text(Pong))
  <1>1. PongTalk /\ Read(255) /\ c2s' = c2s
    BY DEF Talk, ReadPong
  <1>2. CASE s2c = <<>>
    BY <1>1, <1>2, ReadsNothing DEF PongTalk, Asked, Dead, Answering, Quiet, Ready
  <1>3. CASE s2c # <<>>
    <2>1. srv \in {"read", "down"} /\ c2s = <<>> /\ s2c = Text(Pong) /\ job.op = "PING"
      BY <1>1, <1>3 DEF PongTalk, Asked, Dead, Answering, Quiet
    <2>2. shown' = Text(Pong) /\ s2c' = <<>>
      BY <1>1, <2>1, ReadsLast, Messages, Lengths
    <2> QED BY <1>1, <2>1, <2>2 DEF Quiet
  <1> QED BY <1>2, <1>3

LEMMA ListRead ==
    ASSUME TypeOK, Talk, ReadList
    PROVE  /\ job.op = "FILELIST" /\ Quiet'
           /\ srv = "down" \/ (srv = "read" /\ shown' = Text(List))
  <1>1. ListTalk /\ Read(200) /\ c2s' = c2s
    BY DEF Talk, ReadList
  <1>2. CASE s2c = <<>>
    BY <1>1, <1>2, ReadsNothing DEF ListTalk, Dead, Answering, Quiet
  <1>3. CASE s2c # <<>>
    <2>1. srv \in {"read", "down"} /\ c2s = <<>> /\ s2c = Text(List) /\ job.op = "FILELIST"
      BY <1>1, <1>3 DEF ListTalk, Dead, Answering, Quiet
    <2>2. shown' = Text(List) /\ s2c' = <<>>
      BY <1>1, <2>1, ReadsLast, Messages, Lengths, BoundAssumption
    <2> QED BY <1>1, <2>1, <2>2 DEF Quiet
  <1> QED BY <1>2, <1>3

LEMMA LengthRead ==
    ASSUME TypeOK, Talk, ReadLength
    PROVE  /\ job.op = "GETFILESIZE" /\ Quiet'
           /\ srv = "down" \/ (srv = "read" /\ shown' = Text(Length))
  <1>1. LengthTalk /\ Read(10) /\ c2s' = c2s
    BY DEF Talk, ReadLength
  <1>2. CASE s2c = <<>>
    BY <1>1, <1>2, ReadsNothing DEF LengthTalk, Asked, Dead, Answering, Quiet, Ready
  <1>3. CASE s2c # <<>>
    <2>1. /\ srv \in {"read", "down"} /\ c2s = <<>> /\ s2c = Text(Length) /\ job.op = "GETFILESIZE"
          /\ job.name \in Name
      BY <1>1, <1>3 DEF LengthTalk, Asked, Dead, Answering, Quiet
    <2>2. Len(Content) \in Nat
      BY <2>1, SourceAssumption, LenProperties DEF Content
    <2>3. shown' = Text(Length) /\ s2c' = <<>>
      BY <1>1, <2>1, <2>2, ReadsLast, Messages, Lengths DEF Length
    <2> QED BY <1>1, <2>1, <2>3 DEF Quiet
  <1> QED BY <1>2, <1>3

\* The copy ends with the bytes asked for, with none of a file not opened, or, without a
\* server, with what it sent.
LEMMA CopyDone ==
    ASSUME TypeOK, ServerInv, Talk, CopyEnds
    PROVE  /\ job.op \in {"GETFILE", "GETFILEPART"} /\ PromptTalk
           /\ \/ saved = <<>> /\ (srv = "down" \/ (job.op = "GETFILE" /\ Unopened))
              \/ /\ job.name \in Name /\ saved = UpTo(off) /\ off \in 0 .. Len(Content)
                 /\ off = Last \/ srv = "down"
                 /\ job.op = "GETFILE" => First = 0 /\ Last = Len(Content)
  <1>1. /\ CopyTalk(saved) /\ total = Len(saved)
        /\ total >= expect \/ (s2c = <<>> /\ srv = "down")
    BY DEF Talk, CopyEnds, Eof
  <1>2. CASE srv = "down" /\ c2s = <<>> /\ s2c = <<>> /\ saved = <<>>
    BY <1>1, <1>2 DEF CopyTalk, Quiet, PromptTalk
  <1>3. CASE /\ job.op = "GETFILEPART" /\ PartOfFile /\ expect = Last - First /\ saved = <<>>
             /\ srv # "down"
    <2>1. total = 0
      BY <1>1, <1>3, EmptySeq
    <2>2. expect > 0
      BY <1>3, CommandShape DEF PartOfFile, First, FirstByte, Last, TypeOK
    <2> QED BY <1>1, <1>3, <2>1, <2>2 DEF TypeOK
  <1>4. CASE job.op = "GETFILE" /\ Unopened /\ saved = <<>> /\ Answering("read", <<>>)
    BY <1>4 DEF PromptTalk, Answering, Quiet, Ready
  <1>5. CASE /\ Sending /\ expect = Last - First /\ saved \o s2c = UpTo(off)
             /\ job.op \in {"GETFILE", "GETFILEPART"}
    <2>1. /\ First \in Nat /\ Last \in Nat /\ off \in Nat /\ First <= off /\ off <= Last
          /\ Len(UpTo(off)) = off - First /\ (off = Last => Ready \/ srv = "down")
          /\ off <= Len(Content) /\ Len(Content) \in Nat
          /\ job.op = "GETFILE" => First = 0 /\ Last = Len(Content)
      BY <1>5, SentSoFar
    <2>2. /\ Len(saved \o s2c) = Len(saved) + Len(s2c)
          /\ Len(saved) \in Nat /\ Len(s2c) \in Nat /\ saved \in Seq(Unit) /\ s2c \in Seq(Unit)
      BY ConcatProperties, LenProperties DEF TypeOK
    <2>3. s2c = <<>> /\ (off = Last \/ srv = "down")
      <3>1. CASE total >= expect
        <4>1. Len(s2c) = 0 /\ off = Last
          BY <1>1, <1>5, <2>1, <2>2, <3>1
        <4> QED BY <2>2, <4>1, EmptySeq
      <3> QED BY <1>1, <3>1
    <2>4. saved = UpTo(off)
      BY <1>5, <2>2, <2>3, ConcatEmptySeq
    <2> QED BY <1>5, <2>1, <2>3, <2>4 DEF PromptTalk, Sending, Quiet
  <1> QED
    BY <1>1, <1>2, <1>3, <1>4, <1>5 DEF CopyTalk, Asked, Ready, Answering, Dead, Quiet

\* The commands that the two sides read alike.
LEMMA TypeTalk ==
    ASSUME TypeOK, Talk, NEW cmd \in Commands, Type(cmd), Agrees(cmd)
    PROVE  Talk'
  <1>1. /\ cli = "prompt" /\ job' = cmd /\ UNCHANGED <<srv, req, off, sent, fdFree, total, saved, s2c>>
        /\ c2s' = IF srv = "down" THEN c2s ELSE Append(c2s, cmd)
        /\ cmd.op = "GETFILEPART" => expect' = cmd.last - cmd.first
    BY DEF Type, srvVars
  <1>2. c2s = <<>> /\ s2c = <<>> /\ (Ready \/ srv = "down")
    BY <1>1 DEF Talk, PromptTalk, Quiet
  <1>3. Chunk' = Chunk /\ (Ready' <=> Ready)
    BY <1>1 DEF Chunk, Bytes, Ready
  <1>4. IF srv = "down" THEN Dead' ELSE Asked'
    BY <1>1, <1>2, <1>3 DEF Dead, Quiet, Asked
  <1>5. cmd.op = "PING" => cli' = "pong" /\ PongTalk'
    BY <1>1, <1>4 DEF Type, CliGoto, PongTalk
  <1>6. cmd.op = "FILELIST" => cli' = "count" /\ CountTalk'
    BY <1>1, <1>4 DEF Type, CliGoto, CountTalk
  <1>7. cmd.op = "GETFILE" => cli' = "size" /\ SizeTalk'
    BY <1>1, <1>4 DEF Type, CliGoto, SizeTalk
  <1>8. cmd.op = "GETFILESIZE" => cli' = "length" /\ LengthTalk'
    BY <1>1, <1>4 DEF Type, CliGoto, LengthTalk, Agrees, CanOpen
  <1>9. cmd.op = "GETFILEPART" => cli' = "open" /\ CopyTalk(<<>>)'
    <2> SUFFICES ASSUME cmd.op = "GETFILEPART" PROVE cli' = "open" /\ CopyTalk(<<>>)'
      OBVIOUS
    <2>1. cmd.name \in Name /\ fdFree > 0 /\ cmd.first \in Nat /\ cmd.last \in Nat
      BY CommandShape DEF Agrees, CanOpen
    <2>2. /\ cmd.first < cmd.last
          /\ cmd.last - cmd.first = Min2(cmd.last, Len(Source[cmd.name]) - cmd.first)
      BY DEF Agrees
    <2>3. Len(Source[cmd.name]) \in Nat
      BY <2>1, SourceAssumption, LenProperties
    <2>4. cmd.last <= Len(Source[cmd.name]) /\ (cmd.first # 0 => cmd.last = Len(Source[cmd.name]))
      BY <2>1, <2>2, <2>3 DEF Min2
    <2>5. PartOfFile' /\ expect' = (Last - First)'
      BY <1>1, <2>2, <2>4 DEF PartOfFile, Content, Last, First, FirstByte
    <2>6. cli' = "open"
      BY DEF Type, CliGoto
    <2> QED BY <1>1, <1>4, <2>1, <2>5, <2>6 DEF CopyTalk
  <1>10. cmd.op \in {"PING", "FILELIST", "GETFILE", "GETFILESIZE", "GETFILEPART"}
    BY CommandShape
  <1> QED BY <1>5, <1>6, <1>7, <1>8, <1>9, <1>10 DEF Talk

\* The steps that leave the server and the commands as they are.
ClientOnly ==
    UNCHANGED <<srv, req, off, sent, fdFree, job, c2s, typed, slip>>

LEMMA Unheard ==
    ASSUME ClientOnly
    PROVE  /\ Content' = Content /\ First' = First /\ Last' = Last /\ Length' = Length
           /\ PartOfFile' <=> PartOfFile
           /\ Chunk' = Chunk /\ (Ready' <=> Ready) /\ (Unopened' <=> Unopened)
           /\ UpTo(off)' = UpTo(off)
           /\ s2c' = s2c => (Asked' <=> Asked) /\ (Dead' <=> Dead)
           /\ Sending' <=> Sending
  BY DEF ClientOnly, Content, First, Last, Length, PartOfFile, Chunk, Ready, Unopened, UpTo,
     FirstByte, Bytes, Asked, Dead, Quiet, Sending

LEMMA CountRead ==
    ASSUME TypeOK, Talk, ReadCount
    PROVE  Talk'
  <1>1. CountTalk /\ Read(3) /\ cli' = "list" /\ ClientOnly
    BY DEF Talk, ReadCount, srvVars, ClientOnly, CliGoto
  <1>2. CASE s2c = <<>>
    <2>1. srv = "down" /\ s2c' = <<>>
      BY <1>1, <1>2, ReadsNothing
    <2> QED
      BY <1>1, <1>2, <2>1 DEF Talk, CountTalk, ListTalk, Asked, Ready, Dead, Answering, Quiet,
         ClientOnly
  <1>3. CASE srv \in {"list", "down"} /\ req = job /\ c2s = <<>> /\ s2c = Text(Count)
    <2>1. s2c' = <<>>
      BY <1>1, <1>3, ReadsLast, Messages, Lengths DEF Count
    <2> QED
      BY <1>1, <1>3, <2>1 DEF Talk, CountTalk, ListTalk, Dead, Answering, Quiet, ClientOnly
  <1>4. CASE srv \in {"read", "down"} /\ req = job /\ c2s = <<>> /\ s2c = Text(Count) \o Text(List)
    <2>1. Text(List) \in Seq(Unit) /\ Count \in Message /\ LenOf(Count) = 3
      BY Messages, Lengths, TextShape DEF Count
    <2>2. s2c' = Text(List)
      BY <1>1, <1>4, <2>1, ReadsMessage
    <2> QED
      BY <1>1, <1>4, <2>2 DEF Talk, CountTalk, ListTalk, Answering, ClientOnly
  <1> QED BY <1>1, <1>2, <1>3, <1>4 DEF CountTalk, Asked, Dead, Answering, Quiet

LEMMA SizeRead ==
    ASSUME TypeOK, ServerInv, Talk, ReadSize
    PROVE  Talk'
  <1>1. SizeTalk /\ Read(10) /\ cli' = "open" /\ ClientOnly /\ expect' \in Atoi(shown')
    BY DEF Talk, ReadSize, srvVars, ClientOnly, CliGoto
  <1>2. CASE s2c = <<>>
    <2>1. srv = "down" /\ s2c' = <<>>
      BY <1>1, <1>2, ReadsNothing
    <2>2. Dead' /\ job'.op = "GETFILE"
      BY <1>1, <1>2, <2>1 DEF SizeTalk, Asked, Ready, Dead, Answering, Quiet, ClientOnly, Sending
    <2> QED BY <1>1, <2>2 DEF Talk, CopyTalk
  <1>3. CASE Unopened /\ Answering("read", Text(No))
    <2>1. s2c' = <<>> /\ shown' = Text(No)
      BY <1>1, <1>3, ReadsLast, Messages, Lengths DEF Answering
    <2>2. expect' = 0
      BY <1>1, <2>1, SizesRead
    <2>3. Answering("read", <<>>)' /\ job'.op = "GETFILE" /\ Unopened'
      BY <1>1, <1>3, <2>1, Unheard DEF SizeTalk, Answering, ClientOnly
    <2> QED BY <1>1, <2>2, <2>3 DEF Talk, CopyTalk
  <1>4. CASE Sending /\ s2c = Text(Length) \o UpTo(off)
    <2>1. job.op = "GETFILE" /\ job.name \in Name
      BY <1>1, <1>4 DEF SizeTalk, Sending
    <2>2. /\ UpTo(off) \in Seq(Unit) /\ First = 0 /\ Last = Len(Content)
      BY <1>4, <2>1, SentSoFar
    <2>3. Len(Content) \in Nat
      BY <2>1, SourceAssumption, LenProperties DEF Content
    <2>4. Length \in Message /\ LenOf(Length) = 10
      BY <2>3, Messages, Lengths DEF Length
    <2>5. s2c' = UpTo(off) /\ shown' = Text(Length)
      BY <1>1, <1>4, <2>2, <2>4, ReadsMessage
    <2>6. expect' = Len(Content)
      BY <1>1, <2>3, <2>5, SizesRead DEF Length
    <2>7. expect' = (Last - First)' /\ Sending' /\ s2c' = UpTo(off)' /\ job'.op = "GETFILE"
      BY <1>1, <1>4, <2>1, <2>2, <2>3, <2>5, <2>6, Unheard DEF ClientOnly
    <2>8. <<>> \o s2c' = UpTo(off)'
      BY <2>2, <2>5, <2>7, ConcatEmptySeq
    <2> QED BY <1>1, <2>7, <2>8 DEF Talk, CopyTalk
  <1> QED BY <1>1, <1>2, <1>3, <1>4 DEF SizeTalk, Asked, Dead, Answering, Quiet

LEMMA CopyStep ==
    ASSUME TypeOK, ServerInv, Talk, CopyBytes
    PROVE  Talk'
  <1>1. /\ cli = "copy" /\ cli' = "copy" /\ CopyTalk(saved) /\ total = Len(saved) /\ ClientOnly
        /\ expect' = expect
    BY DEF Talk, CopyBytes, srvVars, ClientOnly
  <1>2. PICK n \in Arrived(BUFFERSIZE) : /\ saved' = saved \o SubSeq(s2c, 1, n)
                                         /\ total' = total + n
                                         /\ s2c' = SubSeq(s2c, n + 1, Len(s2c))
    BY DEF CopyBytes
  <1>3. s2c \in Seq(Unit) /\ saved \in Seq(Unit) /\ Len(s2c) \in Nat /\ Len(saved) \in Nat
    BY LenProperties DEF TypeOK
  <1>4. n \in 1 .. Len(s2c)
    BY <1>3, BoundAssumption DEF Arrived, Min2
  <1>5. /\ SubSeq(s2c, 1, n) \in Seq(Unit) /\ Len(SubSeq(s2c, 1, n)) = n
        /\ SubSeq(s2c, n + 1, Len(s2c)) \in Seq(Unit)
        /\ SubSeq(s2c, 1, n) \o SubSeq(s2c, n + 1, Len(s2c)) = s2c
    BY <1>3, <1>4, Splitting
  <1>6. s2c # <<>>
    BY <1>3, <1>4, EmptySeq
  <1>7. Sending /\ expect = Last - First /\ saved \o s2c = UpTo(off)
    BY <1>1, <1>6 DEF CopyTalk, Asked, Dead, Answering, Quiet
  <1>8. (saved \o SubSeq(s2c, 1, n)) \o SubSeq(s2c, n + 1, Len(s2c))
          = saved \o (SubSeq(s2c, 1, n) \o SubSeq(s2c, n + 1, Len(s2c)))
    BY <1>3, <1>5, Regroup
  <1>9. saved' \o s2c' = UpTo(off)
    BY <1>2, <1>5, <1>7, <1>8
  <1>10. total' = Len(saved')
    BY <1>1, <1>2, <1>3, <1>5, ConcatProperties
  <1>11. Sending' /\ expect' = (Last - First)' /\ saved' \o s2c' = UpTo(off)' /\ job' = job
    BY <1>1, <1>7, <1>9, Unheard DEF ClientOnly
  <1>12. job'.op \in {"GETFILE", "GETFILEPART"}
    BY <1>1, <1>11 DEF CopyTalk
  <1> QED BY <1>1, <1>10, <1>11, <1>12 DEF Talk, CopyTalk

LEMMA ClientTalk ==
    ASSUME TypeOK, ServerInv, TalkInv,
           Connect \/ Client \/ Killed \/ \E cmd \in Commands : Type(cmd)
    PROVE  TalkInv'
  <1> SUFFICES ASSUME ~slip' PROVE Talk'
    BY DEF TalkInv
  <1>0. Talk
    <2>1. slip => slip'
      BY DEF Connect, Client, Killed, Type, ReadPong, ReadCount, ReadList, ReadSize, OpenDest,
         OpenDestFails, CopyBytes, CopyEnds, ReadLength
    <2> QED BY <2>1 DEF TalkInv
  <1> USE DEF CliGoto
  <1>a. ASSUME PromptTalk', cli' = "prompt" PROVE Talk'
    BY <1>a DEF Talk
  <1>b. ASSUME cli' \in Gone PROVE Talk'
    BY <1>b DEF Talk, Gone
  <1>1. CASE Connect
    <2>1. PromptTalk /\ cli' = "prompt" /\ UNCHANGED <<srv, req, off, sent, c2s, s2c>>
      BY <1>0, <1>1 DEF Connect, Talk, srvVars
    <2>2. PromptTalk'
      BY <2>1 DEF PromptTalk, Quiet, Ready, Chunk, Bytes
    <2> QED BY <1>a, <2>1, <2>2
  <1>2. CASE ReadPong
    <2>1. UNCHANGED srv /\ cli' = "prompt"
      BY <1>2 DEF ReadPong, srvVars
    <2> QED BY <1>0, <1>2, <1>a, <2>1, PongRead DEF PromptTalk, Ready
  <1>3. CASE ReadCount
    BY <1>0, <1>3, CountRead
  <1>4. CASE ReadList
    <2>1. UNCHANGED srv /\ cli' = "prompt"
      BY <1>4 DEF ReadList, srvVars
    <2> QED BY <1>0, <1>4, <1>a, <2>1, ListRead DEF PromptTalk, Ready
  <1>5. CASE ReadLength
    <2>1. UNCHANGED srv /\ cli' = "prompt"
      BY <1>5 DEF ReadLength, srvVars
    <2> QED BY <1>0, <1>5, <1>a, <2>1, LengthRead DEF PromptTalk, Ready
  <1>6. CASE ReadSize
    BY <1>0, <1>6, SizeRead
  <1>7. CASE OpenDest
    <2>1. /\ CopyTalk(<<>>) /\ cli' = "copy" /\ saved' = <<>> /\ total' = 0 /\ ClientOnly
          /\ UNCHANGED <<expect, s2c>>
      BY <1>0, <1>7 DEF OpenDest, Talk, ClientOnly, srvVars
    <2>2. total' = Len(saved')
      BY <2>1, EmptySeq
    <2>3. CopyTalk(saved)'
      BY <2>1, Unheard DEF CopyTalk, Answering, ClientOnly
    <2> QED BY <2>1, <2>2, <2>3 DEF Talk
  <1>8. CASE OpenDestFails
    BY <1>8, <1>b DEF OpenDestFails, Gone
  <1>9. CASE CopyBytes
    BY <1>0, <1>9, CopyStep
  <1>10. CASE CopyEnds
    <2>1. PromptTalk /\ cli' = "prompt" /\ UNCHANGED <<srv, req, off, sent, c2s, s2c>>
      BY <1>0, <1>10, CopyDone DEF CopyEnds, srvVars
    <2>2. PromptTalk'
      BY <2>1 DEF PromptTalk, Quiet, Ready, Chunk, Bytes
    <2> QED BY <1>a, <2>1, <2>2
  <1>11. CASE Killed
    BY <1>11, <1>b DEF Killed, Gone
  <1>12. ASSUME NEW cmd \in Commands, Type(cmd) PROVE Talk'
    BY <1>0, <1>12, TypeTalk DEF Type
  <1> QED
    BY <1>1, <1>2, <1>3, <1>4, <1>5, <1>6, <1>7, <1>8, <1>9, <1>10, <1>11, <1>12 DEF Client

-----------------------------------------------------------------------------
(* What the client has got when it is back at its prompt.                  *)
Got == Beginning /\ (srv # "down" => Answer)

\* What was got stays so, for no descriptor comes back and no server.
LEMMA StillGot ==
    ASSUME TypeOK, Got, UNCHANGED <<job, shown, saved>>, fdFree = 0 => fdFree' = 0,
           srv = "down" => srv' = "down"
    PROVE  Got'
  <1>1. Beginning'
    BY DEF Got, Beginning, FirstByte
  <1>2. Answer => Answer'
    BY DEF Answer
  <1> QED BY <1>1, <1>2 DEF Got

LEMMA AnswerKept ==
    ASSUME TypeOK, OwnAnswer, Server \/ Ends
    PROVE  OwnAnswer'
  <1>1. UNCHANGED <<cli, job, shown, saved, typed>> /\ (slip => slip')
        /\ (srv = "down" => srv' = "down") /\ (fdFree = 0 => fdFree' = 0)
    <2>1. CASE SendCount
      BY <2>1 DEF SendCount, cliVars
    <2>2. CASE ~SendCount
      BY <2>2, Endings DEF Server, Accept, ReadCommand, SendPong, SendList, OpenFile, SendNo,
         SendSize, SendChunk, EndOfFile, AnswerLength, CanOpen, Ends, SrvGoto, cliVars
    <2> QED BY <2>1, <2>2
  <1> QED BY <1>1, StillGot DEF OwnAnswer, Got

LEMMA AnswerGot ==
    ASSUME TypeOK, ServerInv, TalkInv, OwnAnswer,
           Connect \/ Client \/ Killed \/ \E cmd \in Commands : Type(cmd)
    PROVE  OwnAnswer'
  <1> SUFFICES ASSUME cli' = "prompt", ~slip', typed' > 0 PROVE Got'
    BY DEF OwnAnswer, Got
  <1> USE DEF CliGoto
  <1>1. CASE Connect
    BY <1>1 DEF Connect, TalkInv, Talk
  <1>2. CASE ReadPong
    <2>1. /\ srv' # "down" => shown' = Text(Pong)
          /\ job' = job /\ job.op = "PING"
      BY <1>2, PongRead DEF ReadPong, TalkInv, srvVars
    <2> QED BY <2>1 DEF Got, Beginning, Answer
  <1>3. CASE ReadList
    <2>1. /\ srv' # "down" => shown' = Text(List)
          /\ job' = job /\ job.op = "FILELIST"
      BY <1>3, ListRead DEF ReadList, TalkInv, srvVars
    <2> QED BY <2>1 DEF Got, Beginning, Answer, List
  <1>4. CASE ReadLength
    <2>1. /\ srv' # "down" => shown' = Text(Length)
          /\ job' = job /\ job.op = "GETFILESIZE"
      BY <1>4, LengthRead DEF ReadLength, TalkInv, srvVars
    <2> QED BY <2>1 DEF Got, Beginning, Answer, Length, Content
  <1>5. CASE CopyEnds
    <2>1. UNCHANGED <<job, shown, saved, srv, fdFree, slip>>
      BY <1>5 DEF CopyEnds, srvVars
    <2>2. /\ job.op \in {"GETFILE", "GETFILEPART"}
          /\ \/ saved = <<>> /\ (srv = "down" \/ (job.op = "GETFILE" /\ Unopened))
             \/ /\ job.name \in Name /\ saved = UpTo(off) /\ off \in 0 .. Len(Content)
                /\ off = Last \/ srv = "down"
                /\ job.op = "GETFILE" => First = 0 /\ Last = Len(Content)
      BY <1>5, <2>1, CopyDone DEF TalkInv
    <2>3. CASE saved = <<>> /\ (srv = "down" \/ (job.op = "GETFILE" /\ Unopened))
      <3>1. Beginning
        BY <2>3 DEF Beginning
      <3>2. srv # "down" => Answer
        <4>1. srv # "down" => job.name = Absent \/ fdFree = 0
          BY <2>3, CommandShape DEF Unopened, TypeOK
        <4> QED BY <2>3, <4>1 DEF Answer
      <3> QED BY <2>1, <3>1, <3>2, StillGot DEF Got
    <2>4. CASE /\ job.name \in Name /\ saved = UpTo(off) /\ off \in 0 .. Len(Content)
               /\ off = Last \/ srv = "down"
               /\ job.op = "GETFILE" => First = 0 /\ Last = Len(Content)
      <3>1. Content \in Seq(Byte) /\ Len(Content) \in Nat
        BY <2>4, SourceAssumption, LenProperties DEF Content
      <3>2. Beginning
        <4>1. ASSUME saved # <<>> PROVE off # 0
          <5>1. First \in Nat
            BY <2>2, <2>4, FileShape DEF First, TypeOK
          <5>2. off = 0 => UpTo(off) = <<>>
            BY <5>1, SubSeqEmpty DEF UpTo
          <5> QED BY <2>4, <4>1, <5>2
        <4>2. saved # <<>> => off \in 1 .. Len(Content)
          BY <2>4, <3>1, <4>1
        <4> QED BY <2>4, <4>2 DEF Beginning, UpTo, First, Content
      <3>3. srv # "down" => Answer
        <4>1. CASE job.op = "GETFILEPART"
          BY <2>4, <4>1 DEF Answer, UpTo, First, FirstByte, Last, Content
        <4>2. CASE job.op = "GETFILE"
          <5>1. SubSeq(Content, 1, Len(Content)) = Content
            BY <3>1, SubSeqFull
          <5> QED BY <2>4, <4>2, <5>1 DEF Answer, UpTo, Content
        <4> QED BY <2>2, <4>1, <4>2
      <3> QED BY <2>1, <3>2, <3>3, StillGot DEF Got
    <2> QED BY <2>2, <2>3, <2>4
  <1>6. CASE ReadCount \/ ReadSize \/ OpenDest \/ OpenDestFails \/ Killed
    BY <1>6 DEF ReadCount, ReadSize, OpenDest, OpenDestFails, Killed
  <1>7. CASE CopyBytes
    <2>1. cli = "copy" /\ cli' = cli
      BY <1>7 DEF CopyBytes
    <2> QED BY <2>1
  <1>8. ASSUME NEW cmd \in Commands, Type(cmd) PROVE Got'
    <2>1. cli' # "prompt"
      BY <1>8, CommandShape DEF Type
    <2> QED BY <2>1
  <1> QED BY <1>1, <1>2, <1>3, <1>4, <1>5, <1>6, <1>7, <1>8 DEF Client

-----------------------------------------------------------------------------
LEMMA InitIInv == Init => IInv
  <1> SUFFICES ASSUME Init PROVE IInv
    OBVIOUS
  <1>1. TalkInv
    BY DEF Init, TalkInv, Talk, PromptTalk, Quiet, Ready
  <1>2. OwnAnswer
    BY DEF Init, OwnAnswer
  <1> QED BY <1>1, <1>2, InitTypes DEF IInv

LEMMA Inductive == IInv /\ [Next]_vars => IInv'
  <1> SUFFICES ASSUME IInv, [Next]_vars PROVE IInv'
    OBVIOUS
  <1>0. TypeOK /\ ServerInv /\ TalkInv /\ OwnAnswer
    BY DEF IInv
  <1>1. CASE Server
    BY <1>0, <1>1, ServerTypes, ServerInvStep, ServerTalk, AnswerKept DEF IInv, Next
  <1>2. CASE AcceptFails \/ BrokenPipe \/ KillServer
    BY <1>0, <1>2, Endings, ServerTypes, ServerInvStep, EndTalk, AnswerKept DEF IInv, Next
  <1>3. CASE Connect \/ Client \/ Killed \/ \E cmd \in Commands : Type(cmd)
    BY <1>0, <1>3, ClientTypes, ServerInvStep, ClientTalk, AnswerGot DEF IInv, Next
  <1>4. CASE UNCHANGED vars
    <2>1. TypeOK' /\ ServerInv'
      BY <1>0, <1>4 DEF vars, TypeOK, ServerInv
    <2>2. TalkInv'
      <3>1. /\ ClientOnly /\ UNCHANGED <<cli, expect, total, saved, s2c>>
        BY <1>4 DEF vars, ClientOnly
      <3> QED BY <1>0, <3>1, Unheard DEF TalkInv, Talk, PromptTalk, PongTalk, CountTalk, ListTalk,
                 LengthTalk, SizeTalk, CopyTalk, Quiet, Answering, ClientOnly
    <2>3. OwnAnswer'
      BY <1>0, <1>4 DEF vars, OwnAnswer, Beginning, Answer, FirstByte
    <2> QED BY <2>1, <2>2, <2>3 DEF IInv
  <1> QED BY <1>1, <1>2, <1>3, <1>4 DEF Next

LEMMA Invariant == Spec => []IInv
  BY InitIInv, Inductive, PTL DEF Spec

(* The variables of the thread of server.c:118-323 and of client.c:180-320 *)
(* keep their types, and the descriptors never fall below none.            *)
THEOREM TypeCorrect == Spec => []TypeOK
  <1>1. IInv => TypeOK
    BY DEF IInv
  <1> QED BY <1>1, Invariant, PTL

(* Back at its prompt (client.c:193), after commands both sides read alike, *)
(* the client has left nothing in the stream, however TCP cut the replies  *)
(* into reads and whatever the files hold.                                 *)
THEOREM StaysInStep == Spec => []InStep
  <1>1. IInv => InStep
    BY DEF IInv, TalkInv, Talk, PromptTalk, Quiet, Ready, InStep
  <1> QED BY <1>1, Invariant, PTL

(* Every such command gets its own answer: PING the PONG, GETFILESIZE the  *)
(* size, GETFILE and GETFILEPART the bytes they ask for (client.c:204-320), *)
(* or a beginning of those if the server ends, at whatever point it does.  *)
THEOREM OwnAnswers == Spec => []OwnAnswer
  <1>1. IInv => OwnAnswer
    BY DEF IInv
  <1> QED BY <1>1, Invariant, PTL

(* Whatever is typed, and whether or not the client is still there, a      *)
(* transfer sends bytes of the file from initialByte on, all of them or    *)
(* all there are (server.c:297-323).                                       *)
THEOREM SendsPart == Spec => SendsItsPart
  <1> DEFINE size == Len(Source[req.name])
             Sent == srv = "file" /\ srv' = "read" =>
                        /\ off - sent = Min2(FirstByte(req), size)
                        /\ off = Min2(Min2(FirstByte(req), size) + Bytes(req), size)
  <1>1. IInv /\ [Next]_vars => [Sent]_vars
    <2> SUFFICES ASSUME IInv, Next, srv = "file", srv' = "read"
                 PROVE  /\ off - sent = Min2(FirstByte(req), size)
                        /\ off = Min2(Min2(FirstByte(req), size) + Bytes(req), size)
      OBVIOUS
    <2>1. Chunk = <<>>
      BY Endings DEF Next, Server, Ends, Connect, Client, Killed, Type, Accept, ReadCommand, SendPong,
         SendCount, SendList, OpenFile, SendNo, SendSize, SendChunk, EndOfFile, AnswerLength,
         ReadPong, ReadCount, ReadList, ReadSize, OpenDest, OpenDestFails, CopyBytes, CopyEnds,
         ReadLength, srvVars, SrvGoto
    <2> QED BY <2>1, AllSent DEF IInv, ServerInv
  <1>2. (Spec => []IInv) /\ (Spec => [][Next]_vars)
    BY Invariant, PTL DEF Spec
  <1> QED BY <1>1, <1>2, PTL DEF SendsItsPart
=============================================================================
