-------------------------- MODULE FTProtocolProofs --------------------------
(***************************************************************************)
(* Proofs about FTProtocol, for any clients, files, buffer size, number of *)
(* descriptors and number of killed processes.                             *)
(***************************************************************************)
EXTENDS FTProtocol, SequenceTheorems, TLAPS

Up == srv # "down"
Serving == srv \notin {"accept", "down"}
Live(c) == cli[c] \notin Gone

\* The messages a client has said, and the server has read from its client.
Said(c) == IF cli[c] \in {"status", "size", "confirm"} THEN 1
           ELSE IF cli[c] \in {"open", "copy", "sendBye"} THEN 2
           ELSE IF cli[c] = "bye" THEN 3 ELSE 0
Heard == IF srv \in {"no", "ok", "size", "confirm"} THEN 1
         ELSE IF srv \in {"file", "bye"} THEN 2
         ELSE IF srv = "sendBye" THEN 3 ELSE 0

(* Each turn of the server's loop takes one descriptor to accept, gives it *)
(* back at close, and keeps at most one for the file, which is there.      *)
LoopInv ==
    /\ srv = "accept" => fdFree > 0
    /\ Serving => fdFree < MaxFds
    /\ srv \in {"ok", "size", "confirm", "file"} => Exists(want[cur])

(* Which connection goes with which phase of its two ends.                 *)
ConnInv ==
    /\ Serving => conn[cur] = "open"
    /\ \A c \in Client :
        /\ conn[c] = "open" => Serving /\ c = cur
        /\ conn[c] \in {"pending", "open"} => Up
        /\ conn[c] = "none" => cli[c] \in {"idle", "failed"}
        /\ cli[c] = "idle" => conn[c] = "none"
        /\ conn[c] = "pending" => cli[c] \in {"request", "status"} \cup Gone
        /\ conn[c] = "closed" /\ Up => cli[c] \in {"status", "bye"} \cup Gone

(* What a live client has said is what the server has heard and what is    *)
(* still on its way.                                                       *)
HeardOK(c) ==
    Live(c) =>
        /\ cli[c] = "idle" => c2s[c] = <<>>
        /\ conn[c] = "pending" => Len(c2s[c]) = Said(c)
        /\ conn[c] = "open" => Len(c2s[c]) = Said(c) - Heard
HeardInv == \A c \in Client : HeardOK(c)

(* The file that is open, as seen by the client being served.              *)
ServeInv ==
    /\ srv \in {"ok", "size", "confirm"} => off = 0
    /\ srv \in {"ok", "size", "confirm", "file"} /\ Live(cur) =>
        \/ want[cur] \in Name /\ image = Source[want[cur]]
        \/ /\ want[cur] = Dest
           /\ cli[cur] \in {"status", "size", "confirm", "open"} => image = dest

(* A client waiting for its answer.                                        *)
AnswerOK(c) ==
    /\ cli[c] \in {"idle", "request"} => s2c[c] = <<>>
    /\ cli[c] = "status" =>
        /\ conn[c] = "pending" => s2c[c] = <<>>
        /\ conn[c] = "closed" /\ Up => s2c[c] = <<Msg("NO")>>
        /\ conn[c] = "open" =>
            /\ srv = "size" => s2c[c] = <<Msg("Ok")>>
            /\ srv = "confirm" => s2c[c] = <<Msg("Ok"), SizeMsg(Len(image))>>
            /\ srv \notin {"size", "confirm"} => s2c[c] = <<>>
        /\ \/ s2c[c] \in {<<>>, <<Msg("NO")>>}
           \/ /\ s2c[c] \in {<<Msg("Ok")>>, <<Msg("Ok"), SizeMsg(Len(image))>>}
              /\ c = cur /\ off = 0
AnswerInv == \A c \in Client : AnswerOK(c)

(* A client that was answered Ok is the one being served, or was when the  *)
(* server went down.                                                       *)
BusyOK(c) ==
    /\ cli[c] \in {"size", "confirm", "open", "copy", "sendBye"} =>
        c = cur /\ (Up => conn[c] = "open")
    /\ cli[c] \in {"idle", "request", "status", "size", "confirm", "open"} =>
        total[c] = 0
    /\ cli[c] \in {"idle", "request", "status", "size"} => size[c] = 0
    /\ cli[c] = "size" =>
        /\ off = 0 /\ s2c[c] \in {<<>>, <<SizeMsg(Len(image))>>}
        /\ conn[c] = "open" =>
            \/ srv = "size" /\ s2c[c] = <<>>
            \/ srv = "confirm" /\ s2c[c] # <<>>
    /\ cli[c] = "confirm" =>
        /\ off = 0 /\ s2c[c] = <<>> /\ size[c] \in {0, Len(image)}
        /\ conn[c] = "open" => srv = "confirm" /\ size[c] = Len(image)
BusyInv == \A c \in Client : BusyOK(c)

(* A client receiving the file: what it has saved and what is on its way   *)
(* are the file up to the server's offset.                                 *)
Piece(f, i, j) == SubSeq(f, i + 1, j)
StreamOK(c) ==
    /\ cli[c] \in {"open", "copy", "sendBye"} =>
        /\ total[c] <= off /\ off <= Len(image)
        /\ s2c[c] = Piece(image, total[c], off)
        /\ \/ size[c] = Len(image)
           \/ size[c] = 0 /\ off = 0 /\ srv = "down"
        /\ conn[c] = "open" => srv \in {"confirm", "file", "bye"}
    /\ cli[c] \in Copying => dest = Piece(image, 0, total[c])
    /\ cli[c] = "sendBye" /\ conn[c] = "open" => total[c] = Len(image)
    /\ cli[c] = "bye" /\ conn[c] = "open" =>
        /\ srv \in {"confirm", "file", "bye", "sendBye"}
        /\ dest = image /\ off = Len(image) /\ s2c[c] = <<>>
        /\ total[c] = Len(image) /\ size[c] = Len(image)
StreamInv == \A c \in Client : StreamOK(c)

IInv == TypeOK /\ LoopInv /\ ConnInv /\ HeardInv /\ ServeInv /\ AnswerInv
               /\ BusyInv /\ StreamInv

-----------------------------------------------------------------------------
(* Type correctness.                                                       *)

\* A chunk is a sequence of bytes of the file.
LEMMA ChunkType ==
    ASSUME TypeOK, want[cur] \in Name \cup {Dest}
    PROVE  Chunk \in Seq(Byte)
<1>1. Content(want[cur]) \in Seq(Byte)
  BY SourceAssumption, NameAssumption DEF TypeOK, Content
<1>2. \A k \in 1 .. Len(Content(want[cur])) : Content(want[cur])[k] \in Byte
  BY <1>1
<1> QED
  BY <1>1, BoundAssumption, SubSeqProperties DEF Chunk, Min2, TypeOK

LEMMA InitType == Init => TypeOK /\ LoopInv
BY SourceAssumption, BoundAssumption
DEF Init, TypeOK, LoopInv, Serving, SrvPhase, CliPhase, Unit

\* A read of the server takes the first message off, if there is one.
LEMMA ReceiveType ==
    ASSUME TypeOK, Receive
    PROVE  c2s' \in [Client -> Seq({"name", "Ok", "Bye"})]
<1>1. CASE c2s[cur] = <<>>
  BY <1>1 DEF Receive, TypeOK
<1>2. CASE c2s[cur] # <<>>
  <2>1. c2s[cur] \in Seq({"name", "Ok", "Bye"})
    BY DEF TypeOK
  <2>2. Tail(c2s[cur]) \in Seq({"name", "Ok", "Bye"})
    BY <1>2, <2>1, HeadTailProperties
  <2> QED
    BY <1>2, <2>2 DEF Receive, TypeOK
<1> QED
  BY <1>1, <1>2

\* close gives the descriptor of the accepted connection back.
LEMMA HangupType ==
    ASSUME TypeOK, LoopInv, Serving, Hangup
    PROVE  /\ conn' \in [Client -> {"none", "pending", "open", "closed"}]
           /\ fdFree' \in 1 .. MaxFds
BY BoundAssumption DEF TypeOK, LoopInv, Hangup

LEMMA ServerType ==
    ASSUME TypeOK, LoopInv, Server
    PROVE  TypeOK' /\ LoopInv'
<1> USE DEF TypeOK, LoopInv, Serving, SrvPhase, SrvGoto, Exists
<1>1. ASSUME NEW c \in Client, Accept(c) PROVE TypeOK' /\ LoopInv'
  BY <1>1, BoundAssumption DEF Accept, cliVars, chanVars
<1>2. CASE AcceptFails
  BY <1>2 DEF AcceptFails, Exit, cliVars, chanVars
<1>3. CASE OpenFile
  <2>1. c2s' \in [Client -> Seq({"name", "Ok", "Bye"})]
    BY <1>3, ReceiveType DEF OpenFile
  <2>2. Exists(want[cur]) => Content(want[cur]) \in Seq(Byte)
    BY SourceAssumption DEF Content
  <2> QED
    BY <1>3, <2>1, <2>2, BoundAssumption, SMTT(40) DEF OpenFile, CanOpen, cliVars
<1>4. CASE Refuse
  <2>1. s2c' \in [Client -> Seq(Unit)]
    BY <1>4, SMTT(40) DEF Refuse, Reply, Msg, Messages, Unit
  <2>2. /\ conn' \in [Client -> {"none", "pending", "open", "closed"}]
        /\ fdFree' \in 1 .. MaxFds
    BY <1>4, HangupType DEF Refuse
  <2> QED
    BY <1>4, <2>1, <2>2, BoundAssumption DEF Refuse, cliVars
<1>5. CASE SendOk
  <2>1. s2c' \in [Client -> Seq(Unit)]
    BY <1>5, SMTT(40) DEF SendOk, Reply, Msg, Messages, Unit
  <2> QED
    BY <1>5, <2>1 DEF SendOk, cliVars
<1>6. CASE SendSize
  <2>1. FileSize \in Nat
    BY <1>6, SourceAssumption, LenProperties DEF SendSize, FileSize, Content
  <2>2. s2c' \in [Client -> Seq(Unit)]
    BY <1>6, <2>1, SMTT(40) DEF SendSize, Reply, SizeMsg, Unit
  <2> QED
    BY <1>6, <2>2 DEF SendSize, cliVars
<1>7. CASE ReadConfirmation
  <2>1. c2s' \in [Client -> Seq({"name", "Ok", "Bye"})]
    BY <1>7, ReceiveType DEF ReadConfirmation
  <2> QED
    BY <1>7, <2>1 DEF ReadConfirmation, cliVars
<1>8. CASE SendChunk
  <2>1. Chunk \in Seq(Byte)
    BY <1>8, ChunkType DEF SendChunk
  <2>2. Chunk \in Seq(Unit) /\ Len(Chunk) \in Nat
    BY <2>1 DEF Unit
  <2>3. s2c' \in [Client -> Seq(Unit)]
    BY <1>8, <2>2 DEF SendChunk, Reply
  <2>4. off' \in Nat
    BY <1>8, <2>2 DEF SendChunk
  <2> QED
    BY <1>8, <2>3, <2>4 DEF SendChunk, cliVars
<1>9. CASE EndOfFile
  BY <1>9 DEF EndOfFile, cliVars, chanVars
<1>10. CASE ReadBye
  <2>1. c2s' \in [Client -> Seq({"name", "Ok", "Bye"})]
    BY <1>10, ReceiveType DEF ReadBye
  <2> QED
    BY <1>10, <2>1 DEF ReadBye, cliVars
<1>11. CASE SendBye
  <2>1. s2c' \in [Client -> Seq(Unit)]
    BY <1>11, SMTT(40) DEF SendBye, Reply, Msg, Messages, Unit
  <2>2. /\ conn' \in [Client -> {"none", "pending", "open", "closed"}]
        /\ fdFree' \in 1 .. MaxFds
    BY <1>11, HangupType DEF SendBye
  <2> QED
    BY <1>11, <2>1, <2>2, BoundAssumption DEF SendBye, cliVars
<1> QED
  BY <1>1, <1>2, <1>3, <1>4, <1>5, <1>6, <1>7, <1>8, <1>9, <1>10, <1>11 DEF Server


\* The bytes a client reads while it copies, and what it leaves unread.
LEMMA CopyType ==
    ASSUME TypeOK, StreamInv, NEW c \in Client, cli[c] = "copy",
           NEW n \in 1 .. Len(s2c[c])
    PROVE  /\ SubSeq(s2c[c], 1, n) \in Seq(Byte)
           /\ SubSeq(s2c[c], n + 1, Len(s2c[c])) \in Seq(Byte)
<1>1. s2c[c] = Piece(image, total[c], off) /\ total[c] <= off /\ off <= Len(image)
  BY DEF StreamInv, StreamOK
<1>2. image \in Seq(Byte) /\ total[c] \in Nat /\ off \in Nat
  BY DEF TypeOK
<1>3. s2c[c] \in Seq(Byte)
  BY <1>1, <1>2, SubSeqProperties, SMTT(40) DEF Piece
<1>4. \A k \in 1 .. Len(s2c[c]) : s2c[c][k] \in Byte
  BY <1>3
<1>5. Len(s2c[c]) \in Nat
  BY <1>3
<1> HIDE <1>1
<1> QED
  BY <1>3, <1>4, <1>5, SubSeqProperties

\* What a client says adds one message to its channel.
LEMMA SayType ==
    ASSUME TypeOK, NEW c \in Client, NEW m \in {"name", "Ok", "Bye"}, Say(c, m)
    PROVE  c2s' \in [Client -> Seq({"name", "Ok", "Bye"})]
BY DEF TypeOK, Say

\* A read of the whole first unit of a client's stream.
LEMMA ReadType ==
    ASSUME TypeOK, NEW c \in Client, s2c[c] # <<>>
    PROVE  [s2c EXCEPT ![c] = Tail(@)] \in [Client -> Seq(Unit)]
<1>1. s2c[c] \in Seq(Unit)
  BY DEF TypeOK
<1>2. Tail(s2c[c]) \in Seq(Unit)
  BY <1>1, HeadTailProperties
<1> QED
  BY <1>2 DEF TypeOK

LEMMA ClientType ==
    ASSUME TypeOK, LoopInv, StreamInv, NEW c \in Client, ClientStep(c)
    PROVE  TypeOK' /\ LoopInv'
<1> USE DEF TypeOK, LoopInv, Serving, CliPhase, CliGoto, Exists, srvVars, chanVars
<1>1. CASE SendName(c)
  BY <1>1, SayType DEF SendName
<1>2. CASE ReadStatus(c)
  BY <1>2, ReadType, ZenonT(60) DEF ReadStatus
<1>3. CASE ReadSize(c)
  <2>1. Atoi(Head(s2c[c])) \in Nat
    BY DEF Atoi
  <2>2. size' \in [Client -> Nat]
    BY <1>3, <2>1 DEF ReadSize
  <2> QED
    BY <1>3, <2>2, ReadType, ZenonT(60) DEF ReadSize
<1>4. CASE Confirm(c)
  BY <1>4, SayType DEF Confirm
<1>5. CASE OpenDest(c)
  BY <1>5 DEF OpenDest
<1>6. CASE OpenDestFails(c)
  BY <1>6 DEF OpenDestFails
<1>7. CASE CopyBytes(c)
  <2>1. PICK n \in 1 .. Min2(BUFFERSIZE, Len(s2c[c])) :
            /\ dest' = dest \o SubSeq(s2c[c], 1, n)
            /\ s2c' = [s2c EXCEPT ![c] = SubSeq(@, n + 1, Len(@))]
            /\ total' = [total EXCEPT ![c] = @ + n]
    BY <1>7 DEF CopyBytes
  <2>2. Len(s2c[c]) \in Nat
    OBVIOUS
  <2>3. n \in 1 .. Len(s2c[c])
    BY <2>2, BoundAssumption DEF Min2
  <2>4. /\ SubSeq(s2c[c], 1, n) \in Seq(Byte)
        /\ SubSeq(s2c[c], n + 1, Len(s2c[c])) \in Seq(Byte)
    <3>1. cli[c] = "copy"
      BY <1>7 DEF CopyBytes
    <3> QED
      BY ONLY <2>3, <3>1, CopyType, TypeOK, StreamInv
  <2>5. dest' \in Seq(Byte)
    BY <2>1, <2>4, ConcatProperties
  <2>6. SubSeq(s2c[c], n + 1, Len(s2c[c])) \in Seq(Unit)
    BY <2>4 DEF Unit
  <2>7. s2c' \in [Client -> Seq(Unit)]
    BY <2>1, <2>6
  <2>8. total' \in [Client -> Nat]
    BY <2>1, <2>3, SMTT(40)
  <2> QED
    BY <1>7, <2>5, <2>7, <2>8 DEF CopyBytes
<1>8. CASE CopyEnds(c)
  BY <1>8 DEF CopyEnds
<1>9. CASE SayBye(c)
  BY <1>9, SayType DEF SayBye
<1>10. CASE ReadFarewell(c)
  BY <1>10, ReadType DEF ReadFarewell
<1> QED
  BY <1>1, <1>2, <1>3, <1>4, <1>5, <1>6, <1>7, <1>8, <1>9, <1>10 DEF ClientStep

LEMMA OtherType ==
    ASSUME TypeOK, LoopInv, NEW c \in Client,
           \/ BrokenPipe \/ KillServer
           \/ Connect(c) \/ ClientBrokenPipe(c) \/ KillClient(c)
    PROVE  TypeOK' /\ LoopInv'
<1> USE DEF TypeOK, LoopInv, Serving, SrvPhase, CliPhase, SrvGoto, CliGoto, Exists,
            srvVars, cliVars, chanVars
<1>1. CASE BrokenPipe
  BY <1>1 DEF BrokenPipe, Exit
<1>2. CASE KillServer
  BY <1>2, BoundAssumption DEF KillServer, Exit
<1>3. CASE Connect(c)
  BY <1>3 DEF Connect
<1>4. CASE ClientBrokenPipe(c)
  BY <1>4 DEF ClientBrokenPipe
<1>5. CASE KillClient(c)
  BY <1>5, BoundAssumption DEF KillClient
<1> QED
  BY <1>1, <1>2, <1>3, <1>4, <1>5


-----------------------------------------------------------------------------
(* Which phases of the two ends go together.                               *)

\* A client whose connection the server closes waits for nothing but the
\* answer that is on its way.
LEMMA AtHangup ==
    ASSUME TypeOK, ConnInv, HeardInv, BusyInv, StreamInv, srv \in {"no", "sendBye"},
           Live(cur)
    PROVE  cli[cur] = IF srv = "no" THEN "status" ELSE "bye"
<1>1. conn[cur] = "open" /\ cli[cur] # "idle" /\ cur \in Client
  BY DEF ConnInv, Serving, TypeOK
<1>2. Len(c2s[cur]) = Said(cur) - Heard /\ Len(c2s[cur]) >= 0
  <2>1. c2s[cur] \in Seq({"name", "Ok", "Bye"})
    BY <1>1 DEF TypeOK
  <2> QED
    BY <1>1, <2>1 DEF HeardInv, HeardOK
<1>3. CASE srv = "no"
  BY <1>1, <1>2, <1>3 DEF Said, Heard, BusyInv, BusyOK, StreamInv, StreamOK,
     TypeOK, CliPhase, Live, Gone
<1>4. CASE srv = "sendBye"
  BY <1>1, <1>2, <1>4 DEF Said, Heard, BusyInv, BusyOK, StreamInv, StreamOK,
     TypeOK, CliPhase, Live, Gone
<1> QED
  BY <1>3, <1>4

LEMMA ConnStep ==
    ASSUME TypeOK, ConnInv, HeardInv, AnswerInv, BusyInv, StreamInv, Next
    PROVE  ConnInv'
<1> USE DEF TypeOK, ConnInv, Serving, Up, SrvGoto, CliGoto, Gone, srvVars, cliVars
<1>1. ASSUME NEW c \in Client, Accept(c) PROVE ConnInv'
  BY <1>1 DEF Accept
<1>2. CASE AcceptFails \/ BrokenPipe \/ KillServer
  BY <1>2 DEF AcceptFails, BrokenPipe, KillServer, Exit
<1>3. CASE OpenFile \/ SendOk \/ SendSize \/ ReadConfirmation \/ SendChunk
           \/ EndOfFile \/ ReadBye
  BY <1>3 DEF OpenFile, SendOk, SendSize, ReadConfirmation, SendChunk, EndOfFile,
              ReadBye
<1>4. CASE Refuse \/ SendBye
  <2>1. cli[cur] \in {"status", "bye"} \cup Gone /\ conn[cur] = "open"
    BY <1>4, AtHangup DEF Refuse, SendBye, Live
  <2> QED
    BY <1>4, <2>1 DEF Refuse, SendBye, Hangup
<1>5. ASSUME NEW c \in Client, Connect(c) PROVE ConnInv'
  BY <1>5, ZenonT(60) DEF Connect
<1>6. ASSUME NEW c \in Client, SendName(c) \/ ReadStatus(c) PROVE ConnInv'
  <2>1. CASE SendName(c)
    BY <2>1 DEF SendName
  <2>2. CASE ReadStatus(c)
    <3>1. conn[c] # "pending" \/ s2c[c] = <<>>
      BY <2>2 DEF ReadStatus, AnswerInv, AnswerOK
    <3>2. conn[c] = "closed" /\ Up => s2c[c] = <<Msg("NO")>> /\ Head(s2c[c]) # Msg("Ok")
      BY <2>2 DEF ReadStatus, AnswerInv, AnswerOK, Msg
    <3> QED
      BY <2>2, <3>1, <3>2 DEF ReadStatus, Eof
  <2> QED
    BY <1>6, <2>1, <2>2
<1>7. ASSUME NEW c \in Client,
             ReadSize(c) \/ Confirm(c) \/ OpenDest(c) \/ OpenDestFails(c) \/ CopyBytes(c)
      PROVE  ConnInv'
  BY <1>7, ZenonT(60) DEF ReadSize, Confirm, OpenDest, OpenDestFails, CopyBytes
<1>8. ASSUME NEW c \in Client, CopyEnds(c) \/ SayBye(c) \/ ReadFarewell(c)
      PROVE  ConnInv'
  BY <1>8 DEF CopyEnds, SayBye, ReadFarewell
<1>9. ASSUME NEW c \in Client, ClientBrokenPipe(c) \/ KillClient(c)
      PROVE  ConnInv'
  BY <1>9 DEF ClientBrokenPipe, KillClient
<1> QED
  BY <1>1, <1>2, <1>3, <1>4, <1>5, <1>6, <1>7, <1>8, <1>9
  DEF Next, Server, ClientStep


LEMMA ReceiveLen ==
    ASSUME TypeOK, Receive, Live(cur)
    PROVE  /\ Len(c2s'[cur]) = Len(c2s[cur]) - 1
           /\ \A d \in Client : d # cur => c2s'[d] = c2s[d]
<1>1. c2s[cur] # <<>> /\ c2s' = [c2s EXCEPT ![cur] = Tail(@)]
  BY DEF Receive, Live
<1>2. c2s[cur] \in Seq({"name", "Ok", "Bye"}) /\ cur \in Client
  BY DEF TypeOK
<1>3. Len(Tail(c2s[cur])) = Len(c2s[cur]) - 1
  BY <1>1, <1>2, HeadTailProperties
<1> QED
  BY <1>1, <1>2, <1>3 DEF TypeOK

LEMMA SayLen ==
    ASSUME TypeOK, NEW c \in Client, NEW m \in {"name", "Ok", "Bye"}, Say(c, m)
    PROVE  /\ conn[c] # "closed" => Len(c2s'[c]) = Len(c2s[c]) + 1
           /\ \A d \in Client : d # c => c2s'[d] = c2s[d]
<1>1. c2s[c] \in Seq({"name", "Ok", "Bye"})
  BY DEF TypeOK
<1>2. Len(Append(c2s[c], m)) = Len(c2s[c]) + 1
  BY <1>1, AppendProperties
<1> QED
  BY <1>2 DEF Say, TypeOK

LEMMA HeardStep ==
    ASSUME TypeOK, ConnInv, HeardInv, Next
    PROVE  HeardInv'
<1> SUFFICES ASSUME NEW d \in Client PROVE HeardOK(d)'
  BY DEF HeardInv
<1>0. HeardOK(d) /\ Len(c2s[d]) \in Nat /\ cur \in Client
  <2>1. c2s[d] \in Seq({"name", "Ok", "Bye"})
    BY DEF TypeOK
  <2> QED
    BY <2>1 DEF HeardInv, TypeOK
<1> USE <1>0 DEF HeardOK, Live, Gone, SrvGoto, CliGoto, srvVars, cliVars, chanVars
<1>1. ASSUME NEW c \in Client, Accept(c) PROVE HeardOK(d)'
  BY <1>1 DEF Accept, TypeOK, Said, Heard, ConnInv, Serving
<1>2. CASE AcceptFails \/ BrokenPipe \/ KillServer
  BY <1>2 DEF AcceptFails, BrokenPipe, KillServer, Exit, TypeOK, ConnInv
<1>3. CASE OpenFile \/ ReadConfirmation \/ ReadBye
  <2>1. UNCHANGED <<cur, conn, cli>> /\ Said(d)' = Said(d)
    BY <1>3 DEF OpenFile, ReadConfirmation, ReadBye, Said
  <2>2. Serving /\ Heard' = Heard + 1 /\ Heard \in Nat /\ Said(d) \in Nat
    BY <1>3 DEF OpenFile, ReadConfirmation, ReadBye, Heard, Said, Serving
  <2>3. (conn[d] = "open" => d = cur) /\ cli[cur] # "idle"
    BY <2>2 DEF ConnInv
  <2>4. CASE d = cur /\ Live(cur)
    <3>1. Len(c2s'[d]) = Len(c2s[d]) - 1
      BY <1>3, <2>4, ReceiveLen DEF OpenFile, ReadConfirmation, ReadBye
    <3> QED
      BY <2>1, <2>2, <2>3, <2>4, <3>1 DEF ConnInv
  <2>5. CASE ~(d = cur /\ Live(cur))
    <3>1. d # cur => c2s'[d] = c2s[d]
      BY <1>3 DEF OpenFile, ReadConfirmation, ReadBye, Receive, TypeOK
    <3> QED
      BY <2>1, <2>2, <2>3, <2>5, <3>1
  <2> QED
    BY <2>4, <2>5
<1>4. CASE SendOk \/ SendSize \/ SendChunk \/ EndOfFile
  BY <1>4 DEF SendOk, SendSize, SendChunk, EndOfFile, Said, Heard
<1>5. CASE Refuse \/ SendBye
  BY <1>5 DEF Refuse, SendBye, Hangup, TypeOK, ConnInv, Said
<1>6. ASSUME NEW c \in Client, Connect(c) PROVE HeardOK(d)'
  BY <1>6, SMTT(40) DEF Connect, TypeOK, Said, Heard
<1>7. ASSUME NEW c \in Client, SendName(c) \/ Confirm(c) \/ SayBye(c) PROVE HeardOK(d)'
  <2>1. /\ conn[c] # "closed" => Len(c2s'[c]) = Len(c2s[c]) + 1
        /\ d # c => c2s'[d] = c2s[d]
    BY <1>7, SayLen DEF SendName, Confirm, SayBye
  <2>2. UNCHANGED <<srv, cur, conn>> /\ Heard' = Heard /\ Heard \in Nat
    BY <1>7 DEF SendName, Confirm, SayBye, Heard
  <2>3. d # c => cli'[d] = cli[d] /\ Said(d)' = Said(d)
    BY <1>7 DEF SendName, Confirm, SayBye, TypeOK, Said
  <2>4. /\ Said(c)' = Said(c) + 1 /\ Said(c) \in Nat /\ Live(c)
        /\ cli[c] # "idle" /\ cli'[c] # "idle"
    <3>1. \/ cli[c] = "request" /\ cli'[c] = "status"
          \/ cli[c] = "confirm" /\ cli'[c] = "open"
          \/ cli[c] = "sendBye" /\ cli'[c] = "bye"
      BY <1>7 DEF SendName, Confirm, SayBye, TypeOK
    <3> QED
      BY <3>1 DEF Said
  <2> QED
    BY <2>1, <2>2, <2>3, <2>4
<1>8. ASSUME NEW c \in Client,
             \/ ReadStatus(c) \/ ReadSize(c) \/ OpenDest(c) \/ OpenDestFails(c)
             \/ CopyBytes(c) \/ CopyEnds(c) \/ ReadFarewell(c)
             \/ ClientBrokenPipe(c) \/ KillClient(c)
      PROVE  HeardOK(d)'
  <2>1. UNCHANGED <<srv, conn, c2s>> /\ Heard' = Heard
    BY <1>8 DEF ReadStatus, ReadSize, OpenDest, OpenDestFails, CopyBytes, CopyEnds,
                ReadFarewell, ClientBrokenPipe, KillClient, Heard
  <2>2. \/ cli[d] = cli'[d]
        \/ cli[d] = "status" /\ cli'[d] = "size"
        \/ cli[d] = "size" /\ cli'[d] = "confirm"
        \/ cli[d] = "open" /\ cli'[d] = "copy"
        \/ cli[d] = "copy" /\ cli'[d] = "sendBye"
        \/ cli'[d] \in Gone
    BY <1>8 DEF ReadStatus, ReadSize, OpenDest, OpenDestFails, CopyBytes, CopyEnds,
                ReadFarewell, ClientBrokenPipe, KillClient, TypeOK
  <2>3. \/ ~Live(d)'
        \/ /\ Said(d)' = Said(d) /\ Live(d)
           /\ cli'[d] = "idle" => cli[d] = "idle"
    BY <2>2 DEF Said
  <2> QED
    BY <2>1, <2>3
<1> QED
  BY <1>1, <1>2, <1>3, <1>4, <1>5, <1>6, <1>7, <1>8 DEF Next, Server, ClientStep


-----------------------------------------------------------------------------
(* The file being served.                                                  *)

\* The server has heard no more than its live client has said.
LEMMA AtServe ==
    ASSUME TypeOK, ConnInv, HeardInv, Serving, Live(cur)
    PROVE  /\ cur \in Client /\ conn[cur] = "open" /\ cli[cur] # "idle"
           /\ Said(cur) >= Heard
           /\ c2s[cur] # <<>> => Said(cur) > Heard
<1>1. cur \in Client /\ conn[cur] = "open" /\ cli[cur] # "idle"
  BY DEF TypeOK, ConnInv
<1>2. Len(c2s[cur]) = Said(cur) - Heard
  BY <1>1 DEF HeardInv, HeardOK
<1>3. Len(c2s[cur]) \in Nat /\ (c2s[cur] # <<>> => Len(c2s[cur]) > 0)
  <2>1. c2s[cur] \in Seq({"name", "Ok", "Bye"})
    BY <1>1 DEF TypeOK
  <2> QED
    BY <2>1, EmptySeq
<1>4. Said(cur) \in Nat /\ Heard \in Nat
  BY DEF Said, Heard
<1> QED
  BY <1>1, <1>2, <1>3, <1>4

LEMMA ServeStep ==
    ASSUME TypeOK, ConnInv, HeardInv, BusyInv, ServeInv, Next
    PROVE  ServeInv'
<1> USE DEF ServeInv, Live, Gone, SrvGoto, CliGoto, srvVars, cliVars, chanVars
<1>1. ASSUME NEW c \in Client, Accept(c) PROVE ServeInv'
  BY <1>1 DEF Accept
<1>2. CASE AcceptFails \/ BrokenPipe \/ KillServer
  BY <1>2 DEF AcceptFails, BrokenPipe, KillServer, Exit
<1>3. CASE OpenFile
  BY <1>3 DEF OpenFile, CanOpen, Exists, Content
<1>4. CASE SendOk \/ SendSize \/ ReadConfirmation \/ SendChunk
  BY <1>4 DEF SendOk, SendSize, ReadConfirmation, SendChunk
<1>5. CASE Refuse \/ EndOfFile \/ ReadBye \/ SendBye
  BY <1>5 DEF Refuse, EndOfFile, ReadBye, SendBye
<1>6. ASSUME NEW c \in Client, Connect(c) PROVE ServeInv'
  BY <1>6, AtServe DEF Connect, TypeOK, Serving
<1>7. ASSUME NEW c \in Client, SendName(c) PROVE ServeInv'
  <2>1. c = cur => srv \notin {"ok", "size", "confirm", "file"}
    BY <1>7, AtServe DEF SendName, Serving, Said, Heard
  <2> QED
    BY <1>7, <2>1 DEF SendName, TypeOK
<1>8. ASSUME NEW c \in Client, OpenDest(c) \/ CopyBytes(c) PROVE ServeInv'
  <2>1. c = cur
    BY <1>8 DEF OpenDest, CopyBytes, BusyInv, BusyOK
  <2> QED
    BY <1>8, <2>1 DEF OpenDest, CopyBytes, TypeOK
<1>9. ASSUME NEW c \in Client,
             \/ ReadStatus(c) \/ ReadSize(c) \/ Confirm(c) \/ OpenDestFails(c)
             \/ CopyEnds(c) \/ SayBye(c) \/ ReadFarewell(c)
             \/ ClientBrokenPipe(c) \/ KillClient(c)
      PROVE  ServeInv'
  BY <1>9, SMTT(40) DEF ReadStatus, ReadSize, Confirm, OpenDestFails, CopyEnds, SayBye,
              ReadFarewell, ClientBrokenPipe, KillClient, TypeOK
<1> QED
  BY <1>1, <1>2, <1>3, <1>4, <1>5, <1>6, <1>7, <1>8, <1>9 DEF Next, Server, ClientStep


-----------------------------------------------------------------------------
(* The answer: Ok and the size, or NO.                                     *)

\* The size sent is that of the file as it was opened.
LEMMA SizeSent ==
    ASSUME ServeInv, srv = "size", cli[cur] \in {"status", "size"}
    PROVE  FileSize = Len(image)
BY NameAssumption DEF ServeInv, FileSize, Content, Live, Gone

LEMMA PairOfUnits ==
    ASSUME NEW x, NEW y
    PROVE  <<x>> \o <<y>> = <<x, y>>
<1>1. <<x>> \in Seq({x, y}) /\ <<y>> \in Seq({x, y}) /\ <<x, y>> \in Seq({x, y})
  OBVIOUS
<1>2. /\ <<x>> \o <<y>> \in Seq({x, y})
      /\ Len(<<x>> \o <<y>>) = 2
      /\ (<<x>> \o <<y>>)[1] = x /\ (<<x>> \o <<y>>)[2] = y
  BY <1>1, ConcatProperties
<1>3. Len(<<x, y>>) = 2 /\ <<x, y>>[1] = x /\ <<x, y>>[2] = y
  OBVIOUS
<1>4. \A i \in 1 .. 2 : (<<x>> \o <<y>>)[i] = <<x, y>>[i]
  BY <1>2, <1>3
<1> QED
  BY <1>1, <1>2, <1>3, <1>4, SeqEqual

LEMMA AnswerStep ==
    ASSUME TypeOK, ConnInv, HeardInv, ServeInv, AnswerInv, BusyInv, StreamInv, Next
    PROVE  AnswerInv'
<1> SUFFICES ASSUME NEW d \in Client PROVE AnswerOK(d)'
  BY DEF AnswerInv
<1>0. AnswerOK(d) /\ s2c[d] \in Seq(Unit) /\ cur \in Client
  BY DEF AnswerInv, TypeOK
<1> USE <1>0 DEF AnswerOK, Live, Gone, SrvGoto, CliGoto, srvVars, cliVars, chanVars
<1>1. ASSUME NEW c \in Client, Accept(c) PROVE AnswerOK(d)'
  <2>1. cli[d] = "status" => s2c[d] \in {<<>>, <<Msg("NO")>>}
    BY <1>1 DEF Accept, ConnInv, Up, Serving, TypeOK
  <2> QED
    BY <1>1, <2>1 DEF Accept, TypeOK, Up, ConnInv, Serving
<1>2. CASE AcceptFails \/ BrokenPipe \/ KillServer
  BY <1>2 DEF AcceptFails, BrokenPipe, KillServer, Exit, TypeOK, Up
<1>3. CASE OpenFile
  <2>1. cli[d] = "status" => s2c[d] \in {<<>>, <<Msg("NO")>>}
    BY <1>3 DEF OpenFile, ConnInv, Up, Serving, TypeOK
  <2> QED
    BY <1>3, <2>1 DEF OpenFile, Up
<1>4. CASE Refuse
  <2>1. CASE d = cur /\ Live(d)
    <3>1. cli[d] = "status" /\ s2c[d] = <<>>
      BY <1>4, <2>1, AtHangup DEF Refuse, ConnInv, Serving
    <3>2. s2c'[d] = <<Msg("NO")>>
      BY <1>4, <2>1, <3>1 DEF Refuse, Reply, TypeOK
    <3> QED
      BY <1>4, <2>1, <3>1, <3>2 DEF Refuse, Hangup, TypeOK, Up
  <2>2. CASE ~(d = cur /\ Live(d))
    BY <1>4, <2>2 DEF Refuse, Reply, Hangup, TypeOK, Up, ConnInv, Serving
  <2> QED
    BY <2>1, <2>2
<1>5. CASE SendOk
  <2>1. CASE d = cur /\ cli[d] = "status"
    <3>1. s2c[d] = <<>> /\ off = 0 /\ conn[d] = "open"
      BY <1>5, <2>1 DEF SendOk, ConnInv, Serving, ServeInv
    <3>2. s2c'[d] = <<Msg("Ok")>>
      BY <1>5, <2>1, <3>1 DEF SendOk, Reply, TypeOK
    <3> QED
      BY <1>5, <2>1, <3>1, <3>2 DEF SendOk
  <2>2. CASE ~(d = cur /\ cli[d] = "status")
    <3>1. cli[d] \in {"idle", "request"} => d # cur
      BY <1>5, AtServe DEF SendOk, Serving, Said, Heard
    <3> QED
      BY <1>5, <2>2, <3>1 DEF SendOk, Reply, TypeOK, Up, ConnInv, Serving
  <2> QED
    BY <2>1, <2>2
<1>6. CASE SendSize
  <2>1. CASE d = cur /\ cli[d] = "status"
    <3>1. s2c[d] = <<Msg("Ok")>> /\ off = 0 /\ conn[d] = "open"
      BY <1>6, <2>1 DEF SendSize, ConnInv, Serving, ServeInv
    <3>2. FileSize = Len(image)
      BY <1>6, <2>1, SizeSent DEF SendSize
    <3>3. s2c'[d] = <<Msg("Ok")>> \o <<SizeMsg(Len(image))>>
      BY <1>6, <2>1, <3>1, <3>2 DEF SendSize, Reply, TypeOK
    <3>4. s2c'[d] = <<Msg("Ok"), SizeMsg(Len(image))>>
      BY ONLY <3>3, PairOfUnits
    <3> QED
      BY <1>6, <2>1, <3>1, <3>4 DEF SendSize
  <2>2. CASE ~(d = cur /\ cli[d] = "status")
    <3>1. cli[d] \in {"idle", "request"} => d # cur
      BY <1>6, AtServe DEF SendSize, Serving, Said, Heard
    <3> QED
      BY <1>6, <2>2, <3>1 DEF SendSize, Reply, TypeOK, Up, ConnInv, Serving
  <2> QED
    BY <2>1, <2>2
<1>7. CASE ReadConfirmation \/ EndOfFile \/ ReadBye
  <2>1. Live(cur) => Said(cur) # 1
    <3>1. CASE ReadConfirmation
      BY <3>1, AtServe DEF ReadConfirmation, Receive, Serving, Heard
    <3>2. CASE EndOfFile \/ ReadBye
      BY <3>2, AtServe DEF EndOfFile, ReadBye, Serving, Heard
    <3> QED
      BY <1>7, <3>1, <3>2
  <2>2. cli[d] = "status" => d # cur
    BY <2>1 DEF Said
  <2> QED
    BY <1>7, <2>2 DEF ReadConfirmation, EndOfFile, ReadBye, Up, ConnInv
<1>8. CASE SendChunk \/ SendBye
  <2>1. Live(cur) => Said(cur) >= Heard /\ Heard \in {2, 3}
    BY <1>8, AtServe DEF SendChunk, SendBye, Serving, Heard
  <2>2. cli[d] \in {"idle", "request", "status"} => d # cur
    BY <2>1 DEF Said
  <2>3. s2c'[d] = s2c[d] \/ d = cur
    BY <1>8 DEF SendChunk, SendBye, Reply, TypeOK
  <2>4. cli[d] = "status" => s2c[d] \in {<<>>, <<Msg("NO")>>}
    BY <1>8, <2>2
  <2> QED
    BY <1>8, <2>2, <2>3, <2>4 DEF SendChunk, SendBye, Hangup, TypeOK, Up, ConnInv
<1>9. ASSUME NEW c \in Client, Connect(c) PROVE AnswerOK(d)'
  BY <1>9 DEF Connect, TypeOK, Up
<1>10. ASSUME NEW c \in Client, SendName(c) PROVE AnswerOK(d)'
  <2>1. conn[c] = "open" => srv \notin {"size", "confirm"}
    BY <1>10, AtServe DEF SendName, ConnInv, Said, Heard
  <2>2. conn[c] = "closed" => ~Up
    BY <1>10 DEF SendName, ConnInv
  <2> QED
    BY <1>10, <2>1, <2>2 DEF SendName, TypeOK, Up
<1>11. ASSUME NEW c \in Client,
             \/ ReadStatus(c) \/ ReadSize(c) \/ Confirm(c) \/ OpenDest(c)
             \/ OpenDestFails(c) \/ CopyBytes(c) \/ CopyEnds(c) \/ SayBye(c)
             \/ ReadFarewell(c) \/ ClientBrokenPipe(c) \/ KillClient(c)
      PROVE  AnswerOK(d)'
  <2>1. UNCHANGED <<srv, cur, conn, off, image>>
    BY <1>11 DEF ReadStatus, ReadSize, Confirm, OpenDest, OpenDestFails, CopyBytes,
                 CopyEnds, SayBye, ReadFarewell, ClientBrokenPipe, KillClient
  <2>2. \/ cli'[d] = cli[d] /\ s2c'[d] = s2c[d]
        \/ cli'[d] \notin {"idle", "request", "status"}
    BY <1>11 DEF ReadStatus, ReadSize, Confirm, OpenDest, OpenDestFails, CopyBytes,
                 CopyEnds, SayBye, ReadFarewell, ClientBrokenPipe, KillClient, TypeOK
  <2> QED
    BY <2>1, <2>2 DEF Up
<1> QED
  BY <1>1, <1>2, <1>3, <1>4, <1>5, <1>6, <1>7, <1>8, <1>9, <1>10, <1>11
  DEF Next, Server, ClientStep


LEMMA BusyStep ==
    ASSUME TypeOK, ConnInv, HeardInv, ServeInv, AnswerInv, BusyInv, StreamInv, Next
    PROVE  BusyInv'
<1> SUFFICES ASSUME NEW d \in Client PROVE BusyOK(d)'
  BY DEF BusyInv
<1>0. BusyOK(d) /\ AnswerOK(d) /\ s2c[d] \in Seq(Unit) /\ cur \in Client
  BY DEF AnswerInv, BusyInv, TypeOK
<1> USE <1>0 DEF BusyOK, Live, Gone, SrvGoto, CliGoto, srvVars, cliVars, chanVars
<1>1. ASSUME NEW c \in Client, Accept(c) PROVE BusyOK(d)'
  BY <1>1 DEF Accept, ConnInv, Up, Serving
<1>2. CASE AcceptFails \/ BrokenPipe \/ KillServer
  BY <1>2 DEF AcceptFails, BrokenPipe, KillServer, Exit, Up
<1>3. CASE OpenFile
  BY <1>3 DEF OpenFile, Up, ConnInv
<1>4. CASE Refuse \/ SendBye
  <2>1. d = cur /\ Live(d) => cli[d] \in {"status", "bye"}
    BY <1>4, AtHangup DEF Refuse, SendBye
  <2>2. s2c'[d] = s2c[d] \/ d = cur
    BY <1>4 DEF Refuse, SendBye, Reply, TypeOK
  <2> QED
    BY <1>4, <2>1, <2>2 DEF Refuse, SendBye, Hangup, TypeOK, Up
<1>5. CASE SendOk
  BY <1>5 DEF SendOk, Reply, TypeOK, Up
<1>6. CASE SendSize
  <2>1. CASE d = cur /\ cli[d] = "size"
    <3>1. s2c[d] = <<>> /\ FileSize = Len(image) /\ conn[d] = "open"
      BY <1>6, <2>1, SizeSent DEF SendSize, Up
    <3>2. s2c'[d] = <<SizeMsg(Len(image))>>
      BY <1>6, <2>1, <3>1 DEF SendSize, Reply, TypeOK
    <3> QED
      BY <1>6, <2>1, <3>1, <3>2 DEF SendSize, Up
  <2>2. CASE d # cur \/ cli[d] # "size"
    BY <1>6, <2>2 DEF SendSize, Reply, TypeOK, Up
  <2> QED
    BY <2>1, <2>2
<1>7. CASE ReadConfirmation
  <2>1. Live(cur) => Said(cur) # 1
    BY <1>7, AtServe DEF ReadConfirmation, Receive, Serving, Heard
  <2>2. d = cur => cli[d] \notin {"size", "confirm"}
    BY <2>1 DEF Said
  <2> QED
    BY <1>7, <2>2 DEF ReadConfirmation, Up
<1>8. CASE SendChunk
  BY <1>8 DEF SendChunk, Reply, TypeOK, Up
<1>9. CASE EndOfFile \/ ReadBye
  BY <1>9 DEF EndOfFile, ReadBye, Up
<1>10. ASSUME NEW c \in Client, Connect(c) \/ SendName(c) PROVE BusyOK(d)'
  <2>1. \/ cli'[d] = cli[d] /\ conn'[d] = conn[d]
        \/ cli[d] = "idle" /\ cli'[d] \in {"request", "failed"}
        \/ cli[d] = "request" /\ cli'[d] = "status"
    BY <1>10 DEF Connect, SendName, TypeOK
  <2>2. UNCHANGED <<srv, cur, off, image, size, total, s2c>>
    BY <1>10 DEF Connect, SendName
  <2> QED
    BY <2>1, <2>2 DEF Up
<1>11. ASSUME NEW c \in Client, ReadStatus(c) PROVE BusyOK(d)'
  <2>1. CASE d = c /\ cli'[c] = "size"
    <3>1. s2c[c] # <<>> /\ Head(s2c[c]) = Msg("Ok") /\ s2c'[c] = Tail(s2c[c])
      BY <1>11, <2>1 DEF ReadStatus, TypeOK
    <3>2. s2c[c] # <<Msg("NO")>>
      BY <3>1 DEF Msg
    <3>3. /\ s2c[c] \in {<<Msg("Ok")>>, <<Msg("Ok"), SizeMsg(Len(image))>>}
          /\ c = cur /\ off = 0
      BY <1>11, <2>1, <3>1, <3>2 DEF ReadStatus, AnswerOK
    <3>4. conn[c] \notin {"none", "pending"} /\ (conn[c] = "closed" => ~Up)
      BY <1>11, <2>1, <3>1, <3>2 DEF ReadStatus, AnswerOK, ConnInv
    <3>5. conn[c] = "open" =>
            \/ srv = "size" /\ s2c[c] = <<Msg("Ok")>>
            \/ srv = "confirm" /\ s2c[c] = <<Msg("Ok"), SizeMsg(Len(image))>>
      BY <1>11, <2>1, <3>1 DEF ReadStatus, AnswerOK
    <3>6. Tail(<<Msg("Ok")>>) = <<>>
      OBVIOUS
    <3>7. Tail(<<Msg("Ok"), SizeMsg(Len(image))>>) = <<SizeMsg(Len(image))>>
      OBVIOUS
    <3>8. UNCHANGED <<srv, cur, conn, off, image, size, total>>
      BY <1>11 DEF ReadStatus
    <3>9. conn[c] \in {"open", "closed"} /\ cli[c] = "status"
      BY <1>11, <3>4 DEF ReadStatus, TypeOK
    <3>10. s2c'[c] \in {<<>>, <<SizeMsg(Len(image))>>}
      BY <3>1, <3>3, <3>6, <3>7
    <3>11. conn[c] = "open" =>
            \/ srv = "size" /\ s2c'[c] = <<>>
            \/ srv = "confirm" /\ s2c'[c] # <<>>
      <4>1. <<SizeMsg(Len(image))>> # <<>>
        OBVIOUS
      <4> QED
        BY <3>1, <3>5, <3>6, <3>7, <4>1
    <3>12. total[c] = 0 /\ size[c] = 0
      BY <2>1, <3>9
    <3> QED
      BY <2>1, <3>3, <3>4, <3>8, <3>9, <3>10, <3>11, <3>12 DEF Up
  <2>2. CASE d # c \/ cli'[c] # "size"
    BY <1>11, <2>2 DEF ReadStatus, TypeOK, Up
  <2> QED
    BY <2>1, <2>2
<1>12. ASSUME NEW c \in Client, ReadSize(c) PROVE BusyOK(d)'
  <2>1. CASE d = c /\ s2c[c] # <<>>
    <3>1. s2c[c] = <<SizeMsg(Len(image))>> /\ Len(image) \in Nat
      BY <1>12, <2>1 DEF ReadSize, TypeOK
    <3>2. Atoi(Head(s2c[c])) = Len(image)
      BY <3>1 DEF Atoi, SizeMsg
    <3>3. size'[c] = Len(image) /\ s2c'[c] = <<>>
      BY <1>12, <2>1, <3>1, <3>2 DEF ReadSize, Eof, TypeOK
    <3> QED
      BY <1>12, <2>1, <3>3 DEF ReadSize, TypeOK, Up
  <2>2. CASE d # c \/ s2c[c] = <<>>
    BY <1>12, <2>2 DEF ReadSize, Eof, TypeOK, Up
  <2> QED
    BY <2>1, <2>2
<1>13. ASSUME NEW c \in Client,
              Confirm(c) \/ OpenDest(c) \/ OpenDestFails(c) \/ CopyEnds(c) \/ SayBye(c)
       PROVE  BusyOK(d)'
  BY <1>13 DEF Confirm, OpenDest, OpenDestFails, CopyEnds, SayBye, TypeOK, Up
<1>14. ASSUME NEW c \in Client, CopyBytes(c) PROVE BusyOK(d)'
  BY <1>14 DEF CopyBytes, TypeOK, Up
<1>15. ASSUME NEW c \in Client, ReadFarewell(c) \/ ClientBrokenPipe(c) \/ KillClient(c)
       PROVE  BusyOK(d)'
  BY <1>15 DEF ReadFarewell, ClientBrokenPipe, KillClient, TypeOK, Up
<1> QED
  BY <1>1, <1>2, <1>3, <1>4, <1>5, <1>6, <1>7, <1>8, <1>9, <1>10, <1>11, <1>12, <1>13,
     <1>14, <1>15
  DEF Next, Server, ClientStep


-----------------------------------------------------------------------------
(* The file on its way.                                                    *)

\* Consecutive pieces of a file make one piece, the empty ones included.
LEMMA Pieces ==
    ASSUME NEW S, NEW f \in Seq(S), NEW i \in Nat, NEW j \in Nat, NEW k \in Nat,
           i <= j, j <= k, k <= Len(f)
    PROVE  Piece(f, i, j) \o Piece(f, j, k) = Piece(f, i, k)
<1>1. i + 1 \in 1 .. Len(f) + 1 /\ j \in (i + 1) - 1 .. Len(f) /\ k \in j .. Len(f)
  BY LenProperties
<1> QED
  BY <1>1, ConcatAdjacentSubSeq DEF Piece

LEMMA NoPiece ==
    ASSUME NEW f, NEW i \in Nat, NEW j \in Nat, j <= i
    PROVE  Piece(f, i, j) = <<>>
BY SubSeqEmpty DEF Piece

LEMMA WholePiece ==
    ASSUME NEW S, NEW f \in Seq(S)
    PROVE  Piece(f, 0, Len(f)) = f
BY SubSeqFull, LenProperties DEF Piece

LEMMA PieceLen ==
    ASSUME NEW S, NEW f \in Seq(S), NEW i \in Nat, NEW j \in Nat, i <= j, j <= Len(f)
    PROVE  Len(Piece(f, i, j)) = j - i
<1>1. \A k \in i + 1 .. j : f[k] \in S
  BY LenProperties, ElementOfSeq
<1> QED
  BY <1>1, SubSeqProperties DEF Piece

\* Taking n units off a piece of a file leaves the piece n further on.
LEMMA Taking ==
    ASSUME NEW S, NEW f \in Seq(S), NEW i \in Nat, NEW j \in Nat,
           i <= j, j <= Len(f),
           NEW n \in 1 .. Len(Piece(f, i, j))
    PROVE  /\ i + n <= j
           /\ SubSeq(Piece(f, i, j), 1, n) = Piece(f, i, i + n)
           /\ SubSeq(Piece(f, i, j), n + 1, Len(Piece(f, i, j))) = Piece(f, i + n, j)
<1> USE DEF Piece
<1> DEFINE s == SubSeq(f, i + 1, j)
<1>1. Len(f) \in Nat /\ \A k \in i + 1 .. j : f[k] \in S
  BY LenProperties, ElementOfSeq
<1>2. /\ s \in Seq(S) /\ Len(s) = IF i + 1 <= j THEN j - i ELSE 0
  BY <1>1, SubSeqProperties
<1>3. i < j /\ Len(s) = j - i /\ n <= j - i
  BY <1>2
<1>4. i + 1 \in 1 .. Len(f) /\ j \in 1 .. Len(f)
  BY <1>1, <1>3
<1>5. SubSeq(s, 1, n) = SubSeq(f, i + 1, i + n)
  <2>1. 1 \in 1 .. j - (i + 1) + 1 /\ n \in 1 .. j - (i + 1) + 1
    BY <1>3
  <2>2. SubSeq(s, 1, n) = SubSeq(f, (i + 1) + 1 - 1, (i + 1) + n - 1)
    BY <1>2, <1>4, <2>1, SubSeqOfSubSeq
  <2> QED
    BY <2>2, <1>3
<1>6. SubSeq(s, n + 1, Len(s)) = SubSeq(f, i + n + 1, j)
  <2>1. CASE n < j - i
    <3>1. n + 1 \in 1 .. j - (i + 1) + 1 /\ Len(s) \in 1 .. j - (i + 1) + 1
      BY <1>3, <2>1
    <3>2. SubSeq(s, n + 1, Len(s)) = SubSeq(f, (i + 1) + (n + 1) - 1, (i + 1) + Len(s) - 1)
      BY <1>2, <1>4, <3>1, SubSeqOfSubSeq
    <3> QED
      BY <3>2, <1>3
  <2>2. CASE n = j - i
    <3>1. SubSeq(s, n + 1, Len(s)) = <<>>
      BY <1>3, <2>2, SubSeqEmpty
    <3>2. SubSeq(f, i + n + 1, j) = <<>>
      BY <1>3, <2>2, SubSeqEmpty
    <3> QED
      BY <3>1, <3>2
  <2> QED
    BY <1>3, <2>1, <2>2
<1> QED
  BY <1>3, <1>5, <1>6


\* A copy of the first i bytes grows by the n taken off the piece behind it.
LEMMA Growing ==
    ASSUME NEW S, NEW f \in Seq(S), NEW i \in Nat, NEW j \in Nat, i <= j, j <= Len(f),
           NEW n \in 1 .. Len(Piece(f, i, j))
    PROVE  /\ i + n \in Nat /\ i + n <= j
           /\ Piece(f, 0, i) \o SubSeq(Piece(f, i, j), 1, n) = Piece(f, 0, i + n)
           /\ SubSeq(Piece(f, i, j), n + 1, Len(Piece(f, i, j))) = Piece(f, i + n, j)
<1>1. /\ i + n <= j
      /\ SubSeq(Piece(f, i, j), 1, n) = Piece(f, i, i + n)
      /\ SubSeq(Piece(f, i, j), n + 1, Len(Piece(f, i, j))) = Piece(f, i + n, j)
  BY Taking
<1>2. Len(f) \in Nat
  BY LenProperties
<1>3. 0 \in Nat /\ 0 <= i /\ i <= i + n /\ i + n <= Len(f) /\ i + n \in Nat
  BY <1>1, <1>2
<1>4. Piece(f, 0, i) \o Piece(f, i, i + n) = Piece(f, 0, i + n)
  BY <1>3, Pieces
<1> QED
  BY <1>1, <1>3, <1>4

\* So does the copy of a client that reads n bytes.
LEMMA CopyGrows ==
    ASSUME NEW d, NEW n,
           image \in Seq(Byte) /\ total[d] \in Nat /\ off \in Nat,
           total[d] <= off /\ off <= Len(image),
           s2c[d] = Piece(image, total[d], off) /\ dest = Piece(image, 0, total[d]),
           n \in 1 .. Len(Piece(image, total[d], off))
    PROVE  /\ total[d] + n <= off
           /\ dest \o SubSeq(s2c[d], 1, n) = Piece(image, 0, total[d] + n)
           /\ SubSeq(s2c[d], n + 1, Len(s2c[d])) = Piece(image, total[d] + n, off)
<1>1. /\ total[d] + n <= off
      /\ Piece(image, 0, total[d]) \o SubSeq(Piece(image, total[d], off), 1, n)
            = Piece(image, 0, total[d] + n)
      /\ SubSeq(Piece(image, total[d], off), n + 1, Len(Piece(image, total[d], off)))
            = Piece(image, total[d] + n, off)
  <2>1. image \in Seq(Byte) /\ total[d] \in Nat /\ off \in Nat
    OBVIOUS
  <2>2. total[d] <= off /\ off <= Len(image)
    OBVIOUS
  <2>3. n \in 1 .. Len(Piece(image, total[d], off))
    OBVIOUS
  <2> QED
    BY ONLY <2>1, <2>2, <2>3, Growing, ZenonT(60)
<1> QED
  BY <1>1, Zenon

\* What the server sends a live client is the next piece of the file, even
\* when that file is the one the client is overwriting.
LEMMA ChunkShape ==
    ASSUME TypeOK, ConnInv, ServeInv, BusyInv, StreamInv, SendChunk, Live(cur),
           cli[cur] \in {"open", "copy", "sendBye", "bye"}
    PROVE  /\ cli[cur] \in {"open", "copy"}
           /\ off' \in Nat /\ off < off' /\ off' <= Len(image)
           /\ Chunk = Piece(image, off, off')
<1>1. srv = "file" /\ Chunk # <<>> /\ off' = off + Len(Chunk)
  BY DEF SendChunk
<1>2. cur \in Client /\ conn[cur] = "open" /\ StreamOK(cur)
  BY <1>1 DEF TypeOK, ConnInv, Serving, StreamInv
<1>3. off \in Nat /\ image \in Seq(Byte) /\ Len(image) \in Nat /\ total[cur] \in Nat
  BY <1>2 DEF TypeOK
<1>4. ASSUME NEW f \in Seq(Byte), Content(want[cur]) = f PROVE off < Len(f)
  <2>1. Len(f) \in Nat
    OBVIOUS
  <2>2. Min2(off + BUFFERSIZE, Len(f)) \in Int /\ Min2(off + BUFFERSIZE, Len(f)) <= Len(f)
    BY <1>3, <2>1, BoundAssumption DEF Min2
  <2>3. CASE off >= Len(f)
    <3>1. SubSeq(f, off + 1, Min2(off + BUFFERSIZE, Len(f))) = <<>>
      BY <1>3, <2>1, <2>2, <2>3, SubSeqEmpty
    <3> QED
      BY <1>1, <1>4, <3>1 DEF Chunk
  <2> QED
    BY <1>3, <2>1, <2>3
<1>5. Content(want[cur]) = image
  <2>1. CASE image = Source[want[cur]] /\ want[cur] \in Name
    BY <2>1, NameAssumption DEF Content
  <2>2. CASE want[cur] = Dest /\ cli[cur] = "open"
    BY <1>1, <2>2, NameAssumption DEF ServeInv, Content
  <2>3. CASE want[cur] = Dest /\ cli[cur] # "open"
    <3>1. dest \in Seq(Byte) /\ Len(dest) \in Nat
      BY DEF TypeOK
    <3>2. cli[cur] \in {"copy", "sendBye"} \/ cli[cur] = "bye"
      BY <2>3
    <3>3. ASSUME cli[cur] \in {"copy", "sendBye"} PROVE Len(dest) <= off
      <4>1. dest = Piece(image, 0, total[cur]) /\ total[cur] <= off /\ off <= Len(image)
        BY ONLY <1>2, <3>3 DEF StreamOK, Copying
      <4>2. total[cur] <= Len(image) /\ 0 <= total[cur] /\ 0 \in Nat
        BY <1>3, <4>1
      <4>3. Len(Piece(image, 0, total[cur])) = total[cur] - 0
        BY ONLY <1>3, <4>2, PieceLen
      <4> QED
        BY <1>3, <4>1, <4>3
    <3>4. ASSUME cli[cur] = "bye" PROVE Len(dest) <= off
      BY ONLY <1>2, <1>3, <3>4 DEF StreamOK
    <3>5. off < Len(dest)
      BY <1>4, <2>3, <3>1 DEF Content
    <3>6. Len(dest) <= off
      BY <3>2, <3>3, <3>4
    <3> QED
      BY <1>3, <3>1, <3>5, <3>6
  <2> QED
    BY <1>1, <2>1, <2>2, <2>3 DEF ServeInv
<1>6. off < Len(image)
  BY <1>3, <1>4, <1>5
<1>7. cli[cur] \in {"open", "copy"}
  BY <1>2, <1>3, <1>6 DEF StreamOK
<1> DEFINE m == Min2(off + BUFFERSIZE, Len(image))
<1>8. m \in Nat /\ off < m /\ m <= Len(image)
  BY <1>3, <1>6, BoundAssumption DEF Min2
<1>9. Chunk = Piece(image, off, m)
  BY <1>5 DEF Chunk, Piece
<1>10. Len(Chunk) = m - off
  <2> HIDE DEF m
  <2>1. Len(Piece(image, off, m)) = m - off
    BY ONLY <1>3, <1>8, PieceLen
  <2> QED
    BY <1>9, <2>1
<1>11. off' = m
  BY <1>1, <1>3, <1>8, <1>10
<1> QED
  BY <1>7, <1>8, <1>9, <1>11


LEMMA StreamStep ==
    ASSUME TypeOK, ConnInv, HeardInv, ServeInv, AnswerInv, BusyInv, StreamInv, Next
    PROVE  StreamInv'
<1> SUFFICES ASSUME NEW d \in Client PROVE StreamOK(d)'
  BY DEF StreamInv
<1>0. /\ StreamOK(d) /\ BusyOK(d) /\ cur \in Client
      /\ image \in Seq(Byte) /\ Len(image) \in Nat /\ dest \in Seq(Byte)
      /\ off \in Nat /\ total[d] \in Nat
      /\ conn[d] = "open" => Serving /\ d = cur
  BY DEF BusyInv, StreamInv, TypeOK, ConnInv
<1> USE <1>0 DEF StreamOK, Live, Gone, Copying, SrvGoto, CliGoto, srvVars, cliVars, chanVars
<1>1. ASSUME NEW c \in Client, Accept(c) PROVE StreamOK(d)'
  <2>1. cli[d] \notin {"open", "copy", "sendBye"}
    BY <1>1 DEF Accept, ConnInv, Up, Serving, TypeOK, BusyOK
  <2>2. cli[d] = "bye" => conn'[d] # "open"
    BY <1>1 DEF Accept, ConnInv, Serving, TypeOK
  <2> QED
    BY <1>1, <2>1, <2>2 DEF Accept
<1>2. CASE AcceptFails \/ BrokenPipe \/ KillServer
  BY <1>2 DEF AcceptFails, BrokenPipe, KillServer, Exit
<1>3. CASE OpenFile \/ SendOk \/ SendSize
  <2>1. cli[d] \notin {"open", "copy", "sendBye"}
    BY <1>3 DEF OpenFile, SendOk, SendSize, BusyOK, Up
  <2>2. cli[d] = "bye" => conn[d] # "open"
    BY <1>3 DEF OpenFile, SendOk, SendSize
  <2>3. UNCHANGED <<cli, conn>>
    BY <1>3 DEF OpenFile, SendOk, SendSize
  <2> QED
    BY <2>1, <2>2, <2>3
<1>4. CASE Refuse \/ SendBye
  <2>1. cli[d] \notin {"open", "copy", "sendBye"}
    BY <1>4, AtHangup DEF Refuse, SendBye, BusyOK
  <2>2. cli[d] = "bye" => conn'[d] # "open"
    BY <1>4 DEF Refuse, SendBye, Hangup, TypeOK
  <2>3. UNCHANGED cli
    BY <1>4 DEF Refuse, SendBye
  <2> QED
    BY <2>1, <2>2, <2>3
<1>5. CASE ReadConfirmation \/ EndOfFile
  BY <1>5 DEF ReadConfirmation, EndOfFile
<1>6. CASE ReadBye
  <2>1. Live(cur) => Said(cur) > 2
    BY <1>6, AtServe DEF ReadBye, Receive, Serving, Heard
  <2>2. d = cur => cli[d] \notin {"open", "copy", "sendBye"}
    BY <2>1 DEF Said
  <2> QED
    BY <1>6, <2>2 DEF ReadBye
<1>7. CASE SendChunk
  <2>1. CASE d = cur /\ cli[d] \in {"open", "copy", "sendBye", "bye"}
    <3>1. /\ cli[d] \in {"open", "copy"}
          /\ off' \in Nat /\ off < off' /\ off' <= Len(image)
          /\ Chunk = Piece(image, off, off')
      BY <1>7, <2>1, ChunkShape
    <3>2. s2c'[d] = Piece(image, total[d], off) \o Piece(image, off, off')
      BY <1>7, <2>1, <3>1 DEF SendChunk, Reply, TypeOK
    <3>3. s2c'[d] = Piece(image, total[d], off')
      <4>1. total[d] <= off /\ off <= off'
        BY <1>0, <3>1
      <4> QED
        BY ONLY <1>0, <3>1, <3>2, <4>1, Pieces, ZenonT(60)
    <3>4. UNCHANGED <<cli, conn, srv, total, size, image, dest, want>> /\ srv = "file"
      BY <1>7 DEF SendChunk
    <3> QED
      BY <3>1, <3>3, <3>4
  <2>2. CASE d # cur \/ cli[d] \notin {"open", "copy", "sendBye", "bye"}
    BY <1>7, <2>2 DEF SendChunk, BusyOK
  <2> QED
    BY <2>1, <2>2
<1>8. ASSUME NEW c \in Client,
             Connect(c) \/ SendName(c) \/ ReadStatus(c) \/ ReadSize(c)
      PROVE  StreamOK(d)'
  <2>1. UNCHANGED <<srv, off, image, total, dest>>
    BY <1>8 DEF Connect, SendName, ReadStatus, ReadSize
  <2>2. \/ UNCHANGED <<cli[d], size[d], s2c[d], conn[d]>>
        \/ cli'[d] \notin {"open", "copy", "sendBye", "bye"}
    BY <1>8, SMTT(40) DEF Connect, SendName, ReadStatus, ReadSize, TypeOK
  <2> QED
    BY <2>1, <2>2
<1>9. ASSUME NEW c \in Client, Confirm(c) PROVE StreamOK(d)'
  <2>1. CASE d = c
    <3>1. /\ cli[d] = "confirm" /\ cli'[d] = "open"
          /\ UNCHANGED <<srv, off, image, total, size, s2c, conn, dest>>
      BY <1>9, <2>1 DEF Confirm, TypeOK
    <3>2. Piece(image, total[d], off) = <<>>
      BY <3>1, NoPiece DEF BusyOK
    <3>3. /\ off = 0 /\ total[d] = 0 /\ s2c[d] = <<>>
          /\ size[d] \in {0, Len(image)}
          /\ conn[d] = "open" => srv = "confirm" /\ size[d] = Len(image)
          /\ srv # "down" => conn[d] = "open"
      BY ONLY <1>0, <3>1 DEF BusyOK, Up
    <3> QED
      BY <3>1, <3>2, <3>3
  <2>2. CASE d # c
    BY <1>9, <2>2 DEF Confirm, TypeOK
  <2> QED
    BY <2>1, <2>2
<1>10. ASSUME NEW c \in Client, OpenDest(c) PROVE StreamOK(d)'
  <2>1. CASE d = c
    <3>1. Piece(image, 0, total[d]) = <<>>
      BY <1>10, <2>1, NoPiece DEF OpenDest, BusyOK
    <3> QED
      BY <1>10, <2>1, <3>1 DEF OpenDest, TypeOK
  <2>2. CASE d # c
    <3>1. c = cur /\ cli[d] \notin Copying /\ ~(cli[d] = "bye" /\ conn[d] = "open")
      BY <1>10, <2>2 DEF OpenDest, BusyInv, BusyOK
    <3> QED
      BY <1>10, <2>2, <3>1 DEF OpenDest, TypeOK
  <2> QED
    BY <2>1, <2>2
<1>11. ASSUME NEW c \in Client, CopyBytes(c) PROVE StreamOK(d)'
  <2>1. CASE d = c
    <3>1. PICK n \in 1 .. Min2(BUFFERSIZE, Len(s2c[c])) :
            /\ dest' = dest \o SubSeq(s2c[c], 1, n)
            /\ s2c' = [s2c EXCEPT ![c] = SubSeq(@, n + 1, Len(@))]
            /\ total' = [total EXCEPT ![c] = @ + n]
      BY <1>11 DEF CopyBytes
    <3>2. /\ cli[d] = "copy" /\ total[d] <= off /\ off <= Len(image)
          /\ s2c[d] = Piece(image, total[d], off)
          /\ dest = Piece(image, 0, total[d])
      BY <1>11, <2>1 DEF CopyBytes
    <3>3. n \in 1 .. Len(Piece(image, total[d], off))
      <4>1. Len(s2c[c]) \in Nat
        BY DEF TypeOK
      <4> QED
        BY <2>1, <3>2, <4>1, BoundAssumption DEF Min2
    <3>4. /\ total[d] + n <= off
          /\ dest \o SubSeq(s2c[d], 1, n) = Piece(image, 0, total[d] + n)
          /\ SubSeq(s2c[d], n + 1, Len(s2c[d])) = Piece(image, total[d] + n, off)
      <4>1. image \in Seq(Byte) /\ total[d] \in Nat /\ off \in Nat
        BY <1>0
      <4>2. total[d] <= off /\ off <= Len(image)
        BY <3>2
      <4> QED
        BY ONLY <3>2, <3>3, <4>1, <4>2, CopyGrows
    <3>5. dest' = Piece(image, 0, total[d] + n)
      BY ONLY <2>1, <3>1, <3>4
    <3>6. total'[d] = total[d] + n /\ s2c'[d] = Piece(image, total'[d], off)
      BY <2>1, <3>1, <3>4 DEF TypeOK
    <3>7. UNCHANGED <<srv, off, image, conn, cli, size>>
      BY <1>11 DEF CopyBytes
    <3> QED
      BY <3>2, <3>4, <3>5, <3>6, <3>7
  <2>2. CASE d # c
    <3>1. c = cur /\ cli[d] \notin Copying /\ ~(cli[d] = "bye" /\ conn[d] = "open")
      BY <1>11, <2>2 DEF CopyBytes, BusyInv, BusyOK
    <3> QED
      BY <1>11, <2>2, <3>1 DEF CopyBytes, TypeOK
  <2> QED
    BY <2>1, <2>2
<1>12. ASSUME NEW c \in Client, CopyEnds(c) PROVE StreamOK(d)'
  <2>1. d = c /\ conn[d] = "open" => total[d] = Len(image)
    BY <1>12 DEF CopyEnds, Eof, Serving
  <2> QED
    BY <1>12, <2>1 DEF CopyEnds, TypeOK
<1>13. ASSUME NEW c \in Client, SayBye(c) PROVE StreamOK(d)'
  <2>1. CASE d = c /\ conn[d] = "open"
    <3>1. total[d] = Len(image) /\ off = Len(image) /\ cli[d] = "sendBye"
      BY <1>13, <2>1 DEF SayBye
    <3>2. dest = image
      BY <3>1, WholePiece
    <3>3. s2c[d] = <<>>
      <4>1. s2c[d] = Piece(image, total[d], off) /\ off <= total[d]
        BY <1>0, <3>1
      <4> QED
        BY <1>0, <4>1, NoPiece
    <3>4. size[d] = Len(image) /\ srv \in {"confirm", "file", "bye"}
      BY <2>1, <3>1 DEF Serving
    <3> QED
      BY <1>13, <2>1, <3>1, <3>2, <3>3, <3>4 DEF SayBye, TypeOK
  <2>2. CASE d # c \/ conn[d] # "open"
    BY <1>13, <2>2 DEF SayBye, TypeOK
  <2> QED
    BY <2>1, <2>2
<1>14. ASSUME NEW c \in Client,
              OpenDestFails(c) \/ ReadFarewell(c) \/ ClientBrokenPipe(c) \/ KillClient(c)
       PROVE  StreamOK(d)'
  <2>1. UNCHANGED <<srv, off, image, total, dest, size, conn>>
    BY <1>14 DEF OpenDestFails, ReadFarewell, ClientBrokenPipe, KillClient
  <2>2. UNCHANGED <<cli[d], s2c[d]>> \/ cli'[d] \in Gone
    BY <1>14 DEF OpenDestFails, ReadFarewell, ClientBrokenPipe, KillClient, TypeOK
  <2> QED
    BY <2>1, <2>2
<1> QED
  BY <1>1, <1>2, <1>3, <1>4, <1>5, <1>6, <1>7, <1>8, <1>9, <1>10, <1>11, <1>12, <1>13,
     <1>14
  DEF Next, Server, ClientStep

-----------------------------------------------------------------------------
(* The inductive invariant and what follows from it.                       *)

LEMMA InitIInv == Init => IInv
<1> SUFFICES ASSUME Init PROVE IInv
  OBVIOUS
<1>1. TypeOK /\ LoopInv
  BY InitType
<1>2. ConnInv
  BY DEF Init, ConnInv, Serving, Up, Gone
<1>3. HeardInv /\ ServeInv /\ AnswerInv /\ BusyInv /\ StreamInv
  BY DEF Init, HeardInv, HeardOK, ServeInv, AnswerInv, AnswerOK, BusyInv, BusyOK,
     StreamInv, StreamOK, Copying
<1> QED
  BY <1>1, <1>2, <1>3 DEF IInv

LEMMA StepIInv == IInv /\ [Next]_vars => IInv'
<1> SUFFICES ASSUME IInv, [Next]_vars PROVE IInv'
  OBVIOUS
<1>1. CASE Next
  <2>1. TypeOK' /\ LoopInv'
    BY <1>1, ServerType, ClientType, OtherType DEF IInv, Next, TypeOK
  <2>2. ConnInv' /\ HeardInv' /\ ServeInv'
    BY <1>1, ConnStep, HeardStep, ServeStep DEF IInv
  <2>3. AnswerInv' /\ BusyInv' /\ StreamInv'
    BY <1>1, AnswerStep, BusyStep, StreamStep DEF IInv
  <2> QED
    BY <2>1, <2>2, <2>3 DEF IInv
<1>2. CASE UNCHANGED vars
  <2>1. TypeOK' /\ LoopInv' /\ ConnInv'
    BY <1>2 DEF IInv, vars, TypeOK, LoopInv, ConnInv, Serving, Up, Exists
  <2>2. HeardInv' /\ ServeInv'
    BY <1>2 DEF IInv, vars, HeardInv, HeardOK, Live, Said, Heard, ServeInv
  <2>3. AnswerInv' /\ BusyInv' /\ StreamInv'
    BY <1>2 DEF IInv, vars, AnswerInv, AnswerOK, BusyInv, BusyOK, StreamInv, StreamOK,
       Up
  <2> QED
    BY <2>1, <2>2, <2>3 DEF IInv
<1> QED
  BY <1>1, <1>2

\* The inductive invariant holds in every state of the protocol.
THEOREM Inductive == Spec => []IInv
<1> QED
  BY InitIInv, StepIInv, PTL DEF Spec

(* Every variable keeps its type: no offset, size or descriptor count of   *)
(* server.c or client.c leaves its range, and no channel ever holds a      *)
(* message of the other direction.                                         *)
THEOREM TypeCorrect == Spec => []TypeOK
<1>1. IInv => TypeOK
  BY DEF IInv
<1> QED
  BY <1>1, Inductive, PTL

(* However many files server.c:116 has leaked, the server is in accept     *)
(* only while a descriptor is left for the next client.                    *)
THEOREM NeverStarves == Spec => []AcceptNeverStarves
<1>1. IInv => AcceptNeverStarves
  BY DEF IInv, LoopInv, AcceptNeverStarves
<1> QED
  BY <1>1, Inductive, PTL

(* The server's taking clients one by one is enough to keep two of them    *)
(* from writing archivoRecivido.txt at once, even when the server dies.    *)
THEOREM Exclusive == Spec => []OneWriter
<1>1. IInv => OneWriter
  BY DEF IInv, BusyInv, BusyOK, OneWriter, Copying
<1> QED
  BY <1>1, Inductive, PTL

(* What a client has saved is always a prefix of the file the server       *)
(* opened for it.                                                          *)
THEOREM CopyCorrect == Spec => []CopyIsPrefix
<1>1. ASSUME IInv PROVE CopyIsPrefix
  <2> SUFFICES ASSUME NEW c \in Client, cli[c] \in Copying
               PROVE  total[c] <= Len(image) /\ dest = SubSeq(image, 1, total[c])
    BY DEF CopyIsPrefix
  <2>1. /\ total[c] <= off /\ off <= Len(image) /\ dest = Piece(image, 0, total[c])
        /\ total[c] \in Nat /\ off \in Nat /\ Len(image) \in Nat
    BY <1>1 DEF IInv, StreamInv, StreamOK, Copying, TypeOK
  <2> QED
    BY <2>1 DEF Piece
<1> QED
  BY <1>1, Inductive, PTL

(* A client never reads past the end of its file into the server's Bye.    *)
THEOREM StopsInTime == Spec => []NoOverread
<1>1. ASSUME IInv PROVE NoOverread
  <2> SUFFICES ASSUME NEW c \in Client, cli[c] \in Copying
               PROVE  total[c] <= size[c]
    BY DEF NoOverread
  <2>1. /\ total[c] <= off /\ off <= Len(image)
        /\ size[c] = Len(image) \/ (size[c] = 0 /\ off = 0)
        /\ total[c] \in Nat /\ off \in Nat /\ Len(image) \in Nat
    BY <1>1 DEF IInv, StreamInv, StreamOK, Copying, TypeOK
  <2> QED
    BY <2>1
<1> QED
  BY <1>1, Inductive, PTL

(* A live client that the server says Bye to has the whole file: it said   *)
(* Bye itself, which it does only at the end of the file.                  *)
THEOREM Farewell == Spec => FarewellMeansComplete
<1> DEFINE Complete == srv = "sendBye" /\ srv' = "accept" /\ cli[cur] \notin Gone
                          => dest = image /\ total[cur] = size[cur]
<1>1. IInv => Complete
  <2> SUFFICES ASSUME IInv, srv = "sendBye", Live(cur)
               PROVE  dest = image /\ total[cur] = size[cur]
    BY DEF Live
  <2>1. cur \in Client /\ conn[cur] = "open"
    BY DEF IInv, TypeOK, ConnInv, Serving
  <2>2. cli[cur] = "bye"
    BY AtHangup DEF IInv
  <2> QED
    BY <2>1, <2>2 DEF IInv, StreamInv, StreamOK
<1>2. Spec => [][Complete]_vars
  BY <1>1, Inductive, PTL
<1> QED
  BY <1>2 DEF FarewellMeansComplete

-----------------------------------------------------------------------------
(* FTProtocol implements FileCopies, for every value of its constants: the *)
(* refinement that FTProtocol.cfg checks on two clients.                   *)

\* The server has answered this client Ok, and it has not opened Dest yet.
Granted(c) ==
    \/ cli[c] \in {"size", "confirm", "open"}
    \/ cli[c] = "status" /\ s2c[c] # <<>> /\ Head(s2c[c]) = Msg("Ok")

\* The file the server has opened for it is the one it asked for, as it is now.
Asked(c) ==
    \/ want[c] \in Name /\ image = Source[want[c]]
    \/ want[c] = Dest /\ image = dest
GoalOK(c) == Granted(c) => Asked(c)
GoalInv == \A c \in Client : GoalOK(c)

\* The client the server is at is the only one granted.
LEMMA GrantedIsServed ==
    ASSUME IInv, NEW c \in Client, Granted(c)
    PROVE  c = cur /\ srv \notin {"accept", "name", "no", "sendBye"}
<1>1. conn[c] # "none" /\ conn[c] \in {"none", "pending", "open", "closed"}
  BY DEF IInv, ConnInv, TypeOK, Granted
<1>2. Msg("NO") # Msg("Ok")
  BY DEF Msg
<1>3. CASE cli[c] = "status"
  <2>1. AnswerOK(c) /\ Head(s2c[c]) = Msg("Ok") /\ s2c[c] # <<>>
    BY <1>3 DEF IInv, AnswerInv, Granted
  <2>2. s2c[c] # <<Msg("NO")>>
    BY <1>2, <2>1
  <2> QED
    BY <1>1, <1>3, <2>1, <2>2 DEF AnswerOK, IInv, ConnInv, Up
<1>4. CASE cli[c] # "status"
  <2>1. BusyOK(c) /\ StreamOK(c) /\ cli[c] \in {"size", "confirm", "open"}
    BY <1>4 DEF IInv, BusyInv, StreamInv, Granted
  <2> QED
    BY <2>1 DEF BusyOK, StreamOK, Up
<1> QED
  BY <1>3, <1>4

LEMMA GoalStep ==
    ASSUME IInv, GoalInv, Next
    PROVE  GoalInv'
<1> SUFFICES ASSUME NEW d \in Client PROVE GoalOK(d)'
  BY DEF GoalInv
<1>0. GoalOK(d) /\ (Granted(d) => d = cur)
  BY GrantedIsServed DEF GoalInv
<1> USE DEF SrvGoto, CliGoto, srvVars, cliVars, chanVars
<1>1. ASSUME UNCHANGED <<cli, s2c, want, image, dest>> PROVE GoalOK(d)'
  BY <1>0, <1>1 DEF GoalOK, Granted, Asked
<1>2. CASE (\E c \in Client : Accept(c)) \/ AcceptFails \/ BrokenPipe \/ KillServer
           \/ ReadConfirmation \/ EndOfFile \/ ReadBye
  BY <1>1, <1>2 DEF Accept, AcceptFails, BrokenPipe, KillServer, Exit,
     ReadConfirmation, EndOfFile, ReadBye
<1>3. CASE OpenFile
  <2>1. ~Granted(d)
    BY <1>3, GrantedIsServed DEF OpenFile
  <2> QED
    BY <1>3, <2>1 DEF OpenFile, GoalOK, Granted
<1>4. CASE SendOk \/ SendSize \/ SendChunk
  <2>1. UNCHANGED <<cli, want, image, dest>> /\ srv \in {"ok", "size", "file"}
    BY <1>4 DEF SendOk, SendSize, SendChunk
  <2>2. CASE d = cur /\ Live(cur)
    <3>1. cli[d] \in {"status", "size", "confirm", "open"} => Asked(d)
      BY <2>1, <2>2 DEF IInv, ServeInv, Asked
    <3> QED
      BY <2>1, <3>1 DEF GoalOK, Granted, Asked
  <2>3. CASE d # cur \/ ~Live(cur)
    <3>1. s2c'[d] = s2c[d]
      BY <1>4, <2>3 DEF SendOk, SendSize, SendChunk, Reply, Live, IInv, TypeOK
    <3> QED
      BY <1>0, <2>1, <3>1 DEF GoalOK, Granted, Asked
  <2> QED
    BY <2>2, <2>3
<1>5. CASE Refuse \/ SendBye
  <2>1. UNCHANGED <<cli, want, image, dest>> /\ srv \in {"no", "sendBye"}
    BY <1>5 DEF Refuse, SendBye
  <2>2. ~Granted(d)
    BY <2>1, GrantedIsServed
  <2>3. CASE d = cur /\ Live(cur) /\ srv = "sendBye"
    BY <2>1, <2>3, AtHangup DEF IInv, GoalOK, Granted
  <2>4. CASE d = cur /\ Live(cur) /\ srv = "no"
    <3>1. cli[d] = "status" /\ conn[d] = "open"
      BY <2>4, AtHangup DEF IInv, ConnInv, Serving
    <3>2. s2c[d] = <<>>
      BY <2>4, <3>1 DEF IInv, AnswerInv, AnswerOK
    <3>3. s2c'[d] = <<>> \o <<Msg("NO")>>
      BY <1>5, <2>4, <3>2 DEF Refuse, SendBye, Reply, Live, IInv, TypeOK
    <3>4. s2c'[d] = <<Msg("NO")>> /\ Msg("NO") # Msg("Ok")
      BY <3>3 DEF Msg
    <3> QED
      BY <2>1, <3>1, <3>4 DEF GoalOK, Granted
  <2>5. CASE d # cur \/ ~Live(cur)
    <3>1. s2c'[d] = s2c[d]
      BY <1>5, <2>5 DEF Refuse, SendBye, Reply, Live, IInv, TypeOK
    <3> QED
      BY <2>1, <2>2, <3>1 DEF GoalOK, Granted
  <2> QED
    BY <2>1, <2>3, <2>4, <2>5
<1>6. ASSUME NEW c \in Client,
             Connect(c) \/ SendName(c) \/ ReadStatus(c) \/ ReadSize(c) \/ Confirm(c)
      PROVE  GoalOK(d)'
  <2>1. UNCHANGED <<want, image, dest>>
    BY <1>6 DEF Connect, SendName, ReadStatus, ReadSize, Confirm
  <2>2. Granted(d)' => Granted(d)
    <3>1. CASE d # c
      BY <1>6, <3>1 DEF Connect, SendName, ReadStatus, ReadSize, Confirm, Granted,
         IInv, TypeOK
    <3>2. CASE d = c
      <4>1. CASE Connect(c) \/ ReadStatus(c) \/ ReadSize(c) \/ Confirm(c)
        BY <3>2, <4>1 DEF Connect, ReadStatus, ReadSize, Confirm, Granted, IInv, TypeOK
      <4>2. CASE SendName(c)
        BY <3>2, <4>2 DEF SendName, Granted, IInv, TypeOK, AnswerInv, AnswerOK
      <4> QED
        BY <1>6, <4>1, <4>2
    <3> QED
      BY <3>1, <3>2
  <2> QED
    BY <1>0, <2>1, <2>2 DEF GoalOK, Asked
<1>7. ASSUME NEW c \in Client, OpenDest(c) \/ CopyBytes(c) PROVE GoalOK(d)'
  <2>1. c = cur /\ cli'[c] = "copy"
    BY <1>7 DEF OpenDest, CopyBytes, IInv, BusyInv, BusyOK, TypeOK
  <2>2. d # c => cli'[d] = cli[d] /\ s2c'[d] = s2c[d]
    BY <1>7 DEF OpenDest, CopyBytes, IInv, TypeOK
  <2> QED
    BY <1>0, <2>1, <2>2 DEF GoalOK, Granted
<1>8. ASSUME NEW c \in Client,
             OpenDestFails(c) \/ CopyEnds(c) \/ SayBye(c) \/ ReadFarewell(c)
             \/ ClientBrokenPipe(c) \/ KillClient(c)
      PROVE  GoalOK(d)'
  <2>1. UNCHANGED <<want, image, dest>>
    BY <1>8 DEF OpenDestFails, CopyEnds, SayBye, ReadFarewell, ClientBrokenPipe,
       KillClient
  <2>2. Granted(d)' => Granted(d)
    BY <1>8 DEF OpenDestFails, CopyEnds, SayBye, ReadFarewell, ClientBrokenPipe,
       KillClient, Granted, Gone, IInv, TypeOK
  <2> QED
    BY <1>0, <2>1, <2>2 DEF GoalOK, Asked
<1> QED
  BY <1>2, <1>3, <1>4, <1>5, <1>6, <1>7, <1>8 DEF Next, Server, ClientStep

-----------------------------------------------------------------------------
(* Each step of the protocol is a step of FileCopies or leaves its         *)
(* variables as they are.                                                  *)

Stage == [c \in Client |-> CopyState(c)]
Goal == IF \E c \in Client : cli[c] \in Copying THEN image ELSE <<>>

LEMMA InitMaps == Init => Copies!Init
BY DEF Init, Copies!Init, CopyState, Copying, Gone

\* A client still waiting ends.
LEMMA GiveUpMaps ==
    ASSUME TypeOK, NEW c \in Client, NEW p \in Gone, cli' = [cli EXCEPT ![c] = p],
           CopyState(c) = "waiting", UNCHANGED <<want, image, dest>>
    PROVE  Copies!GiveUp(c)
<1>1. \A d \in Client : cli'[d] = IF d = c THEN p ELSE cli[d]
  BY DEF TypeOK
<1>2. \A d \in Client : cli'[d] \in Copying <=> cli[d] \in Copying
  BY <1>1 DEF CopyState, Copying, Gone
<1>3. Goal' = Goal
  BY <1>2 DEF Goal
<1>4. Stage' = [Stage EXCEPT ![c] = "over"]
  BY <1>1 DEF Stage, CopyState, Copying, Gone
<1> QED
  BY <1>3, <1>4 DEF Goal, Stage, Copies!GiveUp

\* The one client copying stops.
LEMMA EndMaps ==
    ASSUME TypeOK, OneWriter, NEW c \in Client, NEW p \in Gone \cup {"bye"},
           cli' = [cli EXCEPT ![c] = p], cli[c] \in Copying,
           UNCHANGED <<want, image, dest>>
    PROVE  Copies!End(c)
<1>1. \A d \in Client : cli'[d] = IF d = c THEN p ELSE cli[d]
  BY DEF TypeOK
<1>2. \A d \in Client : cli'[d] \notin Copying
  BY <1>1 DEF OneWriter, Copying, Gone
<1>3. Goal' = <<>>
  BY <1>2 DEF Goal
<1>4. Stage' = [Stage EXCEPT ![c] = "over"]
  BY <1>1 DEF Stage, CopyState, Copying, Gone
<1> QED
  BY <1>3, <1>4 DEF Goal, Stage, CopyState, Copies!End

LEMMA BeginMaps ==
    ASSUME IInv, GoalInv, NEW c \in Client, OpenDest(c)
    PROVE  Copies!Begin(c)
<1>1. /\ cli[c] = "open" /\ dest' = <<>> /\ UNCHANGED <<want, image>>
      /\ \A d \in Client : cli'[d] = IF d = c THEN "copy" ELSE cli[d]
  BY DEF OpenDest, CliGoto, srvVars, IInv, TypeOK
<1>2. Asked(c) /\ want[c] \in DOMAIN Source \cup {Dest}
  BY <1>1, SourceAssumption DEF GoalInv, GoalOK, Granted, Asked
<1>3. \A d \in Client : cli[d] \notin Copying
  BY <1>1 DEF IInv, BusyInv, BusyOK, Copying
<1>4. Goal' = IF want[c] = Dest THEN dest ELSE Source[want[c]]
  BY <1>1, <1>2, NameAssumption DEF Goal, Copying, Asked
<1>5. Stage' = [Stage EXCEPT ![c] = "copying"] /\ Stage[c] = "waiting"
  BY <1>1 DEF Stage, CopyState, Copying, Gone
<1>6. \A d \in Client : Stage[d] # "copying"
  BY <1>3 DEF Stage, CopyState
<1> QED
  BY <1>1, <1>2, <1>4, <1>5, <1>6 DEF Goal, Stage, Copies!Begin

LEMMA ExtendMaps ==
    ASSUME IInv, IInv', NEW c \in Client, CopyBytes(c)
    PROVE  Copies!Extend(c)
<1>1. cli[c] = "copy" /\ UNCHANGED <<cli, want, image, srv>> /\ total[c] \in Nat
  BY DEF CopyBytes, srvVars, IInv, TypeOK
<1>2. /\ Goal = image /\ Stage[c] = "copying"
      /\ UNCHANGED <<Goal, Stage>>
  BY <1>1 DEF Goal, Stage, CopyState, Copying
<1>3. /\ dest = Piece(image, 0, total[c]) /\ total[c] <= Len(image)
      /\ dest' = Piece(image, 0, total'[c]) /\ total'[c] <= Len(image)
  <2>1. /\ StreamOK(c) /\ StreamOK(c)'
        /\ off \in Nat /\ Len(image) \in Nat /\ total[c] \in Nat /\ total'[c] \in Nat
        /\ UNCHANGED <<off, image>>
    BY DEF CopyBytes, srvVars, IInv, StreamInv, TypeOK
  <2> QED
    BY <1>1, <2>1 DEF StreamOK, Copying
<1>4. total'[c] \in Nat /\ total[c] <= total'[c]
  <2>1. PICK n \in 1 .. Min2(BUFFERSIZE, Len(s2c[c])) :
            total' = [total EXCEPT ![c] = @ + n]
    BY DEF CopyBytes
  <2> QED
    BY <1>1, <2>1 DEF IInv, TypeOK
<1>5. Len(dest) = total[c]
  <2>1. image \in Seq(Byte) /\ total[c] \in Nat /\ 0 \in Nat /\ 0 <= total[c]
    BY <1>1 DEF IInv, TypeOK
  <2>2. Len(Piece(image, 0, total[c])) = total[c] - 0
    BY ONLY <1>3, <2>1, PieceLen
  <2> QED
    BY <1>3, <2>1, <2>2
<1>6. Len(image) \in Nat
  BY DEF IInv, TypeOK
<1>7. total'[c] \in Len(dest) .. Len(Goal) /\ dest' = SubSeq(Goal, 1, total'[c])
  BY <1>1, <1>2, <1>3, <1>4, <1>5, <1>6 DEF Piece
<1> QED
  BY <1>1, <1>2, <1>7 DEF Goal, Stage, Copies!Extend

LEMMA StepMaps ==
    ASSUME IInv, IInv', GoalInv, Next
    PROVE  Copies!Next \/ UNCHANGED Copies!vars
<1> USE DEF SrvGoto, CliGoto, srvVars, cliVars, chanVars
<1>0. TypeOK /\ OneWriter
  BY DEF IInv, BusyInv, BusyOK, OneWriter, Copying
<1>1. ASSUME UNCHANGED <<want, dest>>, Stage' = Stage, Goal' = Goal
      PROVE  UNCHANGED Copies!vars
  BY <1>1 DEF Stage, Goal, Copies!vars
<1>2. ASSUME UNCHANGED <<want, dest, cli, image>> PROVE UNCHANGED Copies!vars
  BY <1>1, <1>2 DEF Stage, Goal, CopyState
<1>3. CASE (\E c \in Client : Accept(c)) \/ AcceptFails \/ BrokenPipe \/ KillServer
           \/ Refuse \/ SendOk \/ SendSize \/ ReadConfirmation \/ SendChunk
           \/ EndOfFile \/ ReadBye \/ SendBye
  BY <1>2, <1>3 DEF Accept, AcceptFails, BrokenPipe, KillServer, Exit, Refuse,
     SendOk, SendSize, ReadConfirmation, SendChunk, EndOfFile, ReadBye, SendBye
<1>4. CASE OpenFile
  <2>1. UNCHANGED <<want, dest, cli>> /\ srv = "name"
    BY <1>4 DEF OpenFile
  <2>2. \A c \in Client : cli[c] \notin Copying
    BY <2>1 DEF IInv, BusyInv, BusyOK, StreamInv, StreamOK, Copying, Up
  <2> QED
    BY <1>1, <2>1, <2>2 DEF Stage, Goal, CopyState
<1>5. ASSUME NEW c \in Client, OpenDest(c) \/ CopyBytes(c)
      PROVE  Copies!Next
  BY <1>5, BeginMaps, ExtendMaps DEF Copies!Next
<1>6. ASSUME NEW c \in Client, SayBye(c) PROVE Copies!Next
  BY <1>0, <1>6, EndMaps DEF SayBye, Copying, Copies!Next
<1>7. ASSUME NEW c \in Client, NEW p \in Gone, cli' = [cli EXCEPT ![c] = p],
             UNCHANGED <<want, image, dest>>
      PROVE  Copies!Next \/ UNCHANGED Copies!vars
  <2>1. CASE CopyState(c) = "waiting"
    BY <1>0, <1>7, <2>1, GiveUpMaps DEF Copies!Next
  <2>2. CASE cli[c] \in Copying
    BY <1>0, <1>7, <2>2, EndMaps DEF Copies!Next
  <2>3. CASE cli[c] \in Gone \cup {"bye"}
    <3>1. \A d \in Client : cli'[d] = IF d = c THEN p ELSE cli[d]
      BY <1>0, <1>7 DEF TypeOK
    <3>2. Stage' = Stage
      BY <1>7, <2>3, <3>1 DEF Stage, CopyState, Copying, Gone
    <3>3. Goal' = Goal
      BY <1>7, <2>3, <3>1 DEF Goal, Copying, Gone
    <3> QED
      BY <1>1, <1>7, <3>2, <3>3
  <2> QED
    BY <2>1, <2>2, <2>3 DEF CopyState
<1>8. ASSUME NEW c \in Client,
             OpenDestFails(c) \/ ReadFarewell(c) \/ ClientBrokenPipe(c) \/ KillClient(c)
      PROVE  Copies!Next \/ UNCHANGED Copies!vars
  BY <1>7, <1>8 DEF OpenDestFails, ReadFarewell, ClientBrokenPipe, KillClient, Gone
<1>9. ASSUME NEW c \in Client, NEW p \in CliPhase, cli' = [cli EXCEPT ![c] = p],
             CopyState(c) = CopyState(c)', UNCHANGED <<want, image, dest>>,
             p \in Copying <=> cli[c] \in Copying
      PROVE  UNCHANGED Copies!vars
  <2>1. \A d \in Client : cli'[d] = IF d = c THEN p ELSE cli[d]
    BY <1>0, <1>9 DEF TypeOK
  <2>2. Stage' = Stage
    BY <1>9, <2>1 DEF Stage, CopyState
  <2>3. Goal' = Goal
    BY <1>9, <2>1 DEF Goal
  <2> QED
    BY <1>1, <1>9, <2>2, <2>3
<1>10. ASSUME NEW c \in Client, Connect(c) \/ ReadStatus(c)
       PROVE  Copies!Next \/ UNCHANGED Copies!vars
  <2>1. UNCHANGED <<want, image, dest>> /\ cli[c] \in {"idle", "status"}
    BY <1>10 DEF Connect, ReadStatus
  <2>2. PICK p \in {"failed", "request", "size"} : cli' = [cli EXCEPT ![c] = p]
    BY <1>10 DEF Connect, ReadStatus
  <2>3. CASE p = "failed"
    BY <1>7, <2>1, <2>2, <2>3 DEF Gone
  <2>4. CASE p # "failed"
    <3>1. cli'[c] = p
      BY <1>0, <2>2 DEF TypeOK
    <3>2. CopyState(c)' = CopyState(c)
      BY <2>1, <2>4, <3>1 DEF CopyState, Copying, Gone
    <3> QED
      BY <1>9, <2>1, <2>2, <2>4, <3>2 DEF Copying, CliPhase
  <2> QED
    BY <2>3, <2>4
<1>11. ASSUME NEW c \in Client,
              SendName(c) \/ ReadSize(c) \/ Confirm(c) \/ CopyEnds(c)
       PROVE  UNCHANGED Copies!vars
  <2>1. UNCHANGED <<want, image, dest>>
    BY <1>11 DEF SendName, ReadSize, Confirm, CopyEnds
  <2>2. PICK p \in {"status", "confirm", "open", "sendBye"} :
            cli' = [cli EXCEPT ![c] = p] /\ (p = "sendBye" <=> cli[c] = "copy")
    BY <1>11 DEF SendName, ReadSize, Confirm, CopyEnds
  <2>3. cli[c] \in {"request", "size", "confirm", "copy"}
    BY <1>11 DEF SendName, ReadSize, Confirm, CopyEnds
  <2>4. cli'[c] = p
    BY <1>0, <2>2 DEF TypeOK
  <2>5. CopyState(c)' = CopyState(c)
    BY <2>2, <2>3, <2>4 DEF CopyState, Copying, Gone
  <2> QED
    BY <1>9, <2>1, <2>2, <2>3, <2>5 DEF Copying, CliPhase
<1> QED
  BY <1>3, <1>4, <1>5, <1>6, <1>8, <1>10, <1>11 DEF Next, Server, ClientStep

(* The clients of the protocol write archivoRecivido.txt in turns, each    *)
(* from the start and with the bytes of its own file only.                 *)
THEOREM Implements == Spec => ImplementsFileCopies
<1>1. Init => GoalInv
  BY DEF Init, GoalInv, GoalOK, Granted
<1>2. IInv /\ GoalInv /\ [Next]_vars => GoalInv'
  BY GoalStep DEF vars, GoalInv, GoalOK, Granted, Asked
<1>3. IInv /\ IInv' /\ GoalInv /\ [Next]_vars => [Copies!Next]_(Copies!vars)
  BY StepMaps DEF vars, Copies!vars, CopyState
<1> QED
  BY <1>1, <1>2, <1>3, InitMaps, Inductive, PTL DEF Spec, Copies!Spec,
     ImplementsFileCopies
=============================================================================
