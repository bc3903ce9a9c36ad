-------------------------- MODULE TlsTransferProofs --------------------------
(***************************************************************************)
(* Proofs about TlsTransfer, for any clients, directories, file and buffer *)
(* size: the records a client reads without looking at them are the ones   *)
(* meant for it, and what it writes of them is in its place.               *)
(***************************************************************************)
EXTENDS TlsTransfer, SequenceTheorems, TLAPS

-----------------------------------------------------------------------------
(* The server and the connections.                                         *)

\* The phases of the server that serve cur; the early ones send no size.
Early == {"handshake", "request", "reply", "grant", "open", "size"}
Busy == Early \cup {"confirm", "file", "close"}

ServerInv ==
    /\ srv \in Busy \cup {"spin"} => cur \in Client /\ conn[cur] = "open"
    /\ srv \in Busy => fdFree < MaxFds
    /\ srv \in Busy => (file <=> cur \in granted) /\ (file \/ off = 0)
    /\ srv \in Early => off = 0 /\ cli[cur] # "done"
    /\ srv \in Early \ {"size"} => ~file
    /\ srv = "close" /\ file => off = Len(File)
    /\ srv = "spin" => cli[cur] \in Gone
    /\ \A c \in Client :
         /\ conn[c] = "open" => c = cur /\ srv \in Busy \cup {"spin"}
         /\ conn[c] = "pending" => srv # "down"

\* How often a client has spoken, at most.
Said(phase) == IF phase \in {"idle", "connect", "request"} THEN 0
               ELSE IF phase \in {"reply", "accept", "size", "ok"} THEN 1 ELSE 2

ClientInv ==
    \A c \in Client :
        /\ cli[c] = "idle" => conn[c] = "none"
        /\ conn[c] \in {"none", "pending"} =>
             s2c[c] = <<>> /\ c \notin granted /\ cli[c] \in {"idle", "connect", "failed", "killed"}
        /\ c2s[c] <= Said(cli[c])
        /\ pos[c] <= Len(File)
        /\ cli[c] \notin Gone \cup {"copy"} => pos[c] = 0

-----------------------------------------------------------------------------
(* The records on their way to a client that is still there.               *)

\* The number of records a client has read by its phase, up to the size, and the
\* number the server has sent by then.
Skimmed(phase) == IF phase \in {"idle", "connect", "request", "reply"} THEN 0
                  ELSE IF phase = "accept" THEN 1 ELSE IF phase = "size" THEN 2 ELSE 3
Sent == IF srv \in {"handshake", "request", "reply"} THEN 0 ELSE IF srv = "grant" THEN 1 ELSE 2

\* The kind of the n-th record of a conversation.
Kind(n) == IF n = 1 THEN "reply" ELSE IF n = 2 THEN "accept" ELSE IF n = 3 THEN "size" ELSE "file"

\* The n-th record of a conversation: of its fields, what its client relies on.
Fits(r, n, sizes) ==
    /\ r.kind = Kind(n) /\ (n <= 3 => r.bytes = <<>>)
    /\ n = 1 => r = Reply
    /\ n = 2 => r = Autoridad
    /\ n = 3 => r.size \in sizes

\* The records after the first k.
AllFit(s, k, sizes) == \A i \in 1 .. Len(s) : Fits(s[i], k + i, sizes)

\* The bytes of the records are those of the file from one offset to another: at[i]
\* is where the i-th record begins, and the one before it ends.
Covers(s, from, to) ==
    \E at \in [1 .. Len(s) + 1 -> 0 .. Len(File)] :
        /\ at[1] = from /\ at[Len(s) + 1] = to
        /\ \A i, j \in 1 .. Len(s) + 1 : i <= j => at[i] <= at[j]
        /\ \A i \in 1 .. Len(s) : s[i].bytes = SubSeq(File, at[i] + 1, at[i + 1])

\* Where the file has been sent to.
SentTo(c, n) ==
    /\ conn[c] = "open" => n = off
    /\ conn[c] = "closed" /\ c \in granted /\ srv # "down" => n = Len(File)
    /\ c \notin granted => n = 0

\* What the size may be: unset if there is no file.
Told(c) == IF c \in granted THEN {Len(File)} ELSE -1 .. Len(File) + 1

Records(c) == AllFit(s2c[c], Skimmed(cli[c]), Told(c))
Offsets(c) == \E n \in 0 .. Len(File) : Covers(s2c[c], pos[c], n) /\ SentTo(c, n)
Counted(c) ==
    /\ conn[c] = "open" /\ srv \in Early => Skimmed(cli[c]) + Len(s2c[c]) = Sent
    /\ (\/ conn[c] = "open" /\ srv \in {"confirm", "file"}
        \/ c \in granted /\ srv # "down" /\ ~(conn[c] = "open" /\ srv \in Early))
       => Skimmed(cli[c]) + Len(s2c[c]) >= 3
SizeKnown(c) ==
    c \in granted /\ srv # "down" /\ cli[c] \in {"ok", "open", "copy"} => size[c] = Len(File)

Stream(c) == Records(c) /\ Offsets(c) /\ Counted(c) /\ SizeKnown(c)
StreamInv == \A c \in Client : cli[c] \notin Gone => Stream(c)

\* The copies.
CopyInv ==
    \A c \in Client :
        /\ cli[c] \in {"copy", "done"} /\ Alone(c) => dest[dir[c]] = SubSeq(File, 1, pos[c])
        /\ cli[c] = "done" /\ srv # "down" =>
             pos[c] = IF c \in granted THEN Len(File) ELSE 0

IInv == TypeOK /\ ServerInv /\ ClientInv /\ StreamInv /\ CopyInv /\ BytesInPlace

-----------------------------------------------------------------------------
(* Files.                                                                  *)
Kept == Byte \cup {Hole}

\* w is copy with what comes after p, up to the offset q, taken from f, that begins at
\* the offset o.
Over(w, copy, p, q, f, o) ==
    /\ w \in Seq(Kept) /\ Len(w) = IF q > Len(copy) THEN q ELSE Len(copy)
    /\ \A i \in 1 .. Len(w) :
          w[i] = IF i \in p + 1 .. q THEN f[i - o]
                 ELSE IF i <= Len(copy) THEN copy[i] ELSE Hole

LEMMA WrittenShape ==
    ASSUME NEW copy \in Seq(Kept), NEW p \in Nat, NEW bytes \in Seq(Byte)
    PROVE  Over(Written(copy, p, bytes), copy, p, p + Len(bytes), bytes, p)
  <1> DEFINE upTo == p + Len(bytes)
             n == IF upTo > Len(copy) THEN upTo ELSE Len(copy)
             At(i) == IF i \in p + 1 .. upTo THEN bytes[i - p]
                      ELSE IF i <= Len(copy) THEN copy[i] ELSE Hole
  <1>1. Len(copy) \in Nat /\ Len(bytes) \in Nat /\ upTo \in Nat /\ n \in Nat
    BY LenProperties
  <1>2. ASSUME NEW i \in 1 .. n PROVE At(i) \in Kept
    <2>1. CASE i \in p + 1 .. upTo
      <3>1. i - p \in 1 .. Len(bytes)
        BY <1>1, <2>1
      <3>2. bytes[i - p] \in Byte
        BY <3>1, ElementOfSeq
      <3> QED BY <2>1, <3>2 DEF Kept
    <2>2. CASE i \notin p + 1 .. upTo /\ i <= Len(copy)
      <3>1. copy[i] \in Kept
        BY <1>1, <2>2, ElementOfSeq
      <3> QED BY <2>2, <3>1
    <2>3. CASE i \notin p + 1 .. upTo /\ ~(i <= Len(copy))
      BY <2>3 DEF Kept
    <2> QED BY <2>1, <2>2, <2>3
  <1>3. Written(copy, p, bytes) = [i \in 1 .. n |-> At(i)]
    BY DEF Written
  <1> HIDE DEF n, At
  <1>4. [i \in 1 .. n |-> At(i)] \in Seq(Kept) /\ Len([i \in 1 .. n |-> At(i)]) = n
    BY <1>1, <1>2
  <1>5. \A i \in 1 .. n : [j \in 1 .. n |-> At(j)][i] = At(i)
    OBVIOUS
  <1> QED BY <1>3, <1>4, <1>5 DEF n, At, Over

LEMMA ChunkShape ==
    ASSUME off \in 0 .. Len(File)
    PROVE  /\ Chunk \in Seq(Byte) /\ Len(Chunk) \in Nat /\ off + Len(Chunk) \in 0 .. Len(File)
           /\ Chunk = SubSeq(File, off + 1, off + Len(Chunk))
  <1> DEFINE end == Min2(off + BUFFERSIZE, Len(File))
  <1>1. Len(File) \in Nat /\ BUFFERSIZE \in Nat
    BY FileAssumption, BoundAssumption, LenProperties
  <1>2. end \in Nat /\ off <= end /\ end <= Len(File)
    BY <1>1 DEF Min2
  <1>3. Chunk = SubSeq(File, off + 1, end)
    BY DEF Chunk
  <1> HIDE DEF end
  <1>4. \A i \in off + 1 .. end : File[i] \in Byte
    BY <1>1, <1>2, FileAssumption, ElementOfSeq
  <1>5. SubSeq(File, off + 1, end) \in Seq(Byte) /\ Len(SubSeq(File, off + 1, end)) = end - off
    BY <1>1, <1>2, <1>4, SubSeqProperties
  <1>6. Len(Chunk) \in Nat /\ off + Len(Chunk) = end
    BY <1>1, <1>2, <1>3, <1>5
  <1> QED BY <1>1, <1>2, <1>3, <1>5, <1>6

-----------------------------------------------------------------------------
(* Types.                                                                  *)
LEMMA RecordShape ==
    /\ Reply \in Record /\ Autoridad \in Record
    /\ \A n \in -1 .. Len(File) + 1 : Rec("size", n, <<>>) \in Record
    /\ \A b \in Seq(Byte) : Rec("file", 0, b) \in Record
    /\ \A r \in Record : r.bytes \in Seq(Byte) /\ r.size \in -1 .. Len(File) + 1
  <1>1. Len(File) \in Nat /\ <<>> \in Seq(Byte)
    BY FileAssumption, LenProperties, EmptySeq
  <1> QED BY <1>1 DEF Record, Rec, Reply, Autoridad

LEMMA InitTypes == Init => TypeOK /\ ServerInv /\ ClientInv
  <1> SUFFICES ASSUME Init PROVE TypeOK /\ ServerInv /\ ClientInv
    OBVIOUS
  <1>1. Len(File) \in Nat /\ Window \in Nat /\ MaxFds \in Nat \ {0} /\ MaxKills \in Nat
    BY FileAssumption, BoundAssumption, LenProperties
  <1>2. /\ s2c \in [Client -> Seq(Record)] /\ dest \in [Directory -> Seq(Byte \cup {Hole})]
        /\ \A c \in Client : s2c[c] = <<>> /\ Len(s2c[c]) <= Window
    <2>1. <<>> \in Seq(Record) /\ Len(<<>>) = 0 /\ <<>> \in Seq(Byte \cup {Hole})
      BY EmptySeq
    <2>2. s2c \in [Client -> Seq(Record)] /\ dest \in [Directory -> Seq(Byte \cup {Hole})]
      BY <2>1, Zenon DEF Init
    <2>3. \A c \in Client : s2c[c] = <<>>
      BY Zenon DEF Init
    <2>4. \A c \in Client : Len(s2c[c]) <= Window
      <3>1. \A c \in Client : Len(s2c[c]) = 0
        BY <2>1, <2>3, Zenon
      <3>2. 0 <= Window
        BY <1>1
      <3> QED BY <3>1, <3>2, Zenon
    <2> QED BY <2>2, <2>3, <2>4
  <1>3. /\ c2s \in [Client -> 0 .. 2] /\ pos \in [Client -> Nat]
        /\ size \in [Client -> -1 .. Len(File) + 1]
        /\ \A c \in Client : c2s[c] = 0 /\ pos[c] = 0
    <2>1. 0 \in 0 .. 2 /\ 0 \in Nat /\ 0 \in -1 .. Len(File) + 1
      BY <1>1
    <2> QED BY <2>1, Zenon DEF Init
  <1>4. TypeOK
    <2>1. cli \in [Client -> CliPhase] /\ conn \in [Client -> {"none", "pending", "open", "closed"}]
      BY DEF Init, CliPhase
    <2>2. /\ srv = "accept" /\ cur = NoClient /\ mail = "" /\ file = FALSE /\ granted = {}
          /\ issuer \in [Client -> Issuer] /\ dir \in [Client -> Directory]
      BY DEF Init
    <2>3. fdFree \in 0 .. MaxFds /\ off \in 0 .. Len(File) /\ kills \in 0 .. MaxKills
      <3>1. fdFree = MaxFds /\ off = 0 /\ kills = 0
        BY DEF Init
      <3> QED BY <1>1, <3>1
    <2> QED BY <1>2, <1>3, <2>1, <2>2, <2>3, Zenon DEF TypeOK
  <1>5. ServerInv
    BY DEF Init, ServerInv, Busy, Early
  <1>6. \A c \in Client : cli[c] = "idle" /\ conn[c] = "none" /\ c \notin granted
    BY DEF Init
  <1>7. ClientInv
    <2>1. \A c \in Client : c2s[c] <= Said(cli[c]) /\ pos[c] <= Len(File)
      <3>1. Said("idle") = 0 /\ 0 <= Len(File) /\ 0 <= 0
        BY <1>1 DEF Said
      <3> QED BY <1>3, <1>6, <3>1, Zenon
    <2> QED BY <1>2, <1>3, <1>6, <2>1, Zenon DEF ClientInv
  <1> QED BY <1>4, <1>5, <1>7

\* What the server sends.
LEMMA Sending ==
    ASSUME TypeOK, cur \in Client, NEW r \in Record, Send(r)
    PROVE  /\ s2c' \in [Client -> Seq(Record)]
           /\ \A c \in Client : Len(s2c'[c]) <= Window
           /\ \A c \in Client \ {cur} : s2c'[c] = s2c[c]
           /\ cli[cur] \notin Gone => s2c'[cur] = Append(s2c[cur], r)
  <1>0. s2c \in [Client -> Seq(Record)] /\ Window \in Nat /\ \A c \in Client : Len(s2c[c]) <= Window
    BY BoundAssumption DEF TypeOK
  <1>1. CASE cli[cur] \in Gone /\ s2c' = s2c
    BY <1>0, <1>1
  <1>2. CASE /\ cli[cur] \notin Gone /\ Len(s2c[cur]) < Window
             /\ s2c' = [s2c EXCEPT ![cur] = Append(@, r)]
    <2>1. s2c[cur] \in Seq(Record)
      BY <1>0
    <2>2. /\ Append(s2c[cur], r) \in Seq(Record)
          /\ Len(Append(s2c[cur], r)) = Len(s2c[cur]) + 1 /\ Len(s2c[cur]) \in Nat
      BY <2>1, AppendProperties, LenProperties
    <2>3. Len(Append(s2c[cur], r)) <= Window
      BY <1>0, <1>2, <2>2
    <2> HIDE DEF TypeOK
    <2> QED BY <1>0, <1>2, <2>2, <2>3
  <1> QED BY <1>1, <1>2 DEF Send

LEMMA Update ==
    ASSUME NEW S, NEW T, NEW f \in [S -> T], NEW x \in S, NEW v \in T
    PROVE  /\ [f EXCEPT ![x] = v] \in [S -> T] /\ [f EXCEPT ![x] = v][x] = v
           /\ \A y \in S \ {x} : [f EXCEPT ![x] = v][y] = f[y]
  OBVIOUS

LEMMA ServerTypes ==
    ASSUME TypeOK, ServerInv, ServerStep \/ BrokenPipe \/ WriteSpins \/ KillServer
    PROVE  TypeOK'
  <1>0. /\ cur \in Client \cup {NoClient} /\ mail \in {"", "authority", "other"}
        /\ cli \in [Client -> CliPhase] /\ conn \in [Client -> {"none", "pending", "open", "closed"}]
        /\ issuer \in [Client -> Issuer] /\ c2s \in [Client -> 0 .. 2]
        /\ granted \subseteq Client /\ file \in BOOLEAN
    BY DEF TypeOK
  <1>n. /\ fdFree \in 0 .. MaxFds /\ MaxFds \in Nat \ {0} /\ kills \in 0 .. MaxKills /\ MaxKills \in Nat
        /\ off \in 0 .. Len(File) /\ Len(File) \in Nat
    BY BoundAssumption, FileAssumption, LenProperties DEF TypeOK
  <1>c. srv \in Busy => cur \in Client
    BY DEF ServerInv
  <1>f. srv \in Busy => fdFree + 1 \in 0 .. MaxFds
    <2>1. srv \in Busy => fdFree < MaxFds
      BY DEF ServerInv
    <2> QED BY <1>n, <2>1
  <1> USE DEF srvVars, fileVars, fixed
  <1>1. CASE Accept
    <2>1. PICK c \in Client : conn' = [conn EXCEPT ![c] = "open"] /\ cur' = c
      BY <1>1 DEF Accept
    <2>2. conn' \in [Client -> {"none", "pending", "open", "closed"}]
      BY <1>0, <2>1
    <2>3. fdFree' \in 0 .. MaxFds /\ off' \in 0 .. Len(File)
      BY <1>n, <1>1 DEF Accept
    <2> QED BY <1>1, <2>1, <2>2, <2>3 DEF TypeOK, Accept
  <1>2. CASE AcceptFails
    <2>1. conn' \in [Client -> {"none", "pending", "open", "closed"}]
      BY <1>0, <1>2 DEF AcceptFails
    <2> QED BY <1>2, <2>1 DEF TypeOK, AcceptFails
  <1>3. CASE Handshake
    <2>1. cur \in Client /\ mail' \in {"", "authority", "other"}
      BY <1>0, <1>c, <1>3 DEF Handshake, Parsed, Busy, Early
    <2>2. cli' \in [Client -> CliPhase]
      BY <1>0, <1>3, <2>1 DEF Handshake, Goto, CliPhase
    <2> QED BY <1>3, <2>1, <2>2 DEF TypeOK, Handshake
  <1>4. CASE HandshakeFails
    <2>1. cli' \in [Client -> CliPhase]
      BY <1>0, <1>c, <1>4 DEF HandshakeFails, Goto, CliPhase, Gone, Busy, Early
    <2> QED BY <1>4, <2>1 DEF TypeOK, HandshakeFails
  <1>5. CASE ReadRequest \/ ReadConfirmation
    <2>1. c2s' \in [Client -> 0 .. 2]
      <3>1. CASE c2s' = c2s
        BY <1>0, <3>1
      <3>2. CASE c2s[cur] > 0 /\ c2s' = [c2s EXCEPT ![cur] = c2s[cur] - 1]
        <4>1. cur \in Client
          BY <1>c, <1>5 DEF ReadRequest, ReadConfirmation, Busy, Early
        <4>2. c2s[cur] \in 0 .. 2
          BY <1>0, <4>1
        <4>3. c2s[cur] - 1 \in 0 .. 2
          <5> DEFINE n == c2s[cur]
          <5>1. n \in 0 .. 2 /\ n > 0
            BY <3>2, <4>2
          <5> HIDE DEF n
          <5>2. n - 1 \in 0 .. 2
            BY <5>1
          <5> QED BY <5>2 DEF n
        <4> QED BY <1>0, <3>2, <4>1, <4>3, Update
      <3> QED BY <1>5, <3>1, <3>2 DEF ReadRequest, ReadConfirmation
    <2> QED BY <1>5, <2>1 DEF TypeOK, ReadRequest, ReadConfirmation
  <1>6. CASE SendReply \/ SendAccept \/ SendSize \/ SendChunk
    <2>1. PICK r \in Record : Send(r)
      <3>1. CASE SendReply \/ SendAccept
        BY <1>6, <3>1, RecordShape DEF SendReply, SendAccept
      <3>2. CASE SendSize
        <4>1. Sizes \subseteq -1 .. Len(File) + 1
          BY <1>n DEF Sizes
        <4> QED BY <3>2, <4>1, RecordShape DEF SendSize
      <3>3. CASE SendChunk
        BY <1>n, <3>3, RecordShape, ChunkShape DEF SendChunk
      <3> QED BY <1>6, <3>1, <3>2, <3>3
    <2>2. cur \in Client
      BY <1>c, <1>6 DEF SendReply, SendAccept, SendSize, SendChunk, Busy, Early
    <2>3. s2c' \in [Client -> Seq(Record)] /\ \A c \in Client : Len(s2c'[c]) <= Window
      BY <2>1, <2>2, Sending
    <2>4. off' \in 0 .. Len(File)
      BY <1>n, <1>6, ChunkShape DEF SendReply, SendAccept, SendSize, SendChunk
    <2> QED BY <1>6, <2>3, <2>4 DEF TypeOK, SendReply, SendAccept, SendSize, SendChunk
  <1>7. CASE OpenFile
    <2>1. fdFree' \in 0 .. MaxFds
      BY <1>n, <1>7 DEF OpenFile
    <2>2. granted' \subseteq Client /\ file' \in BOOLEAN
      <3>1. cur \in Client
        BY <1>c, <1>7 DEF OpenFile, Busy, Early
      <3>2. file' \in BOOLEAN
        BY <1>7 DEF OpenFile
      <3> QED BY <1>0, <1>7, <3>1, <3>2 DEF OpenFile
    <2> QED BY <1>7, <2>1, <2>2 DEF TypeOK, OpenFile
  <1>8. CASE EndOfFile \/ WriteSpins
    BY <1>8 DEF TypeOK, EndOfFile, WriteSpins
  <1>9. CASE Close
    <2>1. fdFree' \in 0 .. MaxFds /\ conn' \in [Client -> {"none", "pending", "open", "closed"}]
      BY <1>0, <1>f, <1>n, <1>9 DEF Close, Busy
    <2> QED BY <1>9, <2>1 DEF TypeOK, Close
  <1>10. CASE Ends /\ kills' \in 0 .. MaxKills
    <2>1. conn' \in [Client -> {"none", "pending", "open", "closed"}]
      BY <1>0, <1>10 DEF Ends
    <2> QED BY <1>10, <2>1 DEF TypeOK, Ends
  <1>11. CASE BrokenPipe \/ KillServer
    <2>1. Ends /\ kills' \in 0 .. MaxKills
      BY <1>n, <1>11 DEF BrokenPipe, KillServer
    <2> QED BY <1>10, <2>1
  <1> QED
    BY <1>1, <1>2, <1>3, <1>4, <1>5, <1>6, <1>7, <1>8, <1>9, <1>11 DEF ServerStep

-----------------------------------------------------------------------------
(* Sequences of records.                                                   *)

LEMMA Appending ==
    ASSUME NEW s \in Seq(Record), NEW r \in Record
    PROVE  /\ Append(s, r) \in Seq(Record) /\ Len(s) \in Nat /\ Len(Append(s, r)) = Len(s) + 1
           /\ \A i \in 1 .. Len(s) : Append(s, r)[i] = s[i]
           /\ Append(s, r)[Len(s) + 1] = r
  BY AppendProperties, LenProperties

LEMMA Taking ==
    ASSUME NEW s \in Seq(Record), s # <<>>
    PROVE  /\ Tail(s) \in Seq(Record) /\ Len(s) \in Nat \ {0} /\ Len(Tail(s)) = Len(s) - 1
           /\ \A i \in 1 .. Len(Tail(s)) : Tail(s)[i] = s[i + 1]
           /\ Head(s) = s[1] /\ Head(s) \in Record /\ Head(s).bytes \in Seq(Byte)
  <1>1. Len(s) \in Nat \ {0}
    BY EmptySeq, LenProperties
  <1>2. Head(s) = s[1] /\ Head(s) \in Record
    BY <1>1, HeadTailProperties, ElementOfSeq
  <1>3. /\ Tail(s) \in Seq(Record) /\ Len(Tail(s)) = Len(s) - 1
        /\ \A i \in 1 .. Len(Tail(s)) : Tail(s)[i] = s[i + 1]
    BY HeadTailProperties
  <1> QED BY <1>1, <1>2, <1>3, RecordShape

\* Nothing on its way.
LEMMA NoneFit == ASSUME NEW k, NEW sizes PROVE AllFit(<<>>, k, sizes)
  <1>1. 1 .. Len(<<>>) = {}
    BY EmptySeq
  <1> QED BY <1>1 DEF AllFit

LEMMA FitAppend ==
    ASSUME NEW s \in Seq(Record), NEW r \in Record, NEW k \in Nat, NEW sizes,
           AllFit(s, k, sizes), Fits(r, k + Len(s) + 1, sizes)
    PROVE  AllFit(Append(s, r), k, sizes)
  <1> DEFINE n == Len(s)
  <1>1. /\ n \in Nat /\ Len(Append(s, r)) = n + 1 /\ Append(s, r)[n + 1] = r
        /\ \A i \in 1 .. n : Append(s, r)[i] = s[i]
    BY Appending
  <1>2. \A i \in 1 .. n : Fits(s[i], k + i, sizes)
    BY DEF AllFit
  <1>3. Fits(r, k + n + 1, sizes)
    OBVIOUS
  <1> HIDE DEF n
  <1>4. \A i \in 1 .. n + 1 : i \in 1 .. n \/ i = n + 1
    BY <1>1
  <1>5. k + (n + 1) = k + n + 1
    BY <1>1
  <1>6. \A i \in 1 .. n + 1 : Fits(Append(s, r)[i], k + i, sizes)
    BY <1>1, <1>2, <1>3, <1>4, <1>5
  <1> QED BY <1>1, <1>6 DEF AllFit

LEMMA FitTail ==
    ASSUME NEW s \in Seq(Record), s # <<>>, NEW k \in Nat, NEW sizes, AllFit(s, k, sizes)
    PROVE  Fits(Head(s), k + 1, sizes) /\ AllFit(Tail(s), k + 1, sizes)
  <1> DEFINE n == Len(s)
  <1>1. /\ n \in Nat \ {0} /\ Len(Tail(s)) = n - 1 /\ Head(s) = s[1]
        /\ \A i \in 1 .. Len(Tail(s)) : Tail(s)[i] = s[i + 1]
    BY Taking
  <1>2. \A i \in 1 .. n : Fits(s[i], k + i, sizes)
    BY DEF AllFit
  <1> HIDE DEF n
  <1>3. Fits(Head(s), k + 1, sizes)
    BY <1>1, <1>2
  <1>4. \A i \in 1 .. n - 1 : i + 1 \in 1 .. n /\ k + (i + 1) = (k + 1) + i
    BY <1>1
  <1>5. \A i \in 1 .. n - 1 : Fits(Tail(s)[i], (k + 1) + i, sizes)
    BY <1>1, <1>2, <1>4
  <1> QED BY <1>1, <1>3, <1>5 DEF AllFit

\* The records up to the third carry nothing, and of the sizes only it depends.
LEMMA FitEarly ==
    ASSUME NEW s \in Seq(Record), NEW k \in Nat, NEW sizes, NEW other, AllFit(s, k, sizes),
           k + Len(s) <= 2
    PROVE  AllFit(s, k, other)
  <1> DEFINE n == Len(s)
  <1>1. n \in Nat /\ k + n <= 2
    BY LenProperties
  <1> HIDE DEF n
  <1>2. \A i \in 1 .. n : k + i # 3
    BY <1>1
  <1>3. \A i \in 1 .. n : Fits(s[i], k + i, sizes)
    BY DEF AllFit, n
  <1>4. \A i \in 1 .. n : Fits(s[i], k + i, other)
    BY <1>2, <1>3 DEF Fits
  <1> QED BY <1>4 DEF AllFit, n

LEMMA CoversNothing ==
    ASSUME NEW p \in 0 .. Len(File)
    PROVE  Covers(<<>>, p, p) /\ \A q : Covers(<<>>, p, q) => q = p
  <1>1. Len(<<>>) = 0 /\ 0 + 1 = 1 /\ 1 .. 0 = {} /\ 1 .. 1 = {1}
    BY EmptySeq
  <1>2. PICK at \in [1 .. 1 -> 0 .. Len(File)] : at[1] = p
    <2>1. [i \in 1 .. 1 |-> p] \in [1 .. 1 -> 0 .. Len(File)] /\ [i \in 1 .. 1 |-> p][1] = p
      BY <1>1
    <2> QED BY <2>1
  <1>3. p <= p
    BY FileAssumption, LenProperties
  <1>4. \A i, j \in 1 .. 1 : i <= j => at[i] <= at[j]
    BY <1>1, <1>2, <1>3
  <1> QED BY <1>1, <1>2, <1>4 DEF Covers

LEMMA CoversEnds ==
    ASSUME NEW s \in Seq(Record), NEW p, NEW q, Covers(s, p, q)
    PROVE  p \in 0 .. Len(File) /\ q \in 0 .. Len(File) /\ p <= q
  <1> DEFINE n == Len(s)
  <1>1. n \in Nat
    BY LenProperties
  <1>2. PICK at \in [1 .. n + 1 -> 0 .. Len(File)] :
            at[1] = p /\ at[n + 1] = q /\ \A i, j \in 1 .. n + 1 : i <= j => at[i] <= at[j]
    BY DEF Covers
  <1> HIDE DEF n
  <1>3. 1 \in 1 .. n + 1 /\ n + 1 \in 1 .. n + 1 /\ 1 <= n + 1
    BY <1>1
  <1> QED BY <1>2, <1>3

LEMMA CoversAppend ==
    ASSUME NEW s \in Seq(Record), NEW r \in Record, NEW p, NEW q, Covers(s, p, q),
           NEW end \in 0 .. Len(File), q <= end, r.bytes = SubSeq(File, q + 1, end)
    PROVE  Covers(Append(s, r), p, end)
  <1> DEFINE n == Len(s)
  <1>1. /\ n \in Nat /\ Len(Append(s, r)) = n + 1 /\ Append(s, r)[n + 1] = r
        /\ \A i \in 1 .. n : Append(s, r)[i] = s[i]
    BY Appending
  <1>2. PICK at \in [1 .. n + 1 -> 0 .. Len(File)] :
            /\ at[1] = p /\ at[n + 1] = q
            /\ \A i, j \in 1 .. n + 1 : i <= j => at[i] <= at[j]
            /\ \A i \in 1 .. n : s[i].bytes = SubSeq(File, at[i] + 1, at[i + 1])
    BY DEF Covers
  <1>3. Len(File) \in Nat
    BY FileAssumption, LenProperties
  <1> HIDE DEF n
  <1>4. (n + 1) + 1 = n + 2 /\ n + 2 \in 1 .. n + 2 /\ n + 1 \in 1 .. n + 1 /\ 1 \in 1 .. n + 1
    BY <1>1
  <1>5. \A i \in 1 .. n + 2 : i \in 1 .. n + 1 \/ i = n + 2
    BY <1>1
  <1>6. \A i \in 1 .. n + 1 : i \in 1 .. n + 2 /\ i # n + 2 /\ (i \in 1 .. n \/ i = n + 1)
    BY <1>1
  <1>7. PICK to \in [1 .. n + 2 -> 0 .. Len(File)] :
            to[n + 2] = end /\ \A i \in 1 .. n + 1 : to[i] = at[i]
    <2> DEFINE to == [i \in 1 .. n + 2 |-> IF i = n + 2 THEN end ELSE at[i]]
    <2>1. \A i \in 1 .. n + 1 : at[i] \in 0 .. Len(File)
      BY <1>2
    <2>2. to \in [1 .. n + 2 -> 0 .. Len(File)]
      BY <1>5, <2>1
    <2>3. to[n + 2] = end /\ \A i \in 1 .. n + 1 : to[i] = at[i]
      BY <1>4, <1>6
    <2> QED BY <2>2, <2>3
  <1>8. ASSUME NEW i \in 1 .. n + 2, NEW j \in 1 .. n + 2, i <= j PROVE to[i] <= to[j]
    <2>1. CASE j \in 1 .. n + 1
      <3>1. i \in 1 .. n + 1
        BY <1>1, <1>8, <2>1
      <3> QED BY <1>2, <1>7, <1>8, <2>1, <3>1
    <2>2. CASE j = n + 2 /\ i \in 1 .. n + 1
      <3>1. i <= n + 1 /\ at[i] \in 0 .. Len(File)
        BY <1>1, <1>2, <2>2
      <3>2. at[i] <= q
        BY <1>2, <1>4, <2>2, <3>1
      <3>3. at[i] <= end
        <4>1. q \in 0 .. Len(File)
          BY <1>2, <1>4
        <4> QED BY <1>3, <3>1, <3>2, <4>1
      <3> QED BY <1>7, <2>2, <3>3
    <2>3. CASE i = n + 2
      <3>1. j = n + 2
        BY <1>1, <1>8, <2>3
      <3>2. end <= end
        BY <1>3
      <3> QED BY <1>7, <2>3, <3>1, <3>2
    <2> QED BY <1>5, <2>1, <2>2, <2>3
  <1>9. ASSUME NEW i \in 1 .. n + 1
        PROVE  Append(s, r)[i].bytes = SubSeq(File, to[i] + 1, to[i + 1])
    <2>1. CASE i \in 1 .. n
      <3>1. i + 1 \in 1 .. n + 1 /\ i \in 1 .. n + 1
        BY <1>1, <2>1
      <3>2. to[i] = at[i] /\ to[i + 1] = at[i + 1]
        BY <1>7, <3>1
      <3> QED BY <1>1, <1>2, <2>1, <3>2
    <2>2. CASE i = n + 1
      <3>1. to[i] = q /\ to[i + 1] = end
        BY <1>2, <1>4, <1>7, <2>2
      <3> QED BY <1>1, <2>2, <3>1
    <2> QED BY <1>6, <2>1, <2>2
  <1>10. to[1] = p
    BY <1>2, <1>4, <1>7
  <1>11. Len(Append(s, r)) + 1 = n + 2
    BY <1>1, <1>4
  <1>12. /\ to \in [1 .. Len(Append(s, r)) + 1 -> 0 .. Len(File)]
         /\ to[1] = p /\ to[Len(Append(s, r)) + 1] = end
    BY <1>7, <1>10, <1>11
  <1>13. /\ \A i, j \in 1 .. Len(Append(s, r)) + 1 : i <= j => to[i] <= to[j]
         /\ \A i \in 1 .. Len(Append(s, r)) : Append(s, r)[i].bytes = SubSeq(File, to[i] + 1, to[i + 1])
    BY <1>1, <1>8, <1>9, <1>11
  <1> QED BY <1>12, <1>13 DEF Covers

LEMMA CoversTail ==
    ASSUME NEW s \in Seq(Record), s # <<>>, NEW p, NEW q, Covers(s, p, q)
    PROVE  \E m \in 0 .. Len(File) :
              /\ p <= m /\ Head(s).bytes = SubSeq(File, p + 1, m)
              /\ Len(Head(s).bytes) = m - p
              /\ Covers(Tail(s), m, q)
  <1> DEFINE n == Len(s)
  <1>1. /\ n \in Nat \ {0} /\ Len(Tail(s)) = n - 1 /\ Head(s) = s[1]
        /\ \A i \in 1 .. Len(Tail(s)) : Tail(s)[i] = s[i + 1]
    BY Taking
  <1>2. PICK at \in [1 .. n + 1 -> 0 .. Len(File)] :
            /\ at[1] = p /\ at[n + 1] = q
            /\ \A i, j \in 1 .. n + 1 : i <= j => at[i] <= at[j]
            /\ \A i \in 1 .. n : s[i].bytes = SubSeq(File, at[i] + 1, at[i + 1])
    BY DEF Covers
  <1>3. Len(File) \in Nat
    BY FileAssumption, LenProperties
  <1> HIDE DEF n
  <1>4. /\ 1 \in 1 .. n /\ 1 \in 1 .. n + 1 /\ 2 \in 1 .. n + 1 /\ 1 + 1 = 2 /\ 1 <= 2
        /\ n \in 1 .. n /\ (n - 1) + 1 = n
    BY <1>1
  <1>5. \A i \in 1 .. n : i + 1 \in 1 .. n + 1
    BY <1>1
  <1>6. PICK m \in 0 .. Len(File) : m = at[2]
    BY <1>2, <1>4
  <1>7. p <= m /\ Head(s).bytes = SubSeq(File, p + 1, m) /\ p \in 0 .. Len(File)
    BY <1>1, <1>2, <1>4, <1>6
  <1>8. Len(SubSeq(File, p + 1, m)) = m - p
    <2>1. \A i \in p + 1 .. m : File[i] \in Byte
      BY <1>3, <1>6, <1>7, FileAssumption, ElementOfSeq
    <2>2. p + 1 \in Int /\ m \in Int /\ p + 1 <= m + 1 /\ m - (p + 1) + 1 = m - p
      <3>1. p \in Nat /\ m \in Nat /\ p <= m
        BY <1>3, <1>6, <1>7
      <3> QED BY <3>1
    <2>3. Len(SubSeq(File, p + 1, m)) = IF p + 1 <= m THEN m - (p + 1) + 1 ELSE 0
      BY <2>1, <2>2, SubSeqProperties
    <2> QED BY <1>3, <1>6, <1>7, <2>2, <2>3
  <1>9. PICK to \in [1 .. n -> 0 .. Len(File)] : \A i \in 1 .. n : to[i] = at[i + 1]
    <2> DEFINE to == [i \in 1 .. n |-> at[i + 1]]
    <2>1. to \in [1 .. n -> 0 .. Len(File)] /\ \A i \in 1 .. n : to[i] = at[i + 1]
      BY <1>2, <1>5
    <2> QED BY <2>1
  <1>10. to[1] = m /\ to[n] = q
    BY <1>2, <1>4, <1>6, <1>9
  <1>11. ASSUME NEW i \in 1 .. n, NEW j \in 1 .. n, i <= j PROVE to[i] <= to[j]
    <2>1. i + 1 <= j + 1
      BY <1>1, <1>11
    <2> QED BY <1>2, <1>5, <1>9, <2>1
  <1>12. ASSUME NEW i \in 1 .. n - 1
         PROVE  Tail(s)[i].bytes = SubSeq(File, to[i] + 1, to[i + 1])
    <2>1. i \in 1 .. n /\ i + 1 \in 1 .. n
      BY <1>1
    <2>2. s[i + 1].bytes = SubSeq(File, at[i + 1] + 1, at[(i + 1) + 1])
      BY <1>2, <2>1
    <2> QED BY <1>1, <1>9, <2>1, <2>2
  <1>13. Covers(Tail(s), m, q)
    BY <1>1, <1>4, <1>9, <1>10, <1>11, <1>12 DEF Covers
  <1> QED BY <1>6, <1>7, <1>8, <1>13

-----------------------------------------------------------------------------
\* A record read from the front.
LEMMA Reading ==
    ASSUME TypeOK, NEW c \in Client, s2c[c] # <<>>, s2c' = [s2c EXCEPT ![c] = Tail(@)]
    PROVE  /\ s2c[c] \in Seq(Record) /\ s2c' \in [Client -> Seq(Record)]
           /\ Head(s2c[c]) \in Record
           /\ \A d \in Client : Len(s2c'[d]) <= Window
           /\ s2c'[c] = Tail(s2c[c])
           /\ \A d \in Client \ {c} : s2c'[d] = s2c[d]
  <1>1. /\ s2c \in [Client -> Seq(Record)] /\ s2c[c] \in Seq(Record)
        /\ \A d \in Client : Len(s2c[d]) <= Window
    BY DEF TypeOK
  <1>2. /\ Tail(s2c[c]) \in Seq(Record) /\ Len(s2c[c]) \in Nat /\ Head(s2c[c]) \in Record
        /\ Len(Tail(s2c[c])) = Len(s2c[c]) - 1
    BY <1>1, Taking
  <1>3. /\ s2c' \in [Client -> Seq(Record)] /\ s2c'[c] = Tail(s2c[c])
        /\ \A d \in Client \ {c} : s2c'[d] = s2c[d]
    BY <1>1, <1>2, Update
  <1>4. \A d \in Client : Len(s2c'[d]) <= Window
    <2>1. Len(s2c'[c]) <= Window
      BY <1>1, <1>2, <1>3, BoundAssumption
    <2> QED BY <1>1, <1>3, <2>1
  <1> QED BY <1>1, <1>2, <1>3, <1>4

LEMMA ClientTypes ==
    ASSUME TypeOK, ClientInv, NEW c \in Client,
           Connect(c) \/ ClientStep(c) \/ ClientBrokenPipe(c) \/ Kill(c)
    PROVE  TypeOK'
  <1>0. /\ cli \in [Client -> CliPhase] /\ conn \in [Client -> {"none", "pending", "open", "closed"}]
        /\ c2s \in [Client -> 0 .. 2] /\ size \in [Client -> -1 .. Len(File) + 1]
        /\ pos \in [Client -> Nat] /\ dir \in [Client -> Directory]
        /\ dest \in [Directory -> Seq(Byte \cup {Hole})] /\ s2c \in [Client -> Seq(Record)]
    BY DEF TypeOK
  <1>n. kills \in 0 .. MaxKills /\ MaxKills \in Nat /\ Len(File) \in Nat
    BY BoundAssumption, FileAssumption, LenProperties DEF TypeOK
  <1>g. ASSUME NEW p \in CliPhase, Goto(c, p) PROVE cli' \in [Client -> CliPhase]
    BY <1>0, <1>g DEF Goto
  <1> USE DEF srvVars, fileVars, fixed
  <1>1. CASE Connect(c)
    <2>1. cli' \in [Client -> CliPhase] /\ conn' \in [Client -> {"none", "pending", "open", "closed"}]
      BY <1>0, <1>g, <1>1 DEF Connect, CliPhase, Gone
    <2> QED BY <1>1, <2>1 DEF TypeOK, Connect
  <1>2. CASE ConnectEnds(c) \/ ClientBrokenPipe(c) \/ OpenDestFails(c) \/ CopyEnds(c)
    <2>1. cli' \in [Client -> CliPhase]
      BY <1>0, <1>g, <1>2 DEF ConnectEnds, ClientBrokenPipe, OpenDestFails, CopyEnds, CliPhase, Gone
    <2> QED BY <1>2, <2>1 DEF TypeOK, ConnectEnds, ClientBrokenPipe, OpenDestFails, CopyEnds
  <1>3. CASE SendRequest(c) \/ SayOk(c)
    <2>1. PICK p \in CliPhase : Say(c, p) /\ cli[c] \in {"request", "ok"}
      BY <1>3 DEF SendRequest, SayOk, CliPhase
    <2>2. cli' \in [Client -> CliPhase]
      BY <1>g, <2>1 DEF Say
    <2>3. c2s' \in [Client -> 0 .. 2]
      <3> DEFINE n == c2s[c]
      <3>1. n \in 0 .. 2
        BY <1>0
      <3>2. n <= 1
        <4>1. n <= Said(cli[c])
          BY DEF ClientInv
        <4>2. Said(cli[c]) \in {0, 1}
          BY <2>1 DEF Said
        <4> HIDE DEF n
        <4> QED BY <3>1, <4>1, <4>2
      <3> HIDE DEF n
      <3>3. n + 1 \in 0 .. 2
        BY <3>1, <3>2
      <3>4. c2s' = [c2s EXCEPT ![c] = n + 1] \/ c2s' = c2s
        BY <2>1 DEF Say, n
      <3>5. c2s \in [Client -> 0 .. 2]
        BY <1>0
      <3>6. [c2s EXCEPT ![c] = n + 1] \in [Client -> 0 .. 2]
        BY <3>3, <3>5, Update
      <3> QED BY <3>4, <3>5, <3>6, Zenon
    <2> QED BY <2>1, <2>2, <2>3 DEF TypeOK, Say
  <1>4. CASE ReadReply(c) \/ ReadAccept(c)
    <2>1. PICK p \in CliPhase : Skim(c, p)
      BY <1>4 DEF ReadReply, ReadAccept, CliPhase
    <2>2. cli' \in [Client -> CliPhase]
      BY <1>g, <2>1 DEF Skim
    <2>3. s2c' \in [Client -> Seq(Record)] /\ \A d \in Client : Len(s2c'[d]) <= Window
      <3>1. CASE s2c' = s2c
        BY <3>1 DEF TypeOK
      <3>2. CASE s2c[c] # <<>> /\ s2c' = [s2c EXCEPT ![c] = Tail(@)]
        BY <3>2, Reading
      <3> QED BY <2>1, <3>1, <3>2 DEF Skim, Eof
    <2> QED BY <2>1, <2>2, <2>3 DEF TypeOK, Skim
  <1>5. CASE ReadSize(c)
    <2>1. cli' \in [Client -> CliPhase]
      BY <1>5, <1>g DEF ReadSize, CliPhase
    <2>2. CASE Eof(c)
      <3>1. s2c' = s2c /\ size' = [size EXCEPT ![c] = 0]
        BY <1>5, <2>2 DEF ReadSize
      <3>2. 0 \in -1 .. Len(File) + 1
        BY <1>n
      <3>3. size' \in [Client -> -1 .. Len(File) + 1]
        BY <1>0, <3>1, <3>2, Update
      <3> QED BY <1>5, <2>1, <3>1, <3>3 DEF TypeOK, ReadSize
    <2>3. CASE ~Eof(c)
      <3>1. s2c[c] # <<>> /\ s2c' = [s2c EXCEPT ![c] = Tail(@)] /\ size' = [size EXCEPT ![c] = Head(s2c[c]).size]
        BY <1>5, <2>3 DEF ReadSize
      <3>2. /\ s2c' \in [Client -> Seq(Record)] /\ \A d \in Client : Len(s2c'[d]) <= Window
            /\ Head(s2c[c]).size \in -1 .. Len(File) + 1
        BY <3>1, Reading, RecordShape
      <3>3. size' \in [Client -> -1 .. Len(File) + 1]
        BY <1>0, <3>1, <3>2, Update
      <3> QED BY <1>5, <2>1, <3>2, <3>3 DEF TypeOK, ReadSize
    <2> QED BY <2>2, <2>3
  <1>6. CASE OpenDest(c)
    <2>1. cli' \in [Client -> CliPhase]
      BY <1>6, <1>g DEF OpenDest, CliPhase
    <2>2. dest' \in [Directory -> Seq(Byte \cup {Hole})]
      BY <1>0, <1>6, EmptySeq DEF OpenDest
    <2> QED BY <1>6, <2>1, <2>2 DEF TypeOK, OpenDest
  <1>7. CASE CopyRecord(c)
    <2> DEFINE bytes == Head(s2c[c]).bytes
    <2>1. /\ s2c[c] # <<>> /\ s2c' = [s2c EXCEPT ![c] = Tail(@)]
          /\ dest' = [dest EXCEPT ![dir[c]] = Written(dest[dir[c]], pos[c], bytes)]
          /\ pos' = [pos EXCEPT ![c] = pos[c] + Len(bytes)]
      BY <1>7 DEF CopyRecord
    <2>2. /\ s2c' \in [Client -> Seq(Record)] /\ \A d \in Client : Len(s2c'[d]) <= Window
          /\ bytes \in Seq(Byte)
      BY <2>1, Reading, RecordShape
    <2> HIDE DEF bytes
    <2>3. pos[c] \in Nat /\ dir[c] \in Directory /\ dest[dir[c]] \in Seq(Byte \cup {Hole})
      BY <1>0
    <2>4. pos[c] + Len(bytes) \in Nat
      BY <2>2, <2>3, LenProperties
    <2>5. pos' \in [Client -> Nat]
      BY <1>0, <2>1, <2>4, Update
    <2>6. Written(dest[dir[c]], pos[c], bytes) \in Seq(Byte \cup {Hole})
      BY <2>2, <2>3, WrittenShape DEF Kept, Over
    <2>7. dest' \in [Directory -> Seq(Byte \cup {Hole})]
      BY <1>0, <2>1, <2>3, <2>6, Update
    <2> QED BY <1>7, <2>2, <2>5, <2>7 DEF TypeOK, CopyRecord
  <1>8. CASE Kill(c)
    <2>1. cli' \in [Client -> CliPhase] /\ kills' \in 0 .. MaxKills
      BY <1>8, <1>g, <1>n DEF Kill, CliPhase, Gone
    <2> QED BY <1>8, <2>1 DEF TypeOK, Kill
  <1> QED BY <1>1, <1>2, <1>3, <1>4, <1>5, <1>6, <1>7, <1>8 DEF ClientStep

-----------------------------------------------------------------------------
(* Whom the server is at, and what its connections are.                    *)

\* The client steps leave the server's variables alone, and end none that has ended.
LEMMA ClientFrame ==
    ASSUME TypeOK, NEW c \in Client,
           Connect(c) \/ ClientStep(c) \/ ClientBrokenPipe(c) \/ Kill(c)
    PROVE  /\ UNCHANGED <<srvVars, fixed>> /\ cli[c] \notin Gone
           /\ \A d \in Client \ {c} : cli'[d] = cli[d]
           /\ conn' = conn \/ Connect(c)
  <1>1. UNCHANGED <<srvVars, fixed>> /\ cli[c] \notin Gone
    BY DEF Connect, ClientStep, ClientBrokenPipe, Kill, ConnectEnds, SendRequest, ReadReply,
       ReadAccept, ReadSize, SayOk, OpenDest, OpenDestFails, CopyRecord, CopyEnds, Say, Skim, Gone
  <1>2. conn' = conn \/ Connect(c)
    BY DEF ClientStep, ClientBrokenPipe, Kill, ConnectEnds, SendRequest, ReadReply,
       ReadAccept, ReadSize, SayOk, OpenDest, OpenDestFails, CopyRecord, CopyEnds, Say, Skim
  <1>3. cli' = cli \/ \E p \in CliPhase : Goto(c, p)
    BY DEF Connect, ClientStep, ClientBrokenPipe, Kill, ConnectEnds, SendRequest, ReadReply,
       ReadAccept, ReadSize, SayOk, OpenDest, OpenDestFails, CopyRecord, CopyEnds, Say, Skim, Gone,
       CliPhase
  <1>4. cli \in [Client -> CliPhase]
    BY DEF TypeOK
  <1>5. \A d \in Client \ {c} : cli'[d] = cli[d]
    BY <1>3, <1>4 DEF Goto
  <1> QED BY <1>1, <1>2, <1>5

LEMMA NotDoneEarly ==
    ASSUME TypeOK, ServerInv, StreamInv, srv \in Early
    PROVE  cli[cur] # "copy"
  <1> SUFFICES ASSUME cli[cur] = "copy" PROVE FALSE
    OBVIOUS
  <1>1. cur \in Client /\ conn[cur] = "open"
    BY DEF ServerInv, Busy
  <1>2. Counted(cur)
    BY <1>1 DEF StreamInv, Stream, Gone
  <1>3. Skimmed(cli[cur]) + Len(s2c[cur]) = Sent /\ Skimmed(cli[cur]) = 3
    BY <1>1, <1>2 DEF Counted, Skimmed
  <1>4. Sent <= 2 /\ Sent \in Nat
    BY DEF Sent
  <1>5. s2c[cur] \in Seq(Record)
    BY <1>1 DEF TypeOK
  <1>6. Len(s2c[cur]) \in Nat
    BY <1>5, LenProperties
  <1> QED BY <1>3, <1>4, <1>6

LEMMA ServerInvByClient ==
    ASSUME TypeOK, ServerInv, ClientInv, StreamInv, NEW c \in Client,
           Connect(c) \/ ClientStep(c) \/ ClientBrokenPipe(c) \/ Kill(c)
    PROVE  ServerInv'
  <1>1. /\ UNCHANGED srvVars /\ cli[c] \notin Gone
        /\ \A d \in Client \ {c} : cli'[d] = cli[d]
    BY ClientFrame
  <1>2. \A d \in Client : conn'[d] = conn[d] \/ (conn[d] = "none" /\ conn'[d] = "pending" /\ srv # "down")
    <2>1. CASE conn' = conn
      BY <2>1
    <2>2. CASE Connect(c)
      <3>1. conn[c] = "none" /\ conn \in [Client -> {"none", "pending", "open", "closed"}]
        BY <2>2 DEF Connect, ClientInv, TypeOK
      <3> QED BY <2>2, <3>1 DEF Connect
    <2> QED BY <2>1, <2>2, ClientFrame
  <1>3. srv \in Early => cli'[cur] # "done"
    <2> SUFFICES ASSUME srv \in Early, cur = c, cli'[c] = "done" PROVE FALSE
      BY <1>1 DEF ServerInv, Busy
    <2>1. cli \in [Client -> CliPhase]
      BY DEF TypeOK
    <2>2. cli[c] = "copy"
      BY <1>1, <2>1 DEF Connect, ClientStep, ClientBrokenPipe, Kill, ConnectEnds, SendRequest, ReadReply,
         ReadAccept, ReadSize, SayOk, OpenDest, OpenDestFails, CopyRecord, CopyEnds, Say, Skim, Gone,
         Goto
    <2> QED BY <2>2, NotDoneEarly
  <1>4. srv = "spin" => cli'[cur] \in Gone
    BY <1>1 DEF ServerInv
  <1> QED BY <1>1, <1>2, <1>3, <1>4 DEF ServerInv, srvVars

LEMMA ServerInvByServer ==
    ASSUME TypeOK, ServerInv, ClientInv, ServerStep \/ BrokenPipe \/ WriteSpins \/ KillServer
    PROVE  ServerInv'
  <1>n. fdFree \in 0 .. MaxFds /\ MaxFds \in Nat \ {0} /\ off \in 0 .. Len(File) /\ Len(File) \in Nat
    BY BoundAssumption, FileAssumption, LenProperties DEF TypeOK
  <1>0. cli \in [Client -> CliPhase] /\ conn \in [Client -> {"none", "pending", "open", "closed"}]
    BY DEF TypeOK
  <1>1. CASE Accept
    <2>1. PICK c \in Client : /\ conn[c] = "pending" /\ conn' = [conn EXCEPT ![c] = "open"]
                              /\ cur' = c
      BY <1>1 DEF Accept
    <2>2. /\ srv = "accept" /\ srv' = "handshake" /\ fdFree' < MaxFds /\ off' = 0 /\ file' = FALSE
          /\ UNCHANGED <<granted, cli>>
      BY <1>1, <1>n DEF Accept
    <2>3. c \notin granted /\ cli[c] # "done"
      BY <2>1 DEF ClientInv, Gone
    <2>4. \A d \in Client : conn[d] # "open"
      BY <2>2 DEF ServerInv, Busy, Early
    <2>5. conn'[c] = "open" /\ \A d \in Client \ {c} : conn'[d] = conn[d]
      BY <1>0, <2>1
    <2> QED BY <2>1, <2>2, <2>3, <2>4, <2>5 DEF ServerInv, Busy, Early
  <1>2. CASE AcceptFails
    <2>1. UNCHANGED <<srv, cur, fdFree, file, off, granted, cli>> /\ srv = "accept"
      BY <1>2 DEF AcceptFails, srvVars
    <2>2. \A d \in Client : conn'[d] = conn[d] \/ conn'[d] = "closed"
      BY <1>0, <1>2 DEF AcceptFails
    <2> QED BY <2>1, <2>2 DEF ServerInv, Busy, Early
  <1>3. CASE Handshake
    <2>1. /\ srv = "handshake" /\ srv' = "request" /\ UNCHANGED <<cur, fdFree, file, off, granted, conn>>
          /\ cli' = [cli EXCEPT ![cur] = "request"]
      BY <1>3 DEF Handshake, Goto
    <2>2. cur \in Client
      BY <2>1 DEF ServerInv, Busy, Early
    <2>3. cli'[cur] = "request"
      BY <1>0, <2>1, <2>2
    <2> QED BY <2>1, <2>3 DEF ServerInv, Busy, Early
  <1>4. CASE HandshakeFails \/ ReadRequest \/ SendReply
    <2>1. /\ srv \in {"handshake", "request", "reply"} /\ srv' \in {"close", "reply", "grant"}
          /\ UNCHANGED <<cur, fdFree, file, off, granted, conn>>
      BY <1>4 DEF HandshakeFails, ReadRequest, SendReply
    <2>2. srv' # "close" => cli' = cli
      BY <1>4 DEF HandshakeFails, ReadRequest, SendReply
    <2> QED BY <2>1, <2>2 DEF ServerInv, Busy, Early
  <1>5. CASE SendAccept \/ SendSize \/ ReadConfirmation
    <2>1. /\ \/ srv = "grant" /\ srv' = "open"
             \/ srv = "size" /\ srv' = "confirm"
             \/ srv = "confirm" /\ srv' = "file"
          /\ UNCHANGED <<cur, fdFree, file, off, granted, conn, cli>>
      BY <1>5 DEF SendAccept, SendSize, ReadConfirmation
    <2> QED BY <2>1 DEF ServerInv, Busy, Early
  <1>6. CASE OpenFile
    <2>1. /\ srv = "open" /\ srv' = "size" /\ UNCHANGED <<cur, off, conn, cli>>
          /\ cur \in Client /\ ~file /\ cur \notin granted
      BY <1>6 DEF OpenFile, ServerInv, Busy, Early
    <2>2. fdFree' < MaxFds
      <3>1. fdFree < MaxFds
        BY <2>1 DEF ServerInv, Busy, Early
      <3> QED BY <1>6, <1>n, <3>1 DEF OpenFile
    <2>3. file' <=> cur \in granted'
      BY <1>6, <2>1 DEF OpenFile
    <2>4. off = 0 /\ cli[cur] # "done"
      BY <2>1 DEF ServerInv, Early
    <2> QED BY <2>1, <2>2, <2>3, <2>4 DEF ServerInv, Busy, Early
  <1>7. CASE SendChunk
    <2>1. srv = "file" /\ file /\ UNCHANGED <<srv, cur, fdFree, file, granted, conn, cli>>
      BY <1>7 DEF SendChunk
    <2> QED BY <2>1 DEF ServerInv, Busy, Early
  <1>8. CASE EndOfFile
    <2>1. /\ srv = "file" /\ srv' = "close" /\ (file => off = Len(File))
          /\ UNCHANGED <<cur, fdFree, file, off, granted, conn, cli>>
      BY <1>8 DEF EndOfFile
    <2> QED BY <2>1 DEF ServerInv, Busy, Early
  <1>9. CASE Close
    <2>1. /\ srv = "close" /\ srv' = "accept" /\ conn' = [conn EXCEPT ![cur] = "closed"]
      BY <1>9 DEF Close
    <2>2. \A d \in Client : conn'[d] # "open"
      BY <1>0, <2>1 DEF ServerInv, Busy
    <2> QED BY <2>1, <2>2 DEF ServerInv, Busy, Early
  <1>10. CASE BrokenPipe \/ KillServer
    <2>1. srv' = "down" /\ \A d \in Client : conn'[d] \in {"none", "closed"}
      BY <1>10 DEF BrokenPipe, KillServer, Ends
    <2> QED BY <2>1 DEF ServerInv, Busy, Early
  <1>11. CASE WriteSpins
    <2>1. /\ srv \in {"size", "file"} /\ cli[cur] \in Gone /\ srv' = "spin"
          /\ UNCHANGED <<cur, fdFree, file, off, granted, conn, cli>>
      BY <1>11 DEF WriteSpins
    <2> QED BY <2>1 DEF ServerInv, Busy, Early
  <1> QED
    BY <1>1, <1>2, <1>3, <1>4, <1>5, <1>6, <1>7, <1>8, <1>9, <1>10, <1>11 DEF ServerStep

-----------------------------------------------------------------------------
(* The clients.                                                            *)

\* What a step of the server may change of the clients.
LEMMA ServerFrame ==
    ASSUME TypeOK, ServerInv, ServerStep \/ BrokenPipe \/ WriteSpins \/ KillServer
    PROVE  /\ UNCHANGED <<fileVars, fixed>>
           /\ \A d \in Client :
                /\ conn'[d] \in {"none", "pending"} => conn'[d] = conn[d]
                /\ conn[d] # "open" => s2c'[d] = s2c[d] /\ (d \in granted' <=> d \in granted)
                /\ c2s'[d] <= c2s[d]
                /\ cli'[d] = cli[d] \/ (cli[d] = "connect" /\ cli'[d] \in {"request", "failed"}
                                        /\ conn[d] = "open")
  <1>0. /\ cli \in [Client -> CliPhase] /\ conn \in [Client -> {"none", "pending", "open", "closed"}]
        /\ s2c \in [Client -> Seq(Record)] /\ \A d \in Client : c2s[d] \in 0 .. 2
    BY DEF TypeOK
  <1>s. \A d \in Client : c2s[d] <= c2s[d]
    <2>1. \A d \in Client : c2s[d] \in 0 .. 2
      BY <1>0
    <2>2. \A n \in 0 .. 2 : n <= n
      OBVIOUS
    <2> QED BY <2>1, <2>2, Zenon
  <1>1. UNCHANGED <<fileVars, fixed>>
    BY DEF ServerStep, BrokenPipe, WriteSpins, KillServer, Ends, Accept, AcceptFails, Handshake,
       HandshakeFails, ReadRequest, SendReply, SendAccept, OpenFile, SendSize, ReadConfirmation,
       SendChunk, EndOfFile, Close
  <1>2. srv \in Busy => cur \in Client /\ conn[cur] = "open"
    BY DEF ServerInv
  <1>3. CASE Accept \/ AcceptFails \/ Close \/ BrokenPipe \/ KillServer
    <2>1. UNCHANGED <<granted, cli, c2s, s2c>>
      BY <1>3 DEF Accept, AcceptFails, Close, BrokenPipe, KillServer, Ends, srvVars
    <2>2. \A d \in Client : conn'[d] = conn[d] \/ conn'[d] \in {"open", "closed"}
      BY <1>0, <1>3 DEF Accept, AcceptFails, Close, BrokenPipe, KillServer, Ends
    <2>3. \A d \in Client : c2s'[d] <= c2s[d]
      BY <1>s, <2>1
    <2> QED BY <1>1, <2>1, <2>2, <2>3
  <1>4. CASE Handshake \/ HandshakeFails
    <2>1. UNCHANGED <<granted, conn, c2s, s2c>> /\ srv = "handshake"
      BY <1>4 DEF Handshake, HandshakeFails
    <2>2. cli' = cli \/ \E p \in {"request", "failed"} : cli[cur] = "connect" /\ Goto(cur, p)
      BY <1>4 DEF Handshake, HandshakeFails
    <2>3. cur \in Client /\ conn[cur] = "open"
      BY <1>2, <2>1 DEF Busy, Early
    <2>4. \A d \in Client : \/ cli'[d] = cli[d]
                            \/ d = cur /\ cli[d] = "connect" /\ cli'[d] \in {"request", "failed"}
      BY <1>0, <2>2, <2>3 DEF Goto
    <2>5. \A d \in Client : c2s'[d] <= c2s[d]
      BY <1>s, <2>1
    <2> QED BY <1>1, <2>1, <2>3, <2>4, <2>5
  <1>5. CASE ReadRequest \/ ReadConfirmation
    <2>1. UNCHANGED <<granted, conn, cli, s2c>>
      BY <1>5 DEF ReadRequest, ReadConfirmation
    <2>2. cur \in Client
      BY <1>2, <1>5 DEF ReadRequest, ReadConfirmation, Busy, Early
    <2>3. c2s' = c2s \/ c2s' = [c2s EXCEPT ![cur] = c2s[cur] - 1]
      BY <1>5 DEF ReadRequest, ReadConfirmation
    <2>4. ASSUME NEW d \in Client PROVE c2s'[d] <= c2s[d]
      <3>1. c2s[d] \in Int
        BY <1>0
      <3>2. c2s'[d] = c2s[d] \/ c2s'[d] = c2s[d] - 1
        <4>1. c2s \in [Client -> 0 .. 2]
          BY DEF TypeOK
        <4> QED BY <2>2, <2>3, <4>1
      <3> QED BY <3>1, <3>2
    <2> QED BY <1>1, <2>1, <2>4
  <1>6. CASE SendReply \/ SendAccept \/ SendSize \/ SendChunk
    <2>1. UNCHANGED <<granted, conn, cli, c2s>> /\ srv \in Busy
      BY <1>6 DEF SendReply, SendAccept, SendSize, SendChunk, Busy, Early
    <2>2. \E r : Send(r)
      BY <1>6 DEF SendReply, SendAccept, SendSize, SendChunk
    <2>3. \A d \in Client \ {cur} : s2c'[d] = s2c[d]
      BY <1>0, <2>2 DEF Send
    <2>4. \A d \in Client : c2s'[d] <= c2s[d]
      BY <1>s, <2>1
    <2> QED BY <1>1, <1>2, <2>1, <2>3, <2>4
  <1>7. CASE OpenFile \/ EndOfFile \/ WriteSpins
    <2>1. UNCHANGED <<conn, cli, c2s, s2c>> /\ srv \in Busy
      BY <1>7 DEF OpenFile, EndOfFile, WriteSpins, Busy, Early
    <2>2. granted' = granted \/ granted' = granted \cup {cur}
      BY <1>7 DEF OpenFile, EndOfFile, WriteSpins
    <2>3. \A d \in Client : c2s'[d] <= c2s[d]
      BY <1>s, <2>1
    <2> QED BY <1>1, <1>2, <2>1, <2>2, <2>3
  <1> QED BY <1>3, <1>4, <1>5, <1>6, <1>7 DEF ServerStep

LEMMA ClientInvByServer ==
    ASSUME TypeOK, TypeOK', ServerInv, ClientInv, ServerStep \/ BrokenPipe \/ WriteSpins \/ KillServer
    PROVE  ClientInv'
  <1> SUFFICES ASSUME NEW c \in Client
               PROVE  /\ cli'[c] = "idle" => conn'[c] = "none"
                      /\ conn'[c] \in {"none", "pending"} =>
                           /\ s2c'[c] = <<>> /\ c \notin granted'
                           /\ cli'[c] \in {"idle", "connect", "failed", "killed"}
                      /\ c2s'[c] <= Said(cli'[c])
                      /\ pos'[c] <= Len(File)
                      /\ cli'[c] \notin Gone \cup {"copy"} => pos'[c] = 0
    BY DEF ClientInv, Said
  <1>1. /\ conn'[c] \in {"none", "pending"} => conn'[c] = conn[c]
        /\ conn[c] # "open" => s2c'[c] = s2c[c] /\ (c \in granted' <=> c \in granted)
        /\ cli'[c] = cli[c] \/ (cli[c] = "connect" /\ cli'[c] \in {"request", "failed"}
                                /\ conn[c] = "open")
    BY ServerFrame
  <1>2. pos'[c] = pos[c] /\ c2s'[c] <= c2s[c]
    BY ServerFrame DEF fileVars
  <1>3. /\ cli[c] = "idle" => conn[c] = "none"
        /\ conn[c] \in {"none", "pending"} =>
             s2c[c] = <<>> /\ c \notin granted /\ cli[c] \in {"idle", "connect", "failed", "killed"}
        /\ cli[c] \notin Gone \cup {"copy"} => pos[c] = 0
    BY DEF ClientInv
  <1>4. c2s[c] <= Said(cli[c]) /\ pos[c] <= Len(File)
    BY DEF ClientInv
  <1>5. /\ conn[c] \in {"none", "pending", "open", "closed"}
        /\ conn'[c] \in {"none", "pending", "open", "closed"}
    BY DEF TypeOK
  <1>6. cli'[c] = "idle" => conn'[c] = "none"
    <2>1. conn[c] = "none" => conn'[c] \in {"none", "open", "closed"}
      BY <1>1, <1>5
    <2>2. conn[c] = "none" => conn'[c] = "none"
      <3>0. conn \in [Client -> {"none", "pending", "open", "closed"}]
        BY DEF TypeOK
      <3>1. conn' = conn \/ Accept \/ AcceptFails \/ Close \/ Ends
        BY DEF ServerStep, BrokenPipe, WriteSpins, KillServer, Handshake, HandshakeFails, ReadRequest,
           SendReply, SendAccept, OpenFile, SendSize, ReadConfirmation, SendChunk, EndOfFile
      <3>2. Close => cur \in Client /\ conn[cur] = "open"
        BY DEF Close, ServerInv, Busy
      <3> QED BY <3>0, <3>1, <3>2 DEF Accept, AcceptFails, Close, Ends
    <2> QED BY <1>1, <1>3, <2>2
  <1>7. c2s'[c] <= Said(cli'[c])
    <2>1. c2s[c] \in Int /\ c2s'[c] \in Int
      <3>1. c2s \in [Client -> 0 .. 2] /\ c2s' \in [Client -> 0 .. 2]
        BY DEF TypeOK
      <3>2. c2s[c] \in 0 .. 2 /\ c2s'[c] \in 0 .. 2
        BY <3>1
      <3> QED BY <3>2
    <2>2. Said(cli[c]) \in Int /\ Said(cli'[c]) \in Int /\ Said(cli[c]) <= Said(cli'[c])
      BY <1>1 DEF Said
    <2> QED BY <1>2, <1>4, <2>1, <2>2
  <1>8. cli'[c] \notin Gone \cup {"copy"} => pos'[c] = 0
    BY <1>1, <1>2, <1>3 DEF Gone
  <1> QED BY <1>1, <1>2, <1>3, <1>4, <1>6, <1>7, <1>8

-----------------------------------------------------------------------------
(* The streams.                                                            *)

LEMMA StreamTypes ==
    ASSUME TypeOK, NEW c \in Client
    PROVE  /\ s2c[c] \in Seq(Record) /\ Len(s2c[c]) \in Nat /\ pos[c] \in Nat
           /\ Skimmed(cli[c]) \in 0 .. 3 /\ Len(File) \in Nat
           /\ conn[c] \in {"none", "pending", "open", "closed"} /\ cli[c] \in CliPhase
  <1>1. /\ s2c[c] \in Seq(Record) /\ pos[c] \in Nat
        /\ conn[c] \in {"none", "pending", "open", "closed"} /\ cli[c] \in CliPhase
    BY DEF TypeOK
  <1>2. Len(s2c[c]) \in Nat /\ Len(File) \in Nat
    BY <1>1, LenProperties, FileAssumption
  <1>3. Skimmed(cli[c]) \in 0 .. 3
    BY DEF Skimmed
  <1> QED BY <1>1, <1>2, <1>3

\* A step of one client changes nothing of another.
LEMMA Others ==
    ASSUME TypeOK, NEW c \in Client, NEW d \in Client \ {c},
           Connect(c) \/ ClientStep(c) \/ ClientBrokenPipe(c) \/ Kill(c)
    PROVE  /\ cli'[d] = cli[d] /\ conn'[d] = conn[d] /\ s2c'[d] = s2c[d] /\ c2s'[d] = c2s[d]
           /\ pos'[d] = pos[d] /\ size'[d] = size[d]
  <1>1. cli'[d] = cli[d]
    BY ClientFrame
  <1>2. \/ conn' = conn
        \/ \E v : conn' = [conn EXCEPT ![c] = v]
    BY DEF Connect, ClientStep, ClientBrokenPipe, Kill, ConnectEnds, SendRequest, ReadReply,
       ReadAccept, ReadSize, SayOk, OpenDest, OpenDestFails, CopyRecord, CopyEnds, Say, Skim
  <1>3. s2c' = s2c \/ \E v : s2c' = [s2c EXCEPT ![c] = v]
    BY DEF Connect, ClientStep, ClientBrokenPipe, Kill, ConnectEnds, SendRequest, ReadReply,
       ReadAccept, ReadSize, SayOk, OpenDest, OpenDestFails, CopyRecord, CopyEnds, Say, Skim
  <1>4. c2s' = c2s \/ \E v : c2s' = [c2s EXCEPT ![c] = v]
    BY DEF Connect, ClientStep, ClientBrokenPipe, Kill, ConnectEnds, SendRequest, ReadReply,
       ReadAccept, ReadSize, SayOk, OpenDest, OpenDestFails, CopyRecord, CopyEnds, Say, Skim
  <1>5. /\ pos' = pos \/ \E v : pos' = [pos EXCEPT ![c] = v]
        /\ size' = size \/ \E v : size' = [size EXCEPT ![c] = v]
    BY DEF Connect, ClientStep, ClientBrokenPipe, Kill, ConnectEnds, SendRequest, ReadReply,
       ReadAccept, ReadSize, SayOk, OpenDest, OpenDestFails, CopyRecord, CopyEnds, Say, Skim, fileVars
  <1>6. /\ conn \in [Client -> {"none", "pending", "open", "closed"}] /\ s2c \in [Client -> Seq(Record)]
        /\ c2s \in [Client -> 0 .. 2] /\ pos \in [Client -> Nat]
        /\ size \in [Client -> -1 .. Len(File) + 1]
    BY DEF TypeOK
  <1>7. conn'[d] = conn[d] /\ s2c'[d] = s2c[d]
    BY <1>2, <1>3, <1>6
  <1>8. c2s'[d] = c2s[d]
    BY <1>4, <1>6
  <1>9. pos'[d] = pos[d]
    BY <1>5, <1>6
  <1>10. size'[d] = size[d]
    BY <1>5, <1>6
  <1> QED BY <1>1, <1>7, <1>8, <1>9, <1>10

\* A record of the file that is copied moves the offset of the copy past it.
LEMMA Copying ==
    ASSUME TypeOK, StreamInv, NEW c \in Client, CopyRecord(c)
    PROVE  /\ pos'[c] \in 0 .. Len(File) /\ pos[c] <= pos'[c]
           /\ Head(s2c[c]).bytes = SubSeq(File, pos[c] + 1, pos'[c])
           /\ Len(Head(s2c[c]).bytes) = pos'[c] - pos[c]
  <1> DEFINE bytes == Head(s2c[c]).bytes
  <1>1. s2c[c] # <<>> /\ pos' = [pos EXCEPT ![c] = pos[c] + Len(bytes)] /\ s2c[c] \in Seq(Record)
    BY StreamTypes DEF CopyRecord
  <1>2. PICK n : Covers(s2c[c], pos[c], n)
    BY DEF StreamInv, Stream, Offsets, CopyRecord, Gone
  <1>3. PICK m \in 0 .. Len(File) :
            /\ pos[c] <= m /\ bytes = SubSeq(File, pos[c] + 1, m) /\ Len(bytes) = m - pos[c]
    BY <1>1, <1>2, CoversTail
  <1>4. pos \in [Client -> Nat] /\ pos[c] \in Nat /\ Len(File) \in Nat
    BY StreamTypes DEF TypeOK
  <1> HIDE DEF bytes
  <1>5. pos[c] + Len(bytes) = m
    BY <1>3, <1>4
  <1>6. pos'[c] = m
    BY <1>1, <1>4, <1>5
  <1> QED BY <1>3, <1>6 DEF bytes

LEMMA ClientInvByClient ==
    ASSUME TypeOK, TypeOK', ClientInv, StreamInv, NEW c \in Client,
           Connect(c) \/ ClientStep(c) \/ ClientBrokenPipe(c) \/ Kill(c)
    PROVE  ClientInv'
  <1> SUFFICES ASSUME NEW d \in Client
               PROVE  /\ cli'[d] = "idle" => conn'[d] = "none"
                      /\ conn'[d] \in {"none", "pending"} =>
                           /\ s2c'[d] = <<>> /\ d \notin granted'
                           /\ cli'[d] \in {"idle", "connect", "failed", "killed"}
                      /\ c2s'[d] <= Said(cli'[d])
                      /\ pos'[d] <= Len(File)
                      /\ cli'[d] \notin Gone \cup {"copy"} => pos'[d] = 0
    BY DEF ClientInv, Said
  <1>0. granted' = granted
    BY ClientFrame DEF srvVars
  <1>a. /\ cli[d] = "idle" => conn[d] = "none"
        /\ conn[d] \in {"none", "pending"} =>
             s2c[d] = <<>> /\ d \notin granted /\ cli[d] \in {"idle", "connect", "failed", "killed"}
        /\ cli[d] \notin Gone \cup {"copy"} => pos[d] = 0
    BY DEF ClientInv
  <1>b. c2s[d] <= Said(cli[d]) /\ pos[d] <= Len(File)
    BY DEF ClientInv
  <1>1. CASE d # c
    <2>1. /\ cli'[d] = cli[d] /\ conn'[d] = conn[d] /\ s2c'[d] = s2c[d] /\ c2s'[d] = c2s[d]
          /\ pos'[d] = pos[d]
      BY <1>1, Others
    <2> QED BY <1>0, <1>a, <1>b, <2>1
  <1>2. CASE d = c
    <2>0. cli \in [Client -> CliPhase] /\ conn \in [Client -> {"none", "pending", "open", "closed"}]
      BY DEF TypeOK
    <2>1. cli'[c] # "idle"
      BY <2>0 DEF Connect, ClientStep, ClientBrokenPipe, Kill, ConnectEnds, SendRequest, ReadReply,
         ReadAccept, ReadSize, SayOk, OpenDest, OpenDestFails, CopyRecord, CopyEnds, Say, Skim, Goto
    <2>2. conn'[c] \in {"none", "pending"} =>
            /\ s2c'[c] = <<>> /\ cli'[c] \in {"connect", "failed", "killed"}
            /\ conn[c] \in {"none", "pending"}
      <3>1. CASE Connect(c)
        BY <1>2, <1>a, <2>0, <3>1 DEF Connect, Goto
      <3>2. CASE Kill(c)
        BY <1>2, <1>a, <2>0, <3>2 DEF Kill, Goto
      <3>3. CASE ClientStep(c) \/ ClientBrokenPipe(c)
        <4>1. conn' = conn /\ (cli[c] = "connect" => conn[c] = "closed") /\ cli[c] \notin {"idle"} \cup Gone
          BY <3>3 DEF ClientStep, ClientBrokenPipe, ConnectEnds, SendRequest, ReadReply,
             ReadAccept, ReadSize, SayOk, OpenDest, OpenDestFails, CopyRecord, CopyEnds, Say, Skim, Gone
        <4> QED BY <1>2, <1>a, <4>1 DEF Gone
      <3> QED BY <3>1, <3>2, <3>3
    <2>3. c2s'[c] <= Said(cli'[c])
      <3>0. c2s \in [Client -> 0 .. 2] /\ c2s[c] \in Int
        <4>1. c2s \in [Client -> 0 .. 2]
          BY DEF TypeOK
        <4>2. c2s[c] \in 0 .. 2
          BY <4>1
        <4> QED BY <4>1, <4>2
      <3>1. CASE SendRequest(c) \/ SayOk(c)
        <4>1. \/ Said(cli[c]) = 0 /\ Said(cli'[c]) = 1
              \/ Said(cli[c]) = 1 /\ Said(cli'[c]) = 2
          BY <2>0, <3>1 DEF SendRequest, SayOk, Say, Goto, Said
        <4>2. c2s' = c2s \/ c2s' = [c2s EXCEPT ![c] = c2s[c] + 1]
          BY <3>1 DEF SendRequest, SayOk, Say
        <4>3. c2s'[c] = c2s[c] \/ c2s'[c] = c2s[c] + 1
          BY <3>0, <4>2
        <4> QED BY <1>2, <1>b, <3>0, <4>1, <4>3
      <3>2. CASE ~(SendRequest(c) \/ SayOk(c))
        <4>1. c2s' = c2s
          BY <3>2 DEF Connect, ClientStep, ClientBrokenPipe, Kill, ConnectEnds, ReadReply, ReadAccept,
             ReadSize, OpenDest, OpenDestFails, CopyRecord, CopyEnds, Skim
        <4>2. \/ cli'[c] \in Gone
              \/ cli[c] = "idle" /\ cli'[c] = "connect"
              \/ cli[c] = "connect" /\ cli'[c] = "request"
              \/ cli[c] \in {"reply", "accept", "size"} /\ cli'[c] \in {"accept", "size", "ok"}
              \/ cli[c] \in {"open", "copy"} /\ cli'[c] = "copy"
          BY <2>0, <3>2 DEF Connect, ClientStep, ClientBrokenPipe, Kill, ConnectEnds, ReadReply,
             ReadAccept, ReadSize, OpenDest, OpenDestFails, CopyRecord, CopyEnds, Skim, Goto, Gone
        <4>3. Said(cli[c]) <= Said(cli'[c]) /\ Said(cli[c]) \in Int /\ Said(cli'[c]) \in Int
          BY <4>2 DEF Said, Gone
        <4> QED BY <1>2, <1>b, <3>0, <4>1, <4>3
      <3> QED BY <3>1, <3>2
    <2>4. pos'[c] <= Len(File) /\ (cli'[c] \notin Gone \cup {"copy"} => pos'[c] = 0)
      <3>1. CASE CopyRecord(c)
        <4>1. pos'[c] \in 0 .. Len(File)
          BY <3>1, Copying
        <4>2. cli'[c] = "copy"
          BY <3>1 DEF CopyRecord
        <4> QED BY <4>1, <4>2
      <3>2. CASE ~CopyRecord(c)
        <4>1. pos' = pos
          BY <3>2 DEF Connect, ClientStep, ClientBrokenPipe, Kill, ConnectEnds, SendRequest, ReadReply,
             ReadAccept, ReadSize, SayOk, OpenDest, OpenDestFails, CopyEnds, Say, Skim, fileVars
        <4>2. cli'[c] \notin Gone \cup {"copy"} => cli[c] \notin Gone \cup {"copy"}
          BY <2>0, <3>2 DEF Connect, ClientStep, ClientBrokenPipe, Kill, ConnectEnds, SendRequest, ReadReply,
             ReadAccept, ReadSize, SayOk, OpenDest, OpenDestFails, CopyEnds, Say, Skim, Goto, Gone
        <4> QED BY <1>2, <1>a, <1>b, <4>1, <4>2
      <3> QED BY <3>1, <3>2
    <2> QED BY <1>0, <1>2, <1>a, <2>1, <2>2, <2>3, <2>4
  <1> QED BY <1>1, <1>2

\* Past the size, they are all alike.
LEMMA FitLate ==
    ASSUME NEW s \in Seq(Record), NEW sizes, AllFit(s, 4, sizes)
    PROVE  AllFit(s, 3, sizes)
  <1> DEFINE n == Len(s)
  <1>1. n \in Nat
    BY LenProperties
  <1>2. \A i \in 1 .. n : Fits(s[i], 4 + i, sizes)
    BY DEF AllFit
  <1> HIDE DEF n
  <1>3. \A i \in 1 .. n : ~(4 + i <= 3) /\ ~(3 + i <= 3) /\ 4 + i \notin 1 .. 3 /\ 3 + i \notin 1 .. 3
    BY <1>1
  <1>4. \A i \in 1 .. n : s[i].kind = "file"
    BY <1>2, <1>3 DEF Fits, Kind
  <1>5. \A i \in 1 .. n : Fits(s[i], 3 + i, sizes)
    BY <1>3, <1>4 DEF Fits, Kind
  <1> QED BY <1>5 DEF AllFit, n

\* A step that neither sends nor takes a record.
LEMMA Untouched ==
    ASSUME TypeOK, NEW c \in Client, Stream(c),
           s2c'[c] = s2c[c], pos'[c] = pos[c], c \in granted' <=> c \in granted,
           Skimmed(cli'[c]) = Skimmed(cli[c]) \/ s2c[c] = <<>>,
           \A n \in 0 .. Len(File) : SentTo(c, n) => SentTo(c, n)',
           Counted(c)', SizeKnown(c)'
    PROVE  Stream(c)'
  <1>1. Told(c)' = Told(c)
    BY DEF Told
  <1>2. AllFit(s2c[c], Skimmed(cli[c]), Told(c))
    BY DEF Stream, Records
  <1>3. AllFit(s2c'[c], Skimmed(cli'[c]), Told(c)')
    <2>1. CASE s2c[c] = <<>>
      BY <2>1, NoneFit
    <2>2. CASE Skimmed(cli'[c]) = Skimmed(cli[c])
      BY <1>1, <1>2, <2>2
    <2> QED BY <2>1, <2>2
  <1>4. PICK n \in 0 .. Len(File) : Covers(s2c[c], pos[c], n) /\ SentTo(c, n)
    BY DEF Stream, Offsets
  <1>5. Covers(s2c'[c], pos'[c], n) /\ SentTo(c, n)'
    BY <1>4
  <1> QED BY <1>3, <1>5 DEF Stream, Records, Offsets

\* A record sent to a client: the next one, with the bytes that come next.
LEMMA SentRecord ==
    ASSUME TypeOK, NEW c \in Client, Stream(c), conn[c] = "open",
           NEW r \in Record, s2c'[c] = Append(s2c[c], r),
           cli'[c] = cli[c], conn'[c] = conn[c], granted' = granted, pos'[c] = pos[c],
           off' \in 0 .. Len(File), off <= off', r.bytes = SubSeq(File, off + 1, off'),
           c \notin granted => off' = off,
           Fits(r, Skimmed(cli[c]) + Len(s2c[c]) + 1, Told(c)),
           Counted(c)', SizeKnown(c)'
    PROVE  Stream(c)'
  <1>1. s2c[c] \in Seq(Record) /\ Skimmed(cli[c]) \in Nat
    BY StreamTypes
  <1>2. AllFit(s2c'[c], Skimmed(cli'[c]), Told(c)')
    <2>1. AllFit(s2c[c], Skimmed(cli[c]), Told(c))
      BY DEF Stream, Records
    <2>2. AllFit(Append(s2c[c], r), Skimmed(cli[c]), Told(c))
      BY <1>1, <2>1, FitAppend
    <2>3. Told(c)' = Told(c)
      BY DEF Told
    <2> QED BY <2>2, <2>3
  <1>3. PICK n \in 0 .. Len(File) : Covers(s2c[c], pos[c], n) /\ SentTo(c, n)
    BY DEF Stream, Offsets
  <1>4. n = off
    BY <1>3 DEF SentTo
  <1>5. PICK end \in 0 .. Len(File) : end = off'
    OBVIOUS
  <1>6. Covers(Append(s2c[c], r), pos[c], end)
    BY <1>1, <1>3, <1>4, <1>5, CoversAppend
  <1>7. SentTo(c, end)'
    BY <1>3, <1>4, <1>5 DEF SentTo
  <1>8. Covers(s2c'[c], pos'[c], end)
    BY <1>6
  <1> QED BY <1>2, <1>7, <1>8 DEF Stream, Records, Offsets

\* A record taken by a client: it skims the first three, and copies the others.
LEMMA TookRecord ==
    ASSUME TypeOK, NEW c \in Client, Stream(c), s2c[c] # <<>>, s2c'[c] = Tail(s2c[c]),
           srv' = srv, off' = off, granted' = granted, conn'[c] = conn[c],
           pos'[c] = pos[c] + Len(Head(s2c[c]).bytes),
           Skimmed(cli'[c]) = IF Skimmed(cli[c]) = 3 THEN 3 ELSE Skimmed(cli[c]) + 1,
           SizeKnown(c)'
    PROVE  Stream(c)'
  <1> DEFINE s == s2c[c]
             k == Skimmed(cli[c])
  <1>1. s \in Seq(Record) /\ k \in 0 .. 3 /\ k \in Nat /\ pos[c] \in Nat /\ Len(File) \in Nat
    BY StreamTypes
  <1>2. AllFit(s, k, Told(c)) /\ Told(c)' = Told(c)
    BY DEF Stream, Records, Told
  <1>3. AllFit(s2c'[c], Skimmed(cli'[c]), Told(c)')
    <2>1. AllFit(Tail(s), k + 1, Told(c)) /\ Tail(s) \in Seq(Record)
      BY <1>1, <1>2, FitTail, Taking
    <2>2. k = 3 => AllFit(Tail(s), 3, Told(c))
      <3>1. k = 3 => k + 1 = 4
        OBVIOUS
      <3> HIDE DEF k
      <3> QED BY <2>1, <3>1, FitLate
    <2> QED BY <1>2, <2>1, <2>2
  <1>4. PICK n \in 0 .. Len(File) : Covers(s, pos[c], n) /\ SentTo(c, n)
    BY DEF Stream, Offsets
  <1>5. PICK m \in 0 .. Len(File) :
            pos[c] <= m /\ Len(Head(s).bytes) = m - pos[c] /\ Covers(Tail(s), m, n)
    BY <1>1, <1>4, CoversTail
  <1>6. pos'[c] = m
    <2> DEFINE l == Len(Head(s).bytes)
    <2>1. pos'[c] = pos[c] + l /\ l = m - pos[c]
      BY <1>5
    <2> HIDE DEF l, s
    <2>2. pos[c] + l = m
      BY <1>1, <1>5, <2>1
    <2> QED BY <2>1, <2>2
  <1>7. Covers(s2c'[c], pos'[c], n) /\ SentTo(c, n)'
    BY <1>4, <1>5, <1>6 DEF SentTo
  <1>8. Counted(c)'
    <2> DEFINE a == Len(s)
               b == Len(s2c'[c])
               l == Skimmed(cli'[c])
    <2>1. a \in Nat \ {0} /\ b = a - 1
      BY <1>1, Taking
    <2>2. l = IF k = 3 THEN 3 ELSE k + 1
      OBVIOUS
    <2>3. Counted(c)
      BY DEF Stream
    <2>4. Sent \in 0 .. 2 /\ Sent' = Sent
      BY DEF Sent
    <2> HIDE DEF k, s
    <2>5. (k + a = Sent => l + b = Sent) /\ (k + a >= 3 => l + b >= 3)
      <3> HIDE DEF a, b, l
      <3> QED BY <1>1, <2>1, <2>2, <2>4
    <2>6. /\ conn[c] = "open" /\ srv \in Early => l + b = Sent
          /\ (\/ conn[c] = "open" /\ srv \in {"confirm", "file"}
              \/ c \in granted /\ srv # "down" /\ ~(conn[c] = "open" /\ srv \in Early))
             => l + b >= 3
      BY <2>3, <2>5 DEF Counted, k, s
    <2> QED BY <2>4, <2>6 DEF Counted
  <1> QED BY <1>3, <1>7, <1>8 DEF Stream, Records, Offsets

\* A client the server is not at.
LEMMA StreamAside ==
    ASSUME TypeOK, ServerInv, ClientInv, ServerStep \/ BrokenPipe \/ WriteSpins \/ KillServer,
           NEW c \in Client, Stream(c), conn[c] # "open", conn'[c] # "open"
    PROVE  Stream(c)'
  <1>1. srv # "down"
    BY DEF ServerStep, BrokenPipe, WriteSpins, KillServer, Accept, AcceptFails, Handshake,
       HandshakeFails, ReadRequest, SendReply, SendAccept, OpenFile, SendSize, ReadConfirmation,
       SendChunk, EndOfFile, Close
  <1>2. /\ s2c'[c] = s2c[c] /\ (c \in granted' <=> c \in granted) /\ cli'[c] = cli[c]
        /\ pos'[c] = pos[c] /\ size'[c] = size[c]
    BY ServerFrame DEF fileVars
  <1>3. c \in granted => conn[c] = "closed"
    BY StreamTypes DEF ClientInv
  <1>4. \A n \in 0 .. Len(File) : SentTo(c, n) => SentTo(c, n)'
    BY <1>1, <1>2, <1>3 DEF SentTo
  <1>5. Counted(c)' /\ SizeKnown(c)'
    <2>1. Counted(c) /\ SizeKnown(c)
      BY DEF Stream
    <2> QED BY <1>1, <1>2, <2>1 DEF Counted, SizeKnown
  <1> QED BY <1>2, <1>4, <1>5, Untouched

\* The steps that give a client what it has not asked for yet.
LEMMA StreamSent ==
    ASSUME TypeOK, TypeOK', ServerInv, cur \in Client, Stream(cur), cli[cur] \notin Gone,
           conn[cur] = "open", SendReply \/ SendAccept \/ SendSize \/ SendChunk
    PROVE  Stream(cur)'
  <1> DEFINE k == Skimmed(cli[cur])
             l == Len(s2c[cur])
  <1>1. /\ s2c[cur] \in Seq(Record) /\ l \in Nat /\ k \in 0 .. 3 /\ Len(File) \in Nat
    BY StreamTypes
  <1>2. /\ UNCHANGED <<cli, conn, granted, file>> /\ pos'[cur] = pos[cur] /\ size'[cur] = size[cur]
        /\ cur' = cur
    BY DEF SendReply, SendAccept, SendSize, SendChunk, fileVars
  <1>3. off \in 0 .. Len(File) /\ off' \in 0 .. Len(File)
    BY DEF TypeOK
  <1>4. Counted(cur) /\ SizeKnown(cur)
    BY DEF Stream
  <1>5. ASSUME NEW r \in Record, Send(r)
        PROVE  s2c'[cur] = Append(s2c[cur], r) /\ Len(s2c'[cur]) = l + 1
    BY <1>1, <1>5, Sending, Appending
  <1>6. k + l + 1 \in Nat /\ k + (l + 1) = k + l + 1
    <2> HIDE DEF k, l
    <2> QED BY <1>1
  <1>7. SubSeq(File, off + 1, off) = <<>>
    BY <1>1, <1>3, SubSeqEmpty
  <1>8. file <=> cur \in granted
    BY DEF ServerInv, SendReply, SendAccept, SendSize, SendChunk, Busy, Early
  <1>9. CASE SendReply \/ SendAccept
    <2>1. PICK r \in {Reply, Autoridad} :
              /\ Send(r) /\ r = IF srv = "reply" THEN Reply ELSE Autoridad
              /\ srv \in {"reply", "grant"} /\ off' = off
              /\ srv' \in IF srv = "reply" THEN {"grant", "close"} ELSE {"open"}
      BY <1>9 DEF SendReply, SendAccept
    <2>2. r \in Record /\ r.bytes = <<>>
      BY RecordShape DEF Reply, Autoridad, Rec
    <2>3. k + l = Sent /\ Sent = IF srv = "reply" THEN 0 ELSE 1
      BY <1>4, <2>1 DEF Counted, Early, Sent
    <2>4. cur \notin granted
      BY <1>8, <2>1 DEF ServerInv, Busy, Early
    <2>5. Fits(r, k + l + 1, Told(cur))
      <3>1. k + l + 1 = IF srv = "reply" THEN 1 ELSE 2
        BY <2>3
      <3>2. Reply.kind = "reply" /\ Autoridad.kind = "accept"
        BY DEF Reply, Autoridad, Rec
      <3> HIDE DEF k, l
      <3> QED BY <2>1, <2>2, <3>1, <3>2 DEF Fits, Kind
    <2>6. Counted(cur)'
      <3>1. srv' # "close" => Sent' = k + (l + 1)
        <4>1. srv' # "close" => Sent' = IF srv = "reply" THEN 1 ELSE 2
          BY <2>1 DEF Sent
        <4>2. k + (l + 1) = (IF srv = "reply" THEN 0 ELSE 1) + 1
          BY <1>6, <2>3
        <4> QED BY <4>1, <4>2
      <3>2. Skimmed(cli'[cur]) = k /\ Len(s2c'[cur]) = l + 1 /\ cur \notin granted'
        BY <1>2, <1>5, <2>1, <2>2, <2>4
      <3> HIDE DEF k, l
      <3> QED BY <1>2, <2>1, <3>1, <3>2 DEF Counted, Early
    <2>7. SizeKnown(cur)'
      BY <1>2, <2>4 DEF SizeKnown
    <2>8. r.bytes = SubSeq(File, off + 1, off') /\ off <= off'
      <3>1. off' = off /\ off <= off
        BY <1>3, <2>1
      <3> QED BY <1>7, <2>2, <3>1
    <2> QED BY <1>2, <1>3, <1>5, <2>1, <2>2, <2>5, <2>6, <2>7, <2>8, SentRecord
  <1>10. CASE SendSize
    <2>1. PICK n \in Sizes : Send(Rec("size", n, <<>>))
      BY <1>10 DEF SendSize
    <2>2. srv = "size" /\ srv' = "confirm" /\ off' = off
      BY <1>10 DEF SendSize
    <2>3. PICK r \in Record : r = Rec("size", n, <<>>)
      <3>1. n \in -1 .. Len(File) + 1
        BY <1>1 DEF Sizes
      <3> QED BY <3>1, RecordShape
    <2>4. r.kind = "size" /\ r.size = n /\ r.bytes = <<>>
      BY <2>3 DEF Rec
    <2>5. k + l = 2
      BY <1>4, <2>2 DEF Counted, Early, Sent
    <2>6. k + l + 1 = 3
      BY <2>5
    <2>7. n \in Told(cur)
      BY <1>1, <1>8 DEF Told, Sizes
    <2>8. Fits(r, k + l + 1, Told(cur))
      <3> HIDE DEF k, l
      <3> QED BY <2>4, <2>6, <2>7 DEF Fits, Kind
    <2>9. Skimmed(cli'[cur]) = k /\ Len(s2c'[cur]) = l + 1
      BY <1>2, <1>5, <2>1, <2>3
    <2>10. Counted(cur)'
      <3>1. k + (l + 1) >= 3
        BY <1>6, <2>6
      <3> HIDE DEF k, l
      <3> QED BY <1>2, <2>2, <2>9, <3>1 DEF Counted, Early
    <2>11. cli[cur] \notin {"ok", "open", "copy"}
      <3>1. cli[cur] \in {"ok", "open", "copy"} => k = 3
        BY DEF Skimmed
      <3> HIDE DEF k, l
      <3> QED BY <1>1, <2>5, <3>1
    <2>12. SizeKnown(cur)'
      BY <1>2, <2>11 DEF SizeKnown
    <2>13. r.bytes = SubSeq(File, off + 1, off') /\ off <= off'
      BY <1>3, <1>7, <2>2, <2>4
    <2> QED BY <1>2, <1>3, <1>5, <2>1, <2>2, <2>3, <2>8, <2>10, <2>12, <2>13, SentRecord
  <1>11. CASE SendChunk
    <2>1. PICK r \in Record : r = Rec("file", 0, Chunk)
      BY <1>3, ChunkShape, RecordShape
    <2>2. Send(r) /\ srv = "file" /\ srv' = "file" /\ file /\ off' = off + Len(Chunk)
      BY <1>11, <2>1 DEF SendChunk
    <2>3. r.kind = "file" /\ r.bytes = Chunk
      BY <2>1 DEF Rec
    <2>4. k + l >= 3
      BY <1>4, <2>2 DEF Counted, Early
    <2>5. Fits(r, k + l + 1, Told(cur)) /\ k + (l + 1) >= 3
      <3> HIDE DEF k, l
      <3>1. ~(k + l + 1 <= 3) /\ k + l + 1 \notin {1, 2, 3} /\ k + (l + 1) >= 3
        BY <1>1, <2>4
      <3> QED BY <2>3, <3>1 DEF Fits, Kind
    <2>6. Counted(cur)'
      <3>1. Skimmed(cli'[cur]) = k /\ Len(s2c'[cur]) = l + 1
        BY <1>2, <1>5, <2>2
      <3> HIDE DEF k, l
      <3> QED BY <1>2, <2>2, <2>5, <3>1 DEF Counted, Early
    <2>7. SizeKnown(cur)'
      BY <1>2, <1>4, <2>2 DEF SizeKnown
    <2>8. r.bytes = SubSeq(File, off + 1, off') /\ off <= off'
      BY <1>3, <2>2, <2>3, ChunkShape
    <2> QED BY <1>2, <1>3, <1>5, <1>8, <2>2, <2>5, <2>6, <2>7, <2>8, SentRecord
  <1> QED BY <1>9, <1>10, <1>11

\* The other steps at a client.
LEMMA StreamServed ==
    ASSUME TypeOK, ServerInv, NEW c \in Client, c = cur, Stream(c), conn[c] = "open",
           cli'[c] \notin Gone,
           \/ Handshake \/ HandshakeFails \/ ReadRequest \/ OpenFile \/ ReadConfirmation
           \/ EndOfFile \/ Close
    PROVE  Stream(c)'
  <1> DEFINE k == Skimmed(cli[c])
             l == Len(s2c[c])
  <1>1. /\ s2c[c] \in Seq(Record) /\ l \in Nat /\ k \in 0 .. 3 /\ k \in Nat /\ Len(File) \in Nat
    BY StreamTypes
  <1>2. UNCHANGED <<off, s2c, pos, size>>
    BY DEF Handshake, HandshakeFails, ReadRequest, OpenFile, ReadConfirmation, EndOfFile, Close, fileVars
  <1>3. Counted(c) /\ SizeKnown(c)
    BY DEF Stream
  <1>4. srv \in Busy /\ (file <=> c \in granted) /\ (srv \in Early \ {"size"} => c \notin granted)
    BY DEF ServerInv, Handshake, HandshakeFails, ReadRequest, OpenFile, ReadConfirmation, EndOfFile,
       Close, Busy, Early
  <1>5. CASE Handshake \/ HandshakeFails \/ ReadRequest
    <2>1. /\ srv \in {"handshake", "request"} /\ srv' \in {"request", "reply", "close"}
          /\ UNCHANGED <<granted, conn>>
      BY <1>5 DEF Handshake, HandshakeFails, ReadRequest
    <2>2. c \notin granted
      BY <1>4, <2>1 DEF Early
    <2>3. Skimmed(cli'[c]) = k
      <3>1. cli'[c] = cli[c] \/ (cli[c] = "connect" /\ cli'[c] = "request")
        BY ServerFrame, <1>5 DEF ServerStep, Gone
      <3> QED BY <3>1 DEF Skimmed
    <2>4. Counted(c)'
      <3>1. k + l = 0
        BY <1>3, <2>1 DEF Counted, Early, Sent
      <3>2. srv' # "close" => Sent' = 0
        BY <2>1 DEF Sent
      <3> HIDE DEF k
      <3> QED BY <1>2, <2>1, <2>2, <2>3, <3>1, <3>2 DEF Counted, Early
    <2>5. SizeKnown(c)'
      BY <2>1, <2>2 DEF SizeKnown
    <2>6. \A n \in 0 .. Len(File) : SentTo(c, n) => SentTo(c, n)'
      BY <1>2, <2>1, <2>2 DEF SentTo
    <2> QED BY <1>2, <2>1, <2>3, <2>4, <2>5, <2>6, Untouched
  <1>6. CASE OpenFile
    <2>1. /\ srv = "open" /\ srv' = "size" /\ UNCHANGED <<conn, cli>> /\ c \notin granted
          /\ granted \subseteq granted'
      BY <1>4, <1>6 DEF OpenFile, Early
    <2>2. k + l = 2
      BY <1>3, <2>1 DEF Counted, Early, Sent
    <2>3. k + l <= 2
      BY <2>2
    <2>4. AllFit(s2c'[c], Skimmed(cli'[c]), Told(c)')
      <3>1. AllFit(s2c[c], k, Told(c))
        BY DEF Stream, Records
      <3> QED BY <1>1, <1>2, <2>1, <2>3, <3>1, FitEarly
    <2>5. PICK n \in 0 .. Len(File) : Covers(s2c[c], pos[c], n) /\ SentTo(c, n)
      BY DEF Stream, Offsets
    <2>6. Covers(s2c'[c], pos'[c], n) /\ SentTo(c, n)'
      BY <1>2, <2>1, <2>5 DEF SentTo
    <2>7. Counted(c)'
      <3>1. Sent' = 2
        BY <2>1 DEF Sent
      <3>2. Skimmed(cli'[c]) = k
        BY <2>1
      <3> HIDE DEF k
      <3> QED BY <1>2, <2>1, <2>2, <3>1, <3>2 DEF Counted, Early
    <2>8. SizeKnown(c)'
      <3>1. cli[c] \in {"ok", "open", "copy"} => k = 3
        BY DEF Skimmed
      <3> HIDE DEF k, l
      <3>2. cli[c] \notin {"ok", "open", "copy"}
        BY <1>1, <2>2, <3>1
      <3> QED BY <2>1, <3>2 DEF SizeKnown
    <2> QED BY <2>4, <2>6, <2>7, <2>8 DEF Stream, Records, Offsets
  <1>7. CASE ReadConfirmation \/ EndOfFile \/ Close
    <2>1. /\ \/ srv = "confirm" /\ srv' = "file" /\ conn' = conn
             \/ srv = "file" /\ srv' = "close" /\ conn' = conn
             \/ srv = "close" /\ srv' = "accept" /\ conn' = [conn EXCEPT ![c] = "closed"]
          /\ UNCHANGED <<granted, cli>>
      BY <1>7 DEF ReadConfirmation, EndOfFile, Close
    <2>2. \/ srv # "close" /\ conn'[c] = "open"
          \/ srv = "close" /\ conn'[c] = "closed"
      <3>1. conn \in [Client -> {"none", "pending", "open", "closed"}]
        BY DEF TypeOK
      <3> QED BY <2>1, <3>1
    <2>3. Skimmed(cli'[c]) = k /\ s2c'[c] = s2c[c]
      BY <1>2, <2>1
    <2>4. Counted(c)'
      <3>1. srv \in {"confirm", "file"} \/ c \in granted => k + l >= 3
        BY <1>3, <2>1 DEF Counted, Early
      <3> HIDE DEF k
      <3> QED BY <1>2, <2>1, <2>2, <2>3, <3>1 DEF Counted, Early
    <2>5. SizeKnown(c)'
      BY <1>2, <1>3, <2>1 DEF SizeKnown
    <2>6. \A n \in 0 .. Len(File) : SentTo(c, n) => SentTo(c, n)'
      <3>1. srv = "close" /\ c \in granted => off = Len(File)
        BY <1>4 DEF ServerInv
      <3> QED BY <1>2, <2>1, <2>2, <3>1 DEF SentTo
    <2> QED BY <1>2, <2>1, <2>3, <2>4, <2>5, <2>6, Untouched
  <1> QED BY <1>5, <1>6, <1>7

LEMMA StreamInvByServer ==
    ASSUME TypeOK, TypeOK', ServerInv, ClientInv, StreamInv,
           ServerStep \/ BrokenPipe \/ WriteSpins \/ KillServer
    PROVE  StreamInv'
  <1> SUFFICES ASSUME NEW c \in Client, cli'[c] \notin Gone PROVE Stream(c)'
    BY DEF StreamInv, Gone
  <1>1. /\ cli'[c] = cli[c] \/ cli[c] = "connect"
        /\ pos'[c] = pos[c] /\ size'[c] = size[c]
    BY ServerFrame DEF fileVars
  <1>2. Stream(c) /\ cli[c] \notin Gone
    BY <1>1 DEF StreamInv, Gone
  <1>3. Counted(c) /\ SizeKnown(c)
    BY <1>2 DEF Stream
  <1>4. conn \in [Client -> {"none", "pending", "open", "closed"}]
    BY DEF TypeOK
  <1>5. conn[c] = "open" => c = cur /\ srv \in Busy
    <2>1. conn[c] = "open" => c = cur /\ srv \in Busy \cup {"spin"}
      BY DEF ServerInv
    <2>2. srv = "spin" => cli[cur] \in Gone
      BY DEF ServerInv
    <2> QED BY <1>2, <2>1, <2>2
  <1>6. CASE conn[c] # "open" /\ conn'[c] # "open"
    BY <1>2, <1>6, StreamAside
  <1>7. CASE BrokenPipe \/ KillServer
    <2>1. srv' = "down" /\ conn'[c] # "open" /\ UNCHANGED <<s2c, granted, cli>>
      BY <1>7 DEF BrokenPipe, KillServer, Ends
    <2>2. \A n \in 0 .. Len(File) : SentTo(c, n) => SentTo(c, n)'
      BY <2>1 DEF SentTo
    <2>3. Counted(c)' /\ SizeKnown(c)'
      BY <2>1 DEF Counted, SizeKnown
    <2> QED BY <1>1, <1>2, <2>1, <2>2, <2>3, Untouched
  <1>8. CASE Accept /\ conn'[c] = "open"
    <2>1. /\ srv = "accept" /\ srv' = "handshake" /\ off' = 0
          /\ UNCHANGED <<s2c, granted, cli>> /\ conn[c] # "open"
      BY <1>5, <1>8 DEF Accept, Busy, Early
    <2>2. conn[c] = "pending"
      BY <1>4, <1>8, <2>1 DEF Accept
    <2>3. s2c[c] = <<>> /\ c \notin granted /\ cli[c] \in {"idle", "connect"}
      BY <1>2, <2>2 DEF ClientInv, Gone
    <2>4. \A n \in 0 .. Len(File) : SentTo(c, n) => SentTo(c, n)'
      BY <2>1, <2>3 DEF SentTo
    <2>5. Counted(c)'
      <3>1. Skimmed(cli'[c]) = 0 /\ Sent' = 0
        BY <2>1, <2>3 DEF Skimmed, Sent
      <3>2. Len(s2c'[c]) = 0
        BY <2>1, <2>3, EmptySeq
      <3> QED BY <2>1, <2>3, <3>1, <3>2 DEF Counted, Early
    <2>6. SizeKnown(c)'
      BY <2>1, <2>3 DEF SizeKnown
    <2> QED BY <1>1, <1>2, <2>1, <2>4, <2>5, <2>6, Untouched
  <1>9. CASE conn[c] = "open" /\ (SendReply \/ SendAccept \/ SendSize \/ SendChunk)
    <2>1. Stream(cur)' /\ cur' = cur
      BY <1>2, <1>5, <1>9, StreamSent DEF SendReply, SendAccept, SendSize, SendChunk
    <2> QED BY <1>5, <1>9, <2>1
  <1>10. CASE /\ conn[c] = "open"
              /\ \/ Handshake \/ HandshakeFails \/ ReadRequest \/ OpenFile \/ ReadConfirmation
                 \/ EndOfFile \/ Close
    BY <1>2, <1>5, <1>10, StreamServed
  <1>11. CASE conn[c] = "open" /\ (Accept \/ AcceptFails \/ WriteSpins)
    <2>1. srv # "accept" /\ cli[cur] \notin Gone
      BY <1>2, <1>5, <1>11 DEF Busy, Early
    <2> QED BY <1>11, <2>1 DEF Accept, AcceptFails, WriteSpins
  <1>12. CASE conn[c] # "open" /\ conn'[c] = "open" /\ ~Accept
    <2>1. conn' = conn \/ (\E d \in Client : conn' = [conn EXCEPT ![d] = "closed"])
                       \/ (srv = "close" /\ conn' = [conn EXCEPT ![cur] = "closed"]) \/ Ends
      BY <1>12 DEF ServerStep, BrokenPipe, WriteSpins, KillServer, AcceptFails, Handshake,
         HandshakeFails, ReadRequest, SendReply, SendAccept, OpenFile, SendSize, ReadConfirmation,
         SendChunk, EndOfFile, Close
    <2> QED BY <1>4, <1>12, <2>1 DEF Ends
  <1> QED
    BY <1>6, <1>7, <1>8, <1>9, <1>10, <1>11, <1>12 DEF ServerStep

\* A client at the end of its connection has been sent all, if it was granted.
LEMMA SizeAtEnd ==
    ASSUME TypeOK, NEW c \in Client, Stream(c), Eof(c), Skimmed(cli[c]) # 3
    PROVE  c \in granted => srv = "down"
  <1>1. Counted(c) /\ conn[c] = "closed"
    BY DEF Stream, Eof
  <1>2. Len(s2c[c]) = 0
    BY EmptySeq DEF Eof
  <1>3. Skimmed(cli[c]) \in 0 .. 3
    BY StreamTypes
  <1> QED BY <1>1, <1>2, <1>3 DEF Counted

\* What a client does without reading.
LEMMA StreamUnread ==
    ASSUME TypeOK, ClientInv, NEW c \in Client, Stream(c), cli'[c] \notin Gone,
           Connect(c) \/ ConnectEnds(c) \/ SendRequest(c) \/ SayOk(c) \/ OpenDest(c)
    PROVE  Stream(c)'
  <1>0. cli \in [Client -> CliPhase] /\ conn \in [Client -> {"none", "pending", "open", "closed"}]
    BY DEF TypeOK
  <1>1. UNCHANGED <<srvVars, s2c, size, pos>>
    BY DEF Connect, ConnectEnds, SendRequest, SayOk, Say, OpenDest, fileVars
  <1>2. Counted(c) /\ SizeKnown(c)
    BY DEF Stream
  <1>3. \/ cli[c] \in {"idle", "connect", "request"} /\ cli'[c] \in {"connect", "request", "reply"}
        \/ cli[c] \in {"ok", "open"} /\ cli'[c] \in {"open", "copy"}
    BY <1>0 DEF Connect, ConnectEnds, SendRequest, SayOk, Say, OpenDest, Goto, Gone
  <1>4. Skimmed(cli'[c]) = Skimmed(cli[c])
    BY <1>3 DEF Skimmed
  <1>5. conn'[c] = conn[c] \/ (conn[c] = "none" /\ conn'[c] = "pending" /\ c \notin granted)
    <2>1. CASE Connect(c)
      BY <1>0, <2>1 DEF Connect, ClientInv
    <2>2. CASE ~Connect(c)
      BY <2>2 DEF ConnectEnds, SendRequest, SayOk, Say, OpenDest
    <2> QED BY <2>1, <2>2
  <1>6. \A n \in 0 .. Len(File) : SentTo(c, n) => SentTo(c, n)'
    BY <1>1, <1>5 DEF SentTo, srvVars
  <1>7. Counted(c)'
    <2>1. Sent' = Sent
      BY <1>1 DEF Sent, srvVars
    <2> QED BY <1>1, <1>2, <1>4, <1>5, <2>1 DEF Counted, srvVars
  <1>8. SizeKnown(c)'
    BY <1>1, <1>2, <1>3 DEF SizeKnown, srvVars
  <1> QED BY <1>1, <1>4, <1>6, <1>7, <1>8, Untouched DEF srvVars

\* What it skims: the reply, the acceptance and the size.
LEMMA StreamSkimmed ==
    ASSUME TypeOK, NEW c \in Client, Stream(c), ReadReply(c) \/ ReadAccept(c) \/ ReadSize(c)
    PROVE  Stream(c)'
  <1> DEFINE k == Skimmed(cli[c])
  <1>0. cli \in [Client -> CliPhase] /\ pos \in [Client -> Nat] /\ pos[c] \in Nat
        /\ size \in [Client -> -1 .. Len(File) + 1]
    BY DEF TypeOK
  <1>1. UNCHANGED <<srvVars, conn, pos>>
    BY DEF ReadReply, ReadAccept, ReadSize, Skim, fileVars
  <1>2. \/ cli[c] = "reply" /\ cli'[c] = "accept" /\ size' = size
        \/ cli[c] = "accept" /\ cli'[c] = "size" /\ size' = size
        \/ cli[c] = "size" /\ cli'[c] = "ok" /\ ReadSize(c)
    BY <1>0 DEF ReadReply, ReadAccept, ReadSize, Skim, Goto, fileVars
  <1>3. k \in 0 .. 2 /\ k # 3 /\ Skimmed(cli'[c]) = k + 1 /\ (cli'[c] = "ok" => k = 2)
    BY <1>2 DEF Skimmed
  <1>4. CASE Eof(c)
    <2>1. s2c' = s2c /\ s2c[c] = <<>>
      BY <1>4 DEF ReadReply, ReadAccept, ReadSize, Skim, Eof
    <2>2. c \in granted' => srv' = "down"
      BY <1>1, <1>3, <1>4, SizeAtEnd DEF srvVars
    <2>3. \A n \in 0 .. Len(File) : SentTo(c, n) => SentTo(c, n)'
      BY <1>1 DEF SentTo, srvVars
    <2>4. Counted(c)' /\ SizeKnown(c)'
      <3>1. conn'[c] = "closed"
        BY <1>1, <1>4 DEF Eof
      <3> QED BY <2>2, <3>1 DEF Counted, SizeKnown
    <2> QED BY <1>1, <2>1, <2>3, <2>4, Untouched DEF srvVars
  <1>5. CASE ~Eof(c)
    <2>1. s2c[c] # <<>> /\ s2c' = [s2c EXCEPT ![c] = Tail(@)]
      BY <1>5 DEF ReadReply, ReadAccept, ReadSize, Skim
    <2>2. s2c[c] \in Seq(Record) /\ s2c'[c] = Tail(s2c[c])
      BY <2>1, Reading
    <2>3. Fits(Head(s2c[c]), k + 1, Told(c))
      BY <1>3, <2>1, <2>2, FitTail, StreamTypes DEF Stream, Records
    <2>4. Len(Head(s2c[c]).bytes) = 0
      <3>1. k + 1 <= 3
        BY <1>3
      <3> HIDE DEF k
      <3>2. Head(s2c[c]).bytes = <<>>
        BY <2>3, <3>1 DEF Fits
      <3> QED BY <3>2, EmptySeq
    <2>5. pos'[c] = pos[c] + Len(Head(s2c[c]).bytes)
      BY <1>0, <1>1, <2>4
    <2>6. SizeKnown(c)'
      <3> SUFFICES ASSUME c \in granted, cli'[c] = "ok" PROVE size'[c] = Len(File)
        BY <1>1, <1>2 DEF SizeKnown, srvVars
      <3>1. Head(s2c[c]).size = Len(File)
        <4>1. k + 1 = 3
          BY <1>3
        <4> HIDE DEF k
        <4> QED BY <2>3, <4>1 DEF Fits, Told
      <3>2. size' = [size EXCEPT ![c] = Head(s2c[c]).size]
        BY <1>2, <1>5 DEF ReadSize
      <3> QED BY <1>0, <3>1, <3>2
    <2> QED BY <1>1, <1>3, <2>1, <2>2, <2>5, <2>6, TookRecord DEF srvVars
  <1> QED BY <1>4, <1>5

LEMMA StreamInvByClient ==
    ASSUME TypeOK, ClientInv, StreamInv, NEW c \in Client,
           Connect(c) \/ ClientStep(c) \/ ClientBrokenPipe(c) \/ Kill(c)
    PROVE  StreamInv'
  <1> SUFFICES ASSUME NEW d \in Client, cli'[d] \notin Gone PROVE Stream(d)'
    BY DEF StreamInv, Gone
  <1>0. cli \in [Client -> CliPhase]
    BY DEF TypeOK
  <1>1. UNCHANGED srvVars /\ cli[c] \notin Gone
    BY ClientFrame
  <1>2. CASE d # c
    <2>1. /\ cli'[d] = cli[d] /\ conn'[d] = conn[d] /\ s2c'[d] = s2c[d]
          /\ pos'[d] = pos[d] /\ size'[d] = size[d]
      BY <1>2, Others
    <2>2. Stream(d)
      BY <2>1 DEF StreamInv
    <2>3. \A n \in 0 .. Len(File) : SentTo(d, n) => SentTo(d, n)'
      BY <1>1, <2>1 DEF SentTo, srvVars
    <2>4. Counted(d)' /\ SizeKnown(d)'
      <3>1. Counted(d) /\ SizeKnown(d)
        BY <2>2 DEF Stream
      <3>2. Sent' = Sent
        BY <1>1 DEF Sent, srvVars
      <3> QED BY <1>1, <2>1, <3>1, <3>2 DEF Counted, SizeKnown, srvVars
    <2> QED BY <1>1, <2>1, <2>2, <2>3, <2>4, Untouched DEF srvVars
  <1>3. CASE d = c
    <2>1. Stream(c)
      BY <1>1 DEF StreamInv
    <2>2. CASE Connect(c) \/ ConnectEnds(c) \/ SendRequest(c) \/ SayOk(c) \/ OpenDest(c)
      BY <1>3, <2>1, <2>2, StreamUnread
    <2>3. CASE ReadReply(c) \/ ReadAccept(c) \/ ReadSize(c)
      BY <1>3, <2>1, <2>3, StreamSkimmed
    <2>4. CASE CopyRecord(c)
      <3>1. /\ s2c[c] # <<>> /\ s2c' = [s2c EXCEPT ![c] = Tail(@)] /\ cli[c] = "copy"
            /\ UNCHANGED <<srvVars, cli, conn, size>>
            /\ pos' = [pos EXCEPT ![c] = pos[c] + Len(Head(s2c[c]).bytes)]
        BY <2>4 DEF CopyRecord
      <3>2. s2c'[c] = Tail(s2c[c])
        BY <3>1, Reading
      <3>3. pos'[c] = pos[c] + Len(Head(s2c[c]).bytes)
        <4>1. pos \in [Client -> Nat]
          BY DEF TypeOK
        <4> QED BY <3>1, <4>1
      <3>4. SizeKnown(c)'
        BY <2>1, <3>1 DEF Stream, SizeKnown, srvVars
      <3>5. Skimmed(cli[c]) = 3 /\ Skimmed(cli'[c]) = 3
        BY <3>1 DEF Skimmed
      <3> QED BY <1>3, <2>1, <3>1, <3>2, <3>3, <3>4, <3>5, TookRecord DEF srvVars
    <2>5. CASE OpenDestFails(c) \/ CopyEnds(c) \/ ClientBrokenPipe(c) \/ Kill(c)
      <3>1. cli'[c] \in Gone
        BY <1>0, <2>5 DEF OpenDestFails, CopyEnds, ClientBrokenPipe, Kill, Goto, Gone
      <3> QED BY <1>3, <3>1
    <2> QED BY <2>2, <2>3, <2>4, <2>5 DEF ClientStep
  <1> QED BY <1>2, <1>3

\* What the reads that look at nothing find.
LEMMA ReadsFitting ==
    ASSUME TypeOK, StreamInv
    PROVE  ReadsItsRecord
  <1> SUFFICES ASSUME NEW c \in Client, s2c[c] # <<>>,
                      cli[c] \in {"reply", "accept", "size", "copy"}
               PROVE  /\ cli[c] = "reply" => Head(s2c[c]) = Reply
                      /\ cli[c] = "accept" => Head(s2c[c]) = Autoridad
                      /\ cli[c] = "size" => Head(s2c[c]).kind = "size"
                      /\ cli[c] = "copy" => Head(s2c[c]).kind = "file"
    BY DEF ReadsItsRecord
  <1>1. Stream(c)
    BY DEF StreamInv, Gone
  <1>2. Fits(Head(s2c[c]), Skimmed(cli[c]) + 1, Told(c))
    BY <1>1, FitTail, StreamTypes DEF Stream, Records
  <1>3. Skimmed(cli[c]) + 1 = IF cli[c] = "reply" THEN 1 ELSE IF cli[c] = "accept" THEN 2
                              ELSE IF cli[c] = "size" THEN 3 ELSE 4
    BY DEF Skimmed
  <1> QED BY <1>2, <1>3 DEF Fits, Kind

-----------------------------------------------------------------------------
(* The copies.                                                             *)

LEMMA Prefixes ==
    ASSUME NEW p \in Nat, NEW q \in 0 .. Len(File), p <= q
    PROVE  /\ SubSeq(File, p + 1, q) \in Seq(Byte) /\ SubSeq(File, p + 1, q) \in Seq(Kept)
           /\ Len(SubSeq(File, p + 1, q)) = q - p
           /\ \A i \in 1 .. q - p : SubSeq(File, p + 1, q)[i] = File[p + i]
  <1>1. Len(File) \in Nat
    BY FileAssumption, LenProperties
  <1>2. \A i \in p + 1 .. q : File[i] \in Byte /\ File[i] \in Kept
    BY <1>1, FileAssumption, ElementOfSeq DEF Kept
  <1>3. p + 1 \in Int /\ q \in Int /\ q - (p + 1) + 1 = q - p /\ (p + 1 <= q \/ q - p = 0)
    BY <1>1
  <1>4. /\ SubSeq(File, p + 1, q) \in Seq(Byte) /\ SubSeq(File, p + 1, q) \in Seq(Kept)
        /\ Len(SubSeq(File, p + 1, q)) = IF p + 1 <= q THEN q - (p + 1) + 1 ELSE 0
        /\ \A i \in 1 .. q - (p + 1) + 1 : SubSeq(File, p + 1, q)[i] = File[(p + 1) + i - 1]
    BY <1>2, <1>3, SubSeqProperties
  <1>5. Len(SubSeq(File, p + 1, q)) = q - p
    BY <1>1, <1>3, <1>4
  <1>6. \A i \in 1 .. q - p : (p + 1) + i - 1 = p + i
    BY <1>1
  <1> QED BY <1>3, <1>4, <1>5, <1>6

\* A record written to a copy: the bytes of the file from p to q, in their place.
LEMMA InItsPlace ==
    ASSUME NEW copy \in Seq(Kept), NEW p \in Nat, NEW q \in 0 .. Len(File), p <= q,
           NEW bytes, bytes = SubSeq(File, p + 1, q)
    PROVE  Over(Written(copy, p, bytes), copy, p, q, File, 0)
  <1>1. /\ bytes \in Seq(Byte) /\ Len(bytes) = q - p
        /\ \A i \in 1 .. q - p : bytes[i] = File[p + i]
    BY Prefixes
  <1>2. Len(File) \in Nat /\ Len(copy) \in Nat
    BY FileAssumption, LenProperties
  <1>3. p + Len(bytes) = q
    BY <1>1, <1>2
  <1>4. PICK w : w = Written(copy, p, bytes)
    OBVIOUS
  <1>5. Over(w, copy, p, q, bytes, p)
    BY <1>1, <1>3, <1>4, WrittenShape
  <1>6. \A i \in p + 1 .. q : i - p \in 1 .. q - p /\ p + (i - p) = i /\ i - 0 = i
    BY <1>2
  <1>7. \A i \in p + 1 .. q : bytes[i - p] = File[i - 0]
    BY <1>1, <1>6
  <1>8. Over(w, copy, p, q, File, 0)
    BY <1>5, <1>7 DEF Over
  <1> QED BY <1>4, <1>8

\* A copy that is a prefix of the file stays one.
LEMMA LongerPrefix ==
    ASSUME NEW p \in Nat, NEW q \in 0 .. Len(File), p <= q,
           NEW bytes, bytes = SubSeq(File, p + 1, q)
    PROVE  Written(SubSeq(File, 1, p), p, bytes) = SubSeq(File, 1, q)
  <1> DEFINE copy == SubSeq(File, 1, p)
             w == Written(copy, p, bytes)
             t == SubSeq(File, 1, q)
  <1>1. Len(File) \in Nat /\ p \in 0 .. Len(File) /\ 0 + 1 = 1 /\ 0 <= p /\ 0 <= q /\ p - 0 = p /\ q - 0 = q
    BY FileAssumption, LenProperties
  <1>2. /\ copy \in Seq(Kept) /\ Len(copy) = p /\ \A i \in 1 .. p : copy[i] = File[0 + i]
        /\ t \in Seq(Kept) /\ Len(t) = q /\ \A i \in 1 .. q : t[i] = File[0 + i]
    <2>1. 0 \in Nat
      OBVIOUS
    <2>2. /\ SubSeq(File, 0 + 1, p) \in Seq(Kept) /\ Len(SubSeq(File, 0 + 1, p)) = p - 0
          /\ \A i \in 1 .. p - 0 : SubSeq(File, 0 + 1, p)[i] = File[0 + i]
      BY <1>1, <2>1, Prefixes
    <2>3. /\ SubSeq(File, 0 + 1, q) \in Seq(Kept) /\ Len(SubSeq(File, 0 + 1, q)) = q - 0
          /\ \A i \in 1 .. q - 0 : SubSeq(File, 0 + 1, q)[i] = File[0 + i]
      BY <1>1, <2>1, Prefixes
    <2> QED BY <1>1, <2>2, <2>3
  <1>3. Over(w, copy, p, q, File, 0)
    <2> HIDE DEF copy
    <2> QED BY <1>2, InItsPlace
  <1> HIDE DEF copy, w, t
  <1>4. w \in Seq(Kept) /\ Len(w) = q
    BY <1>1, <1>2, <1>3 DEF Over
  <1>5. ASSUME NEW i \in 1 .. q PROVE w[i] = t[i]
    <2>1. 0 + i = i /\ i - 0 = i /\ (i \notin p + 1 .. q => i \in 1 .. p /\ i <= p)
      BY <1>1
    <2> QED BY <1>2, <1>3, <1>4, <2>1 DEF Over
  <1>6. w = t
    BY <1>2, <1>4, <1>5, SeqEqual
  <1> QED BY <1>6 DEF copy, w, t

LEMMA BytesInPlaceStep ==
    ASSUME TypeOK, StreamInv, BytesInPlace, NEW c \in Client,
           Connect(c) \/ ClientStep(c) \/ ClientBrokenPipe(c) \/ Kill(c)
    PROVE  BytesInPlace'
  <1> SUFFICES ASSUME NEW d \in Directory
               PROVE  /\ Len(dest'[d]) <= Len(File)
                      /\ \A i \in 1 .. Len(dest'[d]) : dest'[d][i] \in {File[i], Hole}
    BY DEF BytesInPlace
  <1>0. /\ dest \in [Directory -> Seq(Byte \cup {Hole})] /\ dir \in [Client -> Directory]
        /\ pos[c] \in Nat
    BY DEF TypeOK
  <1>1. /\ Len(dest[d]) <= Len(File)
        /\ \A i \in 1 .. Len(dest[d]) : dest[d][i] \in {File[i], Hole}
    BY DEF BytesInPlace
  <1>2. CASE dest'[d] = dest[d]
    BY <1>1, <1>2
  <1>3. CASE dest'[d] = <<>>
    <2>1. Len(dest'[d]) = 0 /\ Len(File) \in Nat
      BY <1>3, EmptySeq, FileAssumption, LenProperties
    <2>2. 1 .. Len(dest'[d]) = {}
      BY <2>1
    <2> QED BY <2>1, <2>2
  <1>4. CASE CopyRecord(c) /\ dest'[d] # dest[d]
    <2> DEFINE bytes == Head(s2c[c]).bytes
    <2>1. dest' = [dest EXCEPT ![dir[c]] = Written(dest[dir[c]], pos[c], bytes)]
      BY <1>4 DEF CopyRecord
    <2>2. d = dir[c] /\ dest'[d] = Written(dest[d], pos[c], bytes)
      BY <1>0, <1>4, <2>1
    <2>3. PICK q \in 0 .. Len(File) : q = pos'[c] /\ pos[c] <= q /\ bytes = SubSeq(File, pos[c] + 1, q)
      BY <1>4, Copying
    <2> HIDE DEF bytes
    <2>4. PICK copy \in Seq(Kept) : copy = dest[d]
      BY <1>0 DEF Kept
    <2>5. Over(dest'[d], copy, pos[c], q, File, 0)
      BY <1>0, <2>2, <2>3, <2>4, InItsPlace
    <2>6. Len(File) \in Nat /\ Len(copy) \in Nat /\ Len(copy) <= Len(File)
      BY <1>1, <2>4, FileAssumption, LenProperties
    <2>7. Len(dest'[d]) <= Len(File)
      BY <2>5, <2>6 DEF Over
    <2>8. ASSUME NEW i \in 1 .. Len(dest'[d]) PROVE dest'[d][i] \in {File[i], Hole}
      <3>0. Len(dest'[d]) \in Nat
        BY <2>5, LenProperties DEF Over
      <3>1. i - 0 = i /\ (i <= Len(copy) => i \in 1 .. Len(copy))
        BY <2>6, <3>0
      <3>2. i \in 1 .. Len(copy) => copy[i] \in {File[i], Hole}
        BY <1>1, <2>4
      <3>3. dest'[d][i] = IF i \in pos[c] + 1 .. q THEN File[i - 0]
                          ELSE IF i <= Len(copy) THEN copy[i] ELSE Hole
        BY <2>5 DEF Over
      <3> QED BY <3>1, <3>2, <3>3
    <2> QED BY <2>7, <2>8
  <1>5. CASE ~CopyRecord(c)
    <2>1. dest' = dest \/ dest' = [dest EXCEPT ![dir[c]] = <<>>]
      BY <1>5 DEF Connect, ClientStep, ClientBrokenPipe, Kill, ConnectEnds, SendRequest, ReadReply,
         ReadAccept, ReadSize, SayOk, OpenDest, OpenDestFails, CopyEnds, Say, Skim, fileVars
    <2> QED BY <1>0, <1>2, <1>3, <2>1
  <1> QED BY <1>2, <1>4, <1>5

LEMMA CopyInvByServer ==
    ASSUME TypeOK, ServerInv, CopyInv, ServerStep \/ BrokenPipe \/ WriteSpins \/ KillServer
    PROVE  CopyInv'
  <1> SUFFICES ASSUME NEW c \in Client
               PROVE  /\ cli'[c] \in {"copy", "done"} /\ Alone(c)' =>
                           dest'[dir'[c]] = SubSeq(File, 1, pos'[c])
                      /\ cli'[c] = "done" /\ srv' # "down" =>
                           pos'[c] = IF c \in granted' THEN Len(File) ELSE 0
    BY DEF CopyInv
  <1>1. UNCHANGED <<size, pos, dest, issuer, dir>>
    BY ServerFrame DEF fileVars, fixed
  <1>2. \A d \in Client : \/ cli'[d] = cli[d]
                          \/ cli[d] = "connect" /\ cli'[d] \in {"request", "failed"}
    BY ServerFrame
  <1>3. Alone(c)' => Alone(c)
    BY <1>1, <1>2 DEF Alone
  <1>4. cli'[c] \in {"copy", "done"} => cli[c] = cli'[c]
    BY <1>2
  <1>5. srv # "down"
    BY DEF ServerStep, BrokenPipe, WriteSpins, KillServer, Accept, AcceptFails, Handshake,
       HandshakeFails, ReadRequest, SendReply, SendAccept, OpenFile, SendSize, ReadConfirmation,
       SendChunk, EndOfFile, Close
  <1>6. cli[c] = "done" => (c \in granted' <=> c \in granted)
    <2>1. CASE OpenFile
      <3>1. cli[cur] # "done"
        BY <2>1 DEF OpenFile, ServerInv, Early
      <3> QED BY <2>1, <3>1 DEF OpenFile
    <2>2. CASE ~OpenFile
      BY <2>2 DEF ServerStep, BrokenPipe, WriteSpins, KillServer, Accept, AcceptFails, Handshake,
         HandshakeFails, ReadRequest, SendReply, SendAccept, SendSize, ReadConfirmation,
         SendChunk, EndOfFile, Close, Ends, srvVars
    <2> QED BY <2>1, <2>2
  <1> QED BY <1>1, <1>3, <1>4, <1>5, <1>6 DEF CopyInv

\* A client that ends has read to the end of what was sent to it.
LEMMA CopiedAll ==
    ASSUME TypeOK, ClientInv, StreamInv, NEW c \in Client, CopyEnds(c), srv # "down"
    PROVE  pos[c] = IF c \in granted THEN Len(File) ELSE 0
  <1>1. /\ pos[c] \in Nat /\ Len(File) \in Nat /\ size[c] \in Int /\ s2c[c] \in Seq(Record)
    <2>1. size[c] \in -1 .. Len(File) + 1
      BY DEF TypeOK
    <2>2. pos[c] \in Nat /\ Len(File) \in Nat /\ s2c[c] \in Seq(Record)
      BY StreamTypes
    <2> QED BY <2>1, <2>2
  <1>2. cli[c] = "copy" /\ (pos[c] >= size[c] \/ Eof(c))
    BY DEF CopyEnds
  <1>3. Stream(c)
    BY <1>2 DEF StreamInv, Gone
  <1>4. PICK n \in 0 .. Len(File) : Covers(s2c[c], pos[c], n) /\ SentTo(c, n)
    BY <1>3 DEF Stream, Offsets
  <1>5. pos[c] <= n
    BY <1>1, <1>4, CoversEnds
  <1>6. CASE c \notin granted
    <2>1. n = 0
      BY <1>4, <1>6 DEF SentTo
    <2> QED BY <1>1, <1>5, <1>6, <2>1
  <1>7. CASE c \in granted /\ Eof(c)
    <2>1. n = Len(File)
      BY <1>4, <1>7 DEF SentTo, Eof
    <2>2. n = pos[c]
      <3>1. pos[c] \in 0 .. Len(File)
        BY <1>1, <1>5
      <3> QED BY <1>4, <1>7, <3>1, CoversNothing DEF Eof
    <2> QED BY <1>7, <2>1, <2>2
  <1>8. CASE c \in granted /\ pos[c] >= size[c]
    <2>1. size[c] = Len(File)
      BY <1>2, <1>3, <1>8 DEF Stream, SizeKnown
    <2>2. pos[c] <= Len(File)
      BY DEF ClientInv
    <2>3. pos[c] = Len(File)
      BY <1>1, <1>8, <2>1, <2>2
    <2> QED BY <1>8, <2>3
  <1> QED BY <1>2, <1>6, <1>7, <1>8

LEMMA CopyInvByClient ==
    ASSUME TypeOK, ClientInv, StreamInv, CopyInv, NEW c \in Client,
           Connect(c) \/ ClientStep(c) \/ ClientBrokenPipe(c) \/ Kill(c)
    PROVE  CopyInv'
  <1> SUFFICES ASSUME NEW d \in Client
               PROVE  /\ cli'[d] \in {"copy", "done"} /\ Alone(d)' =>
                           dest'[dir'[d]] = SubSeq(File, 1, pos'[d])
                      /\ cli'[d] = "done" /\ srv' # "down" =>
                           pos'[d] = IF d \in granted' THEN Len(File) ELSE 0
    BY DEF CopyInv
  <1>0. /\ cli \in [Client -> CliPhase] /\ dir \in [Client -> Directory] /\ dir' = dir
        /\ dest \in [Directory -> Seq(Byte \cup {Hole})] /\ srv' = srv /\ granted' = granted
    BY ClientFrame DEF TypeOK, srvVars, fixed
  <1>1. cli[c] \notin Gone /\ \A e \in Client \ {c} : cli'[e] = cli[e]
    BY ClientFrame
  <1>2. \/ cli[c] # "copy" /\ cli'[c] \notin {"copy", "done"} /\ dest' = dest
        \/ cli[c] = "copy" /\ cli'[c] = "killed" /\ dest' = dest
        \/ OpenDest(c) /\ cli'[c] = "copy"
        \/ CopyRecord(c) /\ cli[c] = "copy" /\ cli'[c] = "copy"
        \/ CopyEnds(c) /\ cli[c] = "copy" /\ cli'[c] = "done" /\ dest' = dest /\ pos' = pos
    <2>1. CASE OpenDest(c) \/ CopyRecord(c) \/ CopyEnds(c)
      BY <1>0, <2>1 DEF OpenDest, CopyRecord, CopyEnds, Goto, fileVars
    <2>2. CASE ~(OpenDest(c) \/ CopyRecord(c) \/ CopyEnds(c))
      BY <1>0, <2>2 DEF Connect, ClientStep, ClientBrokenPipe, Kill, ConnectEnds, SendRequest, ReadReply,
         ReadAccept, ReadSize, SayOk, OpenDestFails, Say, Skim, Goto, fileVars
    <2> QED BY <2>1, <2>2
  <1>3. CASE d # c
    <2>1. cli'[d] = cli[d] /\ pos'[d] = pos[d]
      BY <1>3, Others
    <2>2. ASSUME Alone(d)' PROVE Alone(d) /\ dest'[dir[d]] = dest[dir[d]]
      <3>1. \A e \in Client \ {d} : dir[e] = dir[d] => cli'[e] \notin {"copy", "killed", "done"}
        BY <1>0, <2>2 DEF Alone
      <3>2. dir[c] = dir[d] => cli[c] \notin {"copy", "killed", "done"} /\ dest' = dest
        BY <1>1, <1>2, <1>3, <3>1 DEF Gone
      <3>3. Alone(d)
        BY <1>1, <3>1, <3>2 DEF Alone
      <3>4. dest' = dest \/ \E v : dest' = [dest EXCEPT ![dir[c]] = v]
        BY <1>2 DEF OpenDest, CopyRecord
      <3>5. dest'[dir[d]] = dest[dir[d]]
        BY <1>0, <3>2, <3>4
      <3> QED BY <3>3, <3>5
    <2> QED BY <1>0, <2>1, <2>2 DEF CopyInv
  <1>4. CASE d = c
    <2>1. Alone(c)' => Alone(c)
      BY <1>0, <1>1 DEF Alone
    <2>2. CASE OpenDest(c)
      <3>1. dest'[dir[c]] = <<>> /\ pos' = pos /\ cli[c] = "open" /\ cli'[c] = "copy"
        BY <1>0, <2>2 DEF OpenDest, Goto
      <3>2. pos[c] = 0
        BY <3>1 DEF ClientInv, Gone
      <3>3. SubSeq(File, 1, 0) = <<>>
        BY SubSeqEmpty
      <3> QED BY <1>0, <1>4, <3>1, <3>2, <3>3
    <2>3. CASE CopyRecord(c)
      <3> DEFINE bytes == Head(s2c[c]).bytes
      <3>1. /\ dest' = [dest EXCEPT ![dir[c]] = Written(dest[dir[c]], pos[c], bytes)]
            /\ cli[c] = "copy" /\ cli' = cli
        BY <2>3 DEF CopyRecord
      <3>2. dest'[dir[c]] = Written(dest[dir[c]], pos[c], bytes)
        BY <1>0, <3>1
      <3>3. PICK q \in 0 .. Len(File) : q = pos'[c] /\ pos[c] <= q /\ bytes = SubSeq(File, pos[c] + 1, q)
        BY <2>3, Copying
      <3> HIDE DEF bytes
      <3>4. pos[c] \in Nat
        BY StreamTypes
      <3>5. Written(SubSeq(File, 1, pos[c]), pos[c], bytes) = SubSeq(File, 1, q)
        BY <3>3, <3>4, LongerPrefix
      <3>6. Alone(c)' => dest[dir[c]] = SubSeq(File, 1, pos[c])
        BY <2>1, <3>1 DEF CopyInv
      <3> QED BY <1>0, <1>4, <3>1, <3>2, <3>3, <3>5, <3>6
    <2>4. CASE CopyEnds(c)
      <3>1. cli[c] = "copy" /\ dest' = dest /\ pos' = pos
        BY <2>4 DEF CopyEnds, fileVars
      <3>2. Alone(c)' => dest[dir[c]] = SubSeq(File, 1, pos[c])
        BY <2>1, <3>1 DEF CopyInv
      <3>3. srv # "down" => pos[c] = IF c \in granted THEN Len(File) ELSE 0
        BY <2>4, CopiedAll
      <3> QED BY <1>0, <1>4, <3>1, <3>2, <3>3
    <2>5. CASE cli'[c] \notin {"copy", "done"}
      BY <1>4, <2>5
    <2> QED BY <1>2, <2>2, <2>3, <2>4, <2>5
  <1> QED BY <1>3, <1>4

LEMMA CopiesWhole ==
    ASSUME TypeOK, CopyInv
    PROVE  WholeOrEmpty
  <1> SUFFICES ASSUME NEW c \in Client, cli[c] = "done", Alone(c), srv # "down"
               PROVE  dest[dir[c]] = IF c \in granted THEN File ELSE <<>>
    BY DEF WholeOrEmpty
  <1>1. dest[dir[c]] = SubSeq(File, 1, pos[c]) /\ pos[c] = IF c \in granted THEN Len(File) ELSE 0
    BY DEF CopyInv
  <1>2. SubSeq(File, 1, Len(File)) = File
    BY FileAssumption, SubSeqFull
  <1>3. SubSeq(File, 1, 0) = <<>>
    BY SubSeqEmpty
  <1> QED BY <1>1, <1>2, <1>3

-----------------------------------------------------------------------------
(* The inductive invariant.                                                *)

LEMMA InitIInv == Init => IInv
  <1> SUFFICES ASSUME Init PROVE IInv
    OBVIOUS
  <1>1. TypeOK /\ ServerInv /\ ClientInv
    BY InitTypes
  <1>2. /\ \A c \in Client : /\ cli[c] = "idle" /\ conn[c] = "none" /\ s2c[c] = <<>> /\ pos[c] = 0
        /\ srv = "accept" /\ granted = {} /\ \A d \in Directory : dest[d] = <<>>
    BY Zenon DEF Init
  <1>3. Len(File) \in Nat /\ 0 \in 0 .. Len(File)
    BY FileAssumption, LenProperties
  <1>4. StreamInv
    <2> SUFFICES ASSUME NEW c \in Client PROVE Stream(c)
      BY DEF StreamInv
    <2>1. Records(c)
      BY <1>2, NoneFit DEF Records
    <2>2. Covers(s2c[c], pos[c], 0)
      BY <1>2, <1>3, CoversNothing
    <2>3. SentTo(c, 0) /\ Counted(c) /\ SizeKnown(c)
      BY <1>2 DEF SentTo, Counted, SizeKnown
    <2> QED BY <1>3, <2>1, <2>2, <2>3 DEF Stream, Offsets
  <1>5. CopyInv
    BY <1>2 DEF CopyInv
  <1>6. BytesInPlace
    <2>1. Len(<<>>) = 0 /\ 1 .. 0 = {} /\ 0 <= Len(File)
      BY <1>3, EmptySeq
    <2> QED BY <1>2, <2>1 DEF BytesInPlace
  <1> QED BY <1>1, <1>4, <1>5, <1>6 DEF IInv

LEMMA Inductive == IInv /\ [Next]_vars => IInv'
  <1> SUFFICES ASSUME IInv, [Next]_vars PROVE IInv'
    OBVIOUS
  <1>0. TypeOK /\ ServerInv /\ ClientInv /\ StreamInv /\ CopyInv /\ BytesInPlace
    BY DEF IInv
  <1>1. CASE ServerStep \/ BrokenPipe \/ WriteSpins \/ KillServer
    <2>1. TypeOK'
      BY <1>0, <1>1, ServerTypes
    <2>2. ServerInv' /\ ClientInv' /\ StreamInv' /\ CopyInv'
      BY <1>0, <1>1, <2>1, ServerInvByServer, ClientInvByServer, StreamInvByServer, CopyInvByServer
    <2>3. BytesInPlace'
      BY <1>0, <1>1, ServerFrame DEF BytesInPlace, fileVars
    <2> QED BY <2>1, <2>2, <2>3 DEF IInv
  <1>2. CASE \E c \in Client : Connect(c) \/ ClientStep(c) \/ ClientBrokenPipe(c) \/ Kill(c)
    <2>1. PICK c \in Client : Connect(c) \/ ClientStep(c) \/ ClientBrokenPipe(c) \/ Kill(c)
      BY <1>2
    <2>2. TypeOK'
      BY <1>0, <2>1, ClientTypes
    <2>3. ServerInv' /\ ClientInv'
      BY <1>0, <2>1, <2>2, ServerInvByClient, ClientInvByClient
    <2>4. StreamInv' /\ CopyInv' /\ BytesInPlace'
      BY <1>0, <2>1, StreamInvByClient, CopyInvByClient, BytesInPlaceStep
    <2> QED BY <2>2, <2>3, <2>4 DEF IInv
  <1>3. CASE UNCHANGED vars
    <2> USE <1>3 DEF vars, srvVars, fileVars, fixed
    <2>1. TypeOK'
      BY <1>0 DEF TypeOK
    <2>2. ServerInv' /\ ClientInv'
      BY <1>0 DEF ServerInv, ClientInv
    <2>3. StreamInv'
      <3> SUFFICES ASSUME NEW c \in Client, cli[c] \notin Gone PROVE Stream(c)'
        BY DEF StreamInv
      <3>1. Stream(c)
        BY <1>0 DEF StreamInv
      <3>2. Told(c)' = Told(c) /\ Sent' = Sent
        BY DEF Told, Sent
      <3>3. Records(c)'
        BY <3>1, <3>2 DEF Stream, Records
      <3>4. Offsets(c)'
        BY <3>1 DEF Stream, Offsets, SentTo
      <3>5. Counted(c)' /\ SizeKnown(c)'
        BY <3>1, <3>2 DEF Stream, Counted, SizeKnown
      <3> QED BY <3>3, <3>4, <3>5 DEF Stream
    <2>4. CopyInv' /\ BytesInPlace'
      BY <1>0 DEF CopyInv, Alone, BytesInPlace
    <2> QED BY <2>1, <2>2, <2>3, <2>4 DEF IInv
  <1> QED BY <1>1, <1>2, <1>3 DEF Next

LEMMA Invariant == Spec => []IInv
  BY InitIInv, Inductive, PTL DEF Spec

(* Every variable keeps its type: every descriptor the server gives back   *)
(* is one it took, it reads the file no further than its end, and no       *)
(* client says more than it is listened to (sslserver.c:142-204).          *)
THEOREM TypeCorrect == Spec => []TypeOK
  <1>1. IInv => TypeOK
    BY DEF IInv
  <1> QED BY <1>1, Invariant, PTL

(* The reads of sslclient.c:156-172 that look at nothing find the record   *)
(* meant for them, whoever is served before, refused or killed.            *)
THEOREM ReadsItsRecords == Spec => []ReadsItsRecord
  <1>1. IInv => ReadsItsRecord
    BY ReadsFitting DEF IInv
  <1> QED BY <1>1, Invariant, PTL

(* What is in a copy is in its place, whatever another client of its       *)
(* directory truncates under it (sslclient.c:183-198).                     *)
THEOREM InPlace == Spec => []BytesInPlace
  <1>1. IInv => BytesInPlace
    BY DEF IInv
  <1> QED BY <1>1, Invariant, PTL

(* A client that ends has all of the file or an empty copy, whether it     *)
(* stopped at the size it was told or at the end of the connection         *)
(* (sslclient.c:163-200).                                                  *)
THEOREM WholeOrNothing == Spec => []WholeOrEmpty
  <1>1. IInv => WholeOrEmpty
    BY CopiesWhole DEF IInv
  <1> QED BY <1>1, Invariant, PTL
=============================================================================
