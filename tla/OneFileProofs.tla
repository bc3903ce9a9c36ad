---------------------------- MODULE OneFileProofs ----------------------------
(***************************************************************************)
(* Proofs about OneFile, for any clients, directories, file, buffer size   *)
(* and number of killed processes.                                         *)
(***************************************************************************)
EXTENDS OneFile, SequenceTheorems, TLAPS

(* Which connection goes with which phase of its two ends.                 *)
ConnInv ==
    /\ srv = "serve" => cur \in Client /\ first # NoClient /\ conn[cur] = "open"
    /\ first # NoClient => conn[first] \in {"open", "closed"}
    /\ \A c \in Client :
        /\ cli[c] = "idle" => conn[c] = "none"
        /\ conn[c] = "none" => cli[c] \in {"idle", "failed"}
        /\ cli[c] = "done" => conn[c] = "closed"

(* The server leaves the file at its end after the first client, for ever. *)
OffsetInv ==
    /\ first = NoClient => off = 0
    /\ first # NoClient /\ srv # "down" => off = Len(File) \/ (srv = "serve" /\ cur = first)
    /\ srv = "serve" => sent <= off
    /\ srv = "serve" /\ cur # first => sent = 0

(* Only the first client is sent anything: what it has saved and what is   *)
(* on its way are the file up to the server's offset.                      *)
StreamOK(c) ==
    /\ c # first => s2c[c] = <<>> /\ pos[c] = 0
    /\ c = first /\ cli[c] \in {"open", "copy"} =>
        /\ pos[c] + Len(s2c[c]) = off
        /\ \A i \in 1 .. Len(s2c[c]) : s2c[c][i] = File[pos[c] + i]
    /\ cli[c] = "open" => pos[c] = 0
    /\ c = first /\ cli[c] = "done" =>
        pos[c] <= Len(File) /\ (srv # "down" => pos[c] = Len(File))
StreamInv == \A c \in Client : StreamOK(c)

(* A client that is alone in its directory has there what it has saved.    *)
CopyOK(c) ==
    cli[c] \in {"copy", "done"} /\ Alone(c) =>
        /\ Len(dest[dir[c]]) = pos[c]
        /\ \A i \in 1 .. pos[c] : dest[dir[c]][i] = File[i]
CopyInv == \A c \in Client : CopyOK(c)

IInv == TypeOK /\ ConnInv /\ OffsetInv /\ StreamInv /\ CopyInv /\ BytesInPlace

-----------------------------------------------------------------------------
(* Sequences.                                                              *)

(* The first n elements of a sequence and the rest of it.                  *)
LEMMA Splitting ==
    ASSUME NEW S, NEW s \in Seq(S), NEW n \in 1 .. Len(s)
    PROVE  /\ SubSeq(s, 1, n) \in Seq(S) /\ Len(SubSeq(s, 1, n)) = n
           /\ \A i \in 1 .. n : SubSeq(s, 1, n)[i] = s[i]
           /\ SubSeq(s, n + 1, Len(s)) \in Seq(S)
           /\ Len(SubSeq(s, n + 1, Len(s))) = Len(s) - n
           /\ \A i \in 1 .. Len(s) - n : SubSeq(s, n + 1, Len(s))[i] = s[n + i]
  <1>1. \A i \in 1 .. Len(s) : s[i] \in S
    OBVIOUS
  <1>2. SubSeq(s, 1, n) \in Seq(S) /\ Len(SubSeq(s, 1, n)) = n
    BY <1>1, SubSeqProperties
  <1>3. \A i \in 1 .. n : SubSeq(s, 1, n)[i] = s[i]
    BY SubSeqProperties
  <1>4. SubSeq(s, n + 1, Len(s)) \in Seq(S) /\ Len(SubSeq(s, n + 1, Len(s))) = Len(s) - n
    BY SubSeqProperties
  <1>5. \A i \in 1 .. Len(s) - n : SubSeq(s, n + 1, Len(s))[i] = s[n + i]
    BY SubSeqProperties
  <1> QED BY <1>2, <1>3, <1>4, <1>5

LEMMA Appending ==
    ASSUME NEW S, NEW s \in Seq(S), NEW t \in Seq(S)
    PROVE  /\ s \o t \in Seq(S) /\ Len(s \o t) = Len(s) + Len(t)
           /\ \A i \in 1 .. Len(s \o t) :
                (s \o t)[i] = IF i <= Len(s) THEN s[i] ELSE t[i - Len(s)]
  BY ConcatProperties

(* A write keeps what is before and after it, and fills a gap with holes.  *)
LEMMA Writing ==
    ASSUME NEW file \in Seq(Byte \cup {Hole}), NEW p \in Nat, NEW bytes \in Seq(Byte)
    PROVE  /\ Written(file, p, bytes) \in Seq(Byte \cup {Hole})
           /\ Len(Written(file, p, bytes)) =
                IF p + Len(bytes) > Len(file) THEN p + Len(bytes) ELSE Len(file)
           /\ \A i \in 1 .. Len(Written(file, p, bytes)) :
                Written(file, p, bytes)[i] =
                    IF i \in p + 1 .. p + Len(bytes) THEN bytes[i - p]
                    ELSE IF i <= Len(file) THEN file[i] ELSE Hole
  <1> DEFINE upTo == p + Len(bytes)
             n == IF upTo > Len(file) THEN upTo ELSE Len(file)
             at(i) == IF i \in p + 1 .. upTo THEN bytes[i - p]
                      ELSE IF i <= Len(file) THEN file[i] ELSE Hole
             w == [i \in 1 .. n |-> at(i)]
  <1>1. Written(file, p, bytes) = w
    BY DEF Written
  <1>2. n \in Nat
    OBVIOUS
  <1>3. ASSUME NEW i \in 1 .. n PROVE at(i) \in Byte \cup {Hole}
    <2>1. CASE i \in p + 1 .. upTo
      <3>1. i - p \in 1 .. Len(bytes)
        BY <2>1
      <3> QED BY <2>1, <3>1
    <2>2. CASE i \notin p + 1 .. upTo /\ i <= Len(file)
      BY <2>2
    <2>3. CASE i \notin p + 1 .. upTo /\ ~(i <= Len(file))
      BY <2>3
    <2> QED BY <2>1, <2>2, <2>3
  <1>4. w \in Seq(Byte \cup {Hole}) /\ Len(w) = n
    <2> HIDE DEF at, n
    <2> QED BY <1>2, <1>3
  <1>5. \A i \in 1 .. n : w[i] = at(i)
    <2> HIDE DEF at, n
    <2> QED OBVIOUS
  <1> QED BY <1>1, <1>4, <1>5

(* What a read of the file returns.                                        *)
LEMMA ChunkShape ==
    ASSUME off \in 0 .. Len(File)
    PROVE  /\ Chunk \in Seq(Byte) /\ Len(Chunk) \in Nat
           /\ off + Len(Chunk) <= Len(File)
           /\ \A i \in 1 .. Len(Chunk) : Chunk[i] = File[off + i]
  <1> DEFINE m == Min2(off + BUFFERSIZE, Len(File))
  <1>1. m \in off .. Len(File)
    BY FileAssumption, BoundAssumption DEF Min2
  <1>2. Chunk = SubSeq(File, off + 1, m)
    BY DEF Chunk
  <1> HIDE DEF m
  <1>3. \A i \in off + 1 .. m : File[i] \in Byte
    BY <1>1, FileAssumption
  <1> QED BY <1>1, <1>2, <1>3, FileAssumption, SubSeqProperties, SMTT(40)

-----------------------------------------------------------------------------
(* What the actions that move bytes do.                                    *)

LEMMA SendEffect ==
    ASSUME TypeOK, ConnInv, SendChunk
    PROVE  /\ cur \in Client /\ Len(Chunk) \in Nat
           /\ off' = off + Len(Chunk) /\ sent' = sent + Len(Chunk) /\ off' <= Len(File)
           /\ s2c' \in [Client -> Seq(Byte)] /\ \A c \in Client : Len(s2c'[c]) <= Window
           /\ \A c \in Client : c # cur \/ cli[c] \in Gone => s2c'[c] = s2c[c]
           /\ cli[cur] \notin Gone =>
                /\ Len(s2c'[cur]) = Len(s2c[cur]) + Len(Chunk)
                /\ \A i \in 1 .. Len(s2c'[cur]) :
                     s2c'[cur][i] = IF i <= Len(s2c[cur]) THEN s2c[cur][i]
                                    ELSE File[off + (i - Len(s2c[cur]))]
  <1>1. cur \in Client /\ off \in 0 .. Len(File)
    BY DEF TypeOK, ConnInv, SendChunk
  <1>2. /\ Chunk \in Seq(Byte) /\ Len(Chunk) \in Nat /\ off + Len(Chunk) <= Len(File)
        /\ \A i \in 1 .. Len(Chunk) : Chunk[i] = File[off + i]
    BY <1>1, ChunkShape
  <1>3. /\ off' = off + Len(Chunk) /\ sent' = sent + Len(Chunk)
        /\ cli[cur] \in Gone \/ Len(s2c[cur]) + Len(Chunk) <= Window
        /\ s2c' = IF cli[cur] \in Gone THEN s2c ELSE [s2c EXCEPT ![cur] = @ \o Chunk]
        /\ s2c \in [Client -> Seq(Byte)] /\ \A c \in Client : Len(s2c[c]) <= Window
    BY DEF TypeOK, SendChunk
  <1> DEFINE more == s2c[cur] \o Chunk
  <1>4. /\ more \in Seq(Byte) /\ Len(more) = Len(s2c[cur]) + Len(Chunk)
        /\ \A i \in 1 .. Len(more) :
              more[i] = IF i <= Len(s2c[cur]) THEN s2c[cur][i]
                        ELSE File[off + (i - Len(s2c[cur]))]
    <2>1. s2c[cur] \in Seq(Byte)
      BY <1>1, <1>3
    <2>2. /\ more \in Seq(Byte) /\ Len(more) = Len(s2c[cur]) + Len(Chunk)
          /\ \A i \in 1 .. Len(more) :
               more[i] = IF i <= Len(s2c[cur]) THEN s2c[cur][i] ELSE Chunk[i - Len(s2c[cur])]
      BY <2>1, <1>2, Appending
    <2> HIDE DEF more
    <2>3. ASSUME NEW i \in 1 .. Len(more), ~(i <= Len(s2c[cur]))
          PROVE  i - Len(s2c[cur]) \in 1 .. Len(Chunk)
      BY <2>1, <2>2, <2>3, <1>2
    <2> QED BY <2>2, <2>3, <1>2
  <1>5. cli[cur] \notin Gone => s2c'[cur] = more
    BY <1>1, <1>3
  <1>6. \A c \in Client : c # cur \/ cli[c] \in Gone => s2c'[c] = s2c[c]
    BY <1>1, <1>3
  <1> HIDE DEF more
  <1>7. s2c' \in [Client -> Seq(Byte)] /\ \A c \in Client : Len(s2c'[c]) <= Window
    <2>1. CASE cli[cur] \in Gone
      BY <2>1, <1>3
    <2>2. CASE cli[cur] \notin Gone
      <3>1. s2c' = [s2c EXCEPT ![cur] = more]
        BY <2>2, <1>3 DEF more
      <3>2. Len(more) <= Window
        BY <2>2, <1>3, <1>4
      <3> QED BY <3>1, <3>2, <1>1, <1>3, <1>4
    <2> QED BY <2>1, <2>2
  <1> QED BY <1>1, <1>2, <1>3, <1>4, <1>5, <1>6, <1>7

LEMMA CopyEffect ==
    ASSUME TypeOK, StreamInv, NEW c \in Client, CopyBytes(c)
    PROVE  \E n \in 1 .. Len(s2c[c]) :
             /\ c = first /\ cli[c] = "copy" /\ pos[c] + n <= off
             /\ pos' = [pos EXCEPT ![c] = @ + n]
             /\ s2c' \in [Client -> Seq(Byte)] /\ \A e \in Client \ {c} : s2c'[e] = s2c[e]
             /\ Len(s2c'[c]) = Len(s2c[c]) - n
             /\ \A i \in 1 .. Len(s2c[c]) - n : s2c'[c][i] = s2c[c][n + i]
             /\ dest' \in [Directory -> Seq(Byte \cup {Hole})]
             /\ \A d \in Directory \ {dir[c]} : dest'[d] = dest[d]
             /\ Len(dest'[dir[c]]) =
                  IF pos[c] + n > Len(dest[dir[c]]) THEN pos[c] + n ELSE Len(dest[dir[c]])
             /\ \A i \in 1 .. Len(dest'[dir[c]]) :
                  dest'[dir[c]][i] =
                      IF i \in pos[c] + 1 .. pos[c] + n THEN File[i]
                      ELSE IF i <= Len(dest[dir[c]]) THEN dest[dir[c]][i] ELSE Hole
  <1>1. /\ s2c \in [Client -> Seq(Byte)] /\ pos \in [Client -> Nat]
        /\ dir \in [Client -> Directory] /\ dest \in [Directory -> Seq(Byte \cup {Hole})]
        /\ off \in Nat
    BY FileAssumption, SMTT(40) DEF TypeOK
  <1>2. s2c[c] \in Seq(Byte) /\ dest[dir[c]] \in Seq(Byte \cup {Hole}) /\ pos[c] \in Nat
        /\ dir[c] \in Directory
    BY <1>1
  <1>3. PICK n \in 1 .. Min2(BUFFERSIZE, Len(s2c[c])) :
          /\ dest' = [dest EXCEPT ![dir[c]] = Written(@, pos[c], SubSeq(s2c[c], 1, n))]
          /\ pos' = [pos EXCEPT ![c] = @ + n]
          /\ s2c' = [s2c EXCEPT ![c] = SubSeq(@, n + 1, Len(@))]
    BY DEF CopyBytes
  <1>4. n \in 1 .. Len(s2c[c])
    BY <1>2, <1>3, BoundAssumption DEF Min2
  <1>5. c = first /\ cli[c] = "copy"
    <2>1. c # first => s2c[c] = <<>>
      BY DEF StreamInv, StreamOK
    <2> QED BY <2>1, <1>4, <1>2 DEF CopyBytes
  <1>6. /\ pos[c] + Len(s2c[c]) = off
        /\ \A i \in 1 .. Len(s2c[c]) : s2c[c][i] = File[pos[c] + i]
    BY <1>5 DEF StreamInv, StreamOK
  <1> DEFINE bytes == SubSeq(s2c[c], 1, n)
             rest == SubSeq(s2c[c], n + 1, Len(s2c[c]))
             new == Written(dest[dir[c]], pos[c], bytes)
  <1>7. /\ bytes \in Seq(Byte) /\ Len(bytes) = n
        /\ \A i \in 1 .. n : bytes[i] = s2c[c][i]
        /\ rest \in Seq(Byte) /\ Len(rest) = Len(s2c[c]) - n
        /\ \A i \in 1 .. Len(s2c[c]) - n : rest[i] = s2c[c][n + i]
    BY <1>2, <1>4, Splitting
  <1>8. s2c'[c] = rest /\ \A e \in Client \ {c} : s2c'[e] = s2c[e]
    BY <1>1, <1>3
  <1>9. s2c' \in [Client -> Seq(Byte)]
    BY <1>1, <1>3, <1>7
  <1>10. dest'[dir[c]] = new /\ \A d \in Directory \ {dir[c]} : dest'[d] = dest[d]
    BY <1>1, <1>2, <1>3
  <1> HIDE DEF bytes, rest
  <1>11. /\ new \in Seq(Byte \cup {Hole})
         /\ Len(new) = IF pos[c] + n > Len(dest[dir[c]]) THEN pos[c] + n ELSE Len(dest[dir[c]])
         /\ \A i \in 1 .. Len(new) :
              new[i] = IF i \in pos[c] + 1 .. pos[c] + n THEN bytes[i - pos[c]]
                       ELSE IF i <= Len(dest[dir[c]]) THEN dest[dir[c]][i] ELSE Hole
    <2>1. /\ new \in Seq(Byte \cup {Hole})
          /\ Len(new) = IF pos[c] + Len(bytes) > Len(dest[dir[c]]) THEN pos[c] + Len(bytes)
                        ELSE Len(dest[dir[c]])
          /\ \A i \in 1 .. Len(new) :
               new[i] = IF i \in pos[c] + 1 .. pos[c] + Len(bytes) THEN bytes[i - pos[c]]
                        ELSE IF i <= Len(dest[dir[c]]) THEN dest[dir[c]][i] ELSE Hole
      <3> DEFINE file == dest[dir[c]]
                 p == pos[c]
      <3>1. file \in Seq(Byte \cup {Hole}) /\ p \in Nat /\ bytes \in Seq(Byte)
        BY <1>2, <1>7
      <3>2. new = Written(file, p, bytes)
        OBVIOUS
      <3> HIDE DEF file, p, new
      <3>3. /\ Written(file, p, bytes) \in Seq(Byte \cup {Hole})
            /\ Len(Written(file, p, bytes)) =
                 IF p + Len(bytes) > Len(file) THEN p + Len(bytes) ELSE Len(file)
            /\ \A i \in 1 .. Len(Written(file, p, bytes)) :
                 Written(file, p, bytes)[i] =
                     IF i \in p + 1 .. p + Len(bytes) THEN bytes[i - p]
                     ELSE IF i <= Len(file) THEN file[i] ELSE Hole
        BY <3>1, Writing, Zenon
      <3> QED BY <3>2, <3>3 DEF file, p
    <2>2. Len(bytes) = n
      BY <1>7
    <2> HIDE DEF new
    <2> QED BY <2>1, <2>2
  <1>12. dest' = [dest EXCEPT ![dir[c]] = new]
    BY <1>3 DEF bytes
  <1> HIDE DEF new
  <1>13. dest' \in [Directory -> Seq(Byte \cup {Hole})]
    BY <1>1, <1>2, <1>11, <1>12
  <1>14. \A i \in pos[c] + 1 .. pos[c] + n : bytes[i - pos[c]] = File[i]
    <2> TAKE i \in pos[c] + 1 .. pos[c] + n
    <2>1. i - pos[c] \in 1 .. n /\ pos[c] + (i - pos[c]) = i
      BY <1>2, <1>4
    <2>2. i - pos[c] \in 1 .. Len(s2c[c])
      BY <2>1, <1>2, <1>4
    <2>3. bytes[i - pos[c]] = s2c[c][i - pos[c]]
      BY <2>1, <1>7
    <2>4. s2c[c][i - pos[c]] = File[pos[c] + (i - pos[c])]
      BY <2>2, <1>6
    <2> QED BY <2>1, <2>3, <2>4
  <1>15. pos[c] + n <= off
    BY <1>2, <1>4, <1>6
  <1>16. /\ Len(dest'[dir[c]]) =
              IF pos[c] + n > Len(dest[dir[c]]) THEN pos[c] + n ELSE Len(dest[dir[c]])
         /\ \A i \in 1 .. Len(dest'[dir[c]]) :
              dest'[dir[c]][i] =
                  IF i \in pos[c] + 1 .. pos[c] + n THEN File[i]
                  ELSE IF i <= Len(dest[dir[c]]) THEN dest[dir[c]][i] ELSE Hole
    BY <1>10, <1>11, <1>14
  <1>17. /\ Len(s2c'[c]) = Len(s2c[c]) - n
         /\ \A i \in 1 .. Len(s2c[c]) - n : s2c'[c][i] = s2c[c][n + i]
    BY <1>7, <1>8
  <1>18. \A d \in Directory \ {dir[c]} : dest'[d] = dest[d]
    BY <1>10
  <1>19. \A e \in Client \ {c} : s2c'[e] = s2c[e]
    BY <1>8
  <1> WITNESS n \in 1 .. Len(s2c[c])
  <1> QED BY <1>3, <1>5, <1>9, <1>13, <1>15, <1>16, <1>17, <1>18, <1>19

LEMMA SpinEffect ==
    ASSUME TypeOK, NEW c \in Client, Spin(c)
    PROVE  /\ s2c' \in [Client -> Seq(Byte)] /\ \A e \in Client : Len(s2c'[e]) <= Window
           /\ \A e \in Client \ {c} : s2c'[e] = s2c[e]
           /\ s2c[c] # <<>>
  <1>1. s2c \in [Client -> Seq(Byte)] /\ \A e \in Client : Len(s2c[e]) <= Window
    BY DEF TypeOK
  <1>2. PICK n \in 1 .. Min2(BUFFERSIZE, Len(s2c[c])) :
          s2c' = [s2c EXCEPT ![c] = SubSeq(@, n + 1, Len(@))]
    BY DEF Spin
  <1>3. s2c[c] \in Seq(Byte) /\ n \in 1 .. Len(s2c[c])
    BY <1>1, <1>2, BoundAssumption DEF Min2
  <1>4. /\ SubSeq(s2c[c], n + 1, Len(s2c[c])) \in Seq(Byte)
        /\ Len(SubSeq(s2c[c], n + 1, Len(s2c[c]))) = Len(s2c[c]) - n
    BY <1>3, Splitting
  <1>5. Len(SubSeq(s2c[c], n + 1, Len(s2c[c]))) <= Window
    BY <1>1, <1>3, <1>4, BoundAssumption
  <1> QED BY <1>1, <1>2, <1>3, <1>4, <1>5

-----------------------------------------------------------------------------
(* The invariant holds at first and is kept by every step.                 *)

LEMMA InitIInv == Init => IInv
  <1> SUFFICES ASSUME Init PROVE IInv
    OBVIOUS
  <1>1. Len(File) \in Nat /\ 0 \in 0 .. Len(File) /\ 0 \in 0 .. MaxKills
    BY FileAssumption, BoundAssumption
  <1>2. TypeOK
    BY <1>1, BoundAssumption DEF Init, TypeOK, CliPhase
  <1>3. ConnInv /\ OffsetInv
    BY DEF Init, ConnInv, OffsetInv
  <1>4. StreamInv
    BY ClientAssumption DEF Init, StreamInv, StreamOK
  <1>5. CopyInv
    BY DEF Init, CopyInv, CopyOK
  <1>6. BytesInPlace
    BY <1>1 DEF Init, BytesInPlace
  <1> QED BY <1>2, <1>3, <1>4, <1>5, <1>6 DEF IInv

LEMMA TypeStep ==
    TypeOK /\ ConnInv /\ OffsetInv /\ StreamInv /\ [Next]_vars => TypeOK'
  <1> SUFFICES ASSUME TypeOK, ConnInv, OffsetInv, StreamInv, [Next]_vars PROVE TypeOK'
    OBVIOUS
  <1> USE DEF TypeOK
  <1>1. CASE Accept
    <2>1. 0 \in 0 .. Len(File)
      BY FileAssumption
    <2> QED BY <1>1, <2>1 DEF Accept, fileVars
  <1>2. CASE SendChunk
    <2>1. /\ off' = off + Len(Chunk) /\ sent' = sent + Len(Chunk) /\ off' <= Len(File)
          /\ Len(Chunk) \in Nat
          /\ s2c' \in [Client -> Seq(Byte)] /\ \A c \in Client : Len(s2c'[c]) <= Window
      BY <1>2, SendEffect
    <2>2. sent <= off
      BY <1>2 DEF SendChunk, OffsetInv
    <2>3. off' \in 0 .. Len(File) /\ sent' \in 0 .. Len(File)
      BY <2>1, <2>2, FileAssumption, SMTT(40)
    <2> QED BY <1>2, <2>1, <2>3 DEF SendChunk, fileVars
  <1>3. CASE Finish
    BY <1>3 DEF Finish, fileVars
  <1>4. ASSUME Ends, kills' \in 0 .. MaxKills PROVE TypeOK'
    BY <1>4 DEF Ends, fileVars
  <1>5. CASE AcceptFails \/ BrokenPipe
    BY <1>4, <1>5 DEF AcceptFails, BrokenPipe
  <1>6. CASE KillServer
    <2>1. Ends /\ kills' \in 0 .. MaxKills
      BY <1>6, BoundAssumption DEF KillServer
    <2> QED BY <2>1, <1>4
  <1>7. ASSUME NEW c \in Client, Connect(c) PROVE TypeOK'
    BY <1>7 DEF Connect, Goto, srvVars, fileVars, CliPhase, Gone
  <1>8. ASSUME NEW c \in Client, OpenDest(c) \/ OpenDestFails(c) \/ CopyEnds(c) PROVE TypeOK'
    <2>1. CASE OpenDest(c)
      BY <2>1, SMTT(40) DEF OpenDest, Goto, srvVars, CliPhase
    <2>2. CASE OpenDestFails(c)
      BY <2>2 DEF OpenDestFails, Goto, srvVars, fileVars, CliPhase
    <2>3. CASE CopyEnds(c)
      BY <2>3 DEF CopyEnds, Goto, srvVars, fileVars, CliPhase, Gone
    <2> QED BY <1>8, <2>1, <2>2, <2>3
  <1>9. ASSUME NEW c \in Client, CopyBytes(c) PROVE TypeOK'
    <2>1. PICK n \in 1 .. Len(s2c[c]) :
            /\ pos' = [pos EXCEPT ![c] = @ + n]
            /\ s2c' \in [Client -> Seq(Byte)] /\ \A e \in Client \ {c} : s2c'[e] = s2c[e]
            /\ Len(s2c'[c]) = Len(s2c[c]) - n
            /\ dest' \in [Directory -> Seq(Byte \cup {Hole})]
      BY <1>9, CopyEffect, ZenonT(60)
    <2>2. \A e \in Client : Len(s2c'[e]) <= Window
      <3>1. Len(s2c[c]) \in Nat
        OBVIOUS
      <3>2. Len(s2c'[c]) <= Window
        BY <2>1, <3>1, BoundAssumption
      <3> QED BY <2>1, <3>2
    <2>3. pos' \in [Client -> Nat]
      <3>1. n \in Nat
        BY <2>1
      <3>2. pos' = [pos EXCEPT ![c] = @ + n]
        BY <2>1
      <3>3. pos \in [Client -> Nat] /\ pos[c] + n \in Nat
        BY <3>1, SMTT(40)
      <3> QED BY ONLY <3>2, <3>3
    <2> QED BY <1>9, <2>1, <2>2, <2>3 DEF CopyBytes, srvVars
  <1>10. ASSUME NEW c \in Client, Spin(c) PROVE TypeOK'
    BY <1>10, SpinEffect DEF Spin, Goto, srvVars, fileVars, CliPhase
  <1>11. ASSUME NEW c \in Client, Kill(c) PROVE TypeOK'
    BY <1>11, BoundAssumption, SMTT(40) DEF Kill, Goto, srvVars, fileVars, CliPhase, Gone
  <1>12. CASE UNCHANGED vars
    BY <1>12 DEF vars
  <1> QED BY <1>1, <1>2, <1>3, <1>5, <1>6, <1>7, <1>8, <1>9, <1>10, <1>11, <1>12
          DEF Next, Server, ClientStep

LEMMA ConnStep == TypeOK /\ ConnInv /\ [Next]_vars => ConnInv'
  <1> SUFFICES ASSUME TypeOK, ConnInv, [Next]_vars PROVE ConnInv'
    OBVIOUS
  <1>0. /\ cli \in [Client -> CliPhase] /\ first \in Client \cup {NoClient}
        /\ conn \in [Client -> {"none", "pending", "open", "closed"}]
    BY DEF TypeOK
  <1> USE DEF ConnInv
  <1>1. CASE Accept
    BY <1>0, <1>1, ClientAssumption DEF Accept
  <1>2. CASE SendChunk
    BY <1>0, <1>2 DEF SendChunk
  <1>3. CASE Finish
    BY <1>0, <1>3 DEF Finish
  <1>4. CASE Ends
    BY <1>0, <1>4 DEF Ends
  <1>5. CASE AcceptFails \/ BrokenPipe \/ KillServer
    BY <1>4, <1>5 DEF AcceptFails, BrokenPipe, KillServer
  <1>6. ASSUME NEW c \in Client, Connect(c) PROVE ConnInv'
    BY <1>0, <1>6, ClientAssumption DEF Connect, Goto, srvVars
  <1>7. ASSUME NEW c \in Client, ClientStep(c) PROVE ConnInv'
    BY <1>0, <1>7 DEF ClientStep, OpenDest, OpenDestFails, CopyBytes, Spin, CopyEnds, Goto, srvVars
  <1>8. ASSUME NEW c \in Client, Kill(c) PROVE ConnInv'
    BY <1>0, <1>8 DEF Kill, Goto, srvVars, Gone
  <1>9. CASE UNCHANGED vars
    BY <1>9 DEF vars, srvVars
  <1> QED BY <1>1, <1>2, <1>3, <1>5, <1>6, <1>7, <1>8, <1>9 DEF Next, Server

LEMMA OffsetStep == TypeOK /\ ConnInv /\ OffsetInv /\ [Next]_vars => OffsetInv'
  <1> SUFFICES ASSUME TypeOK, ConnInv, OffsetInv, [Next]_vars PROVE OffsetInv'
    OBVIOUS
  <1>0. /\ off \in 0 .. Len(File) /\ sent \in 0 .. Len(File) /\ Len(File) \in Nat
        /\ first \in Client \cup {NoClient} /\ NoClient \notin Client
    BY FileAssumption, ClientAssumption DEF TypeOK
  <1> USE DEF OffsetInv
  <1>1. CASE Accept
    BY <1>0, <1>1 DEF Accept
  <1>2. CASE SendChunk
    <2>1. Len(Chunk) \in Nat
      BY <1>0, ChunkShape
    <2>2. srv = "serve" /\ off < Len(File) /\ first # NoClient /\ cur = first /\ sent <= off
      BY <1>0, <1>2 DEF SendChunk, ConnInv
    <2> QED BY <1>0, <1>2, <2>1, <2>2 DEF SendChunk
  <1>3. CASE Finish
    BY <1>0, <1>3 DEF Finish
  <1>4. CASE AcceptFails \/ BrokenPipe \/ KillServer
    BY <1>4 DEF AcceptFails, BrokenPipe, KillServer, Ends
  <1>5. ASSUME NEW c \in Client, Connect(c) \/ ClientStep(c) \/ Kill(c) PROVE OffsetInv'
    BY <1>5 DEF Connect, ClientStep, OpenDest, OpenDestFails, CopyBytes, Spin, CopyEnds, Kill, srvVars
  <1>6. CASE UNCHANGED vars
    BY <1>6 DEF vars, srvVars
  <1> QED BY <1>1, <1>2, <1>3, <1>4, <1>5, <1>6 DEF Next, Server

LEMMA StreamStep ==
    TypeOK /\ ConnInv /\ OffsetInv /\ StreamInv /\ [Next]_vars => StreamInv'
  <1> SUFFICES ASSUME TypeOK, ConnInv, OffsetInv, StreamInv, [Next]_vars,
                      NEW e \in Client
               PROVE  StreamOK(e)'
    BY DEF StreamInv
  <1>0. /\ cli \in [Client -> CliPhase] /\ off \in Nat /\ Len(File) \in Nat
        /\ s2c \in [Client -> Seq(Byte)] /\ pos \in [Client -> Nat]
        /\ first \in Client \cup {NoClient} /\ NoClient \notin Client
    BY FileAssumption, ClientAssumption, SMTT(40) DEF TypeOK
  <1>a. StreamOK(e)
    BY DEF StreamInv
  <1>b. ASSUME first' = first, off' = off, srv' = "down" \/ srv # "down",
               s2c'[e] = s2c[e], pos'[e] = pos[e],
               cli'[e] = cli[e] \/ cli'[e] \notin {"open", "copy", "done"}
        PROVE  StreamOK(e)'
    BY <1>a, <1>b DEF StreamOK
  <1>1. CASE Accept
    <2>1. PICK c \in Client : conn[c] = "pending"
                              /\ first' = IF first = NoClient THEN c ELSE first
      BY <1>1 DEF Accept
    <2>2. CASE first # NoClient
      BY <1>b, <1>1, <2>1, <2>2 DEF Accept, fileVars
    <2>3. CASE first = NoClient
      <3>1. first' = c /\ off = 0 /\ cli[c] # "done" /\ s2c[e] = <<>> /\ pos[e] = 0
        BY <1>0, <1>a, <2>1, <2>3 DEF ConnInv, OffsetInv, StreamOK
      <3>2. off' = off /\ s2c' = s2c /\ pos' = pos /\ cli' = cli
        BY <1>1 DEF Accept, fileVars
      <3> QED BY <1>0, <1>a, <3>1, <3>2 DEF StreamOK
    <2> QED BY <2>2, <2>3
  <1>2. CASE SendChunk
    <2>1. /\ cur \in Client /\ Len(Chunk) \in Nat /\ off' = off + Len(Chunk)
          /\ \A c \in Client : c # cur \/ cli[c] \in Gone => s2c'[c] = s2c[c]
          /\ cli[cur] \notin Gone =>
               /\ Len(s2c'[cur]) = Len(s2c[cur]) + Len(Chunk)
               /\ \A i \in 1 .. Len(s2c'[cur]) :
                    s2c'[cur][i] = IF i <= Len(s2c[cur]) THEN s2c[cur][i]
                                   ELSE File[off + (i - Len(s2c[cur]))]
      BY <1>2, SendEffect
    <2>2. srv = "serve" /\ cur = first /\ cli[cur] # "done"
      BY <1>0, <1>2 DEF SendChunk, OffsetInv, ConnInv
    <2>3. first' = first /\ pos' = pos /\ cli' = cli /\ srv' = srv
      BY <1>2 DEF SendChunk, fileVars
    <2>4. CASE e # cur
      BY <1>a, <2>1, <2>2, <2>3, <2>4 DEF StreamOK
    <2>5. CASE e = cur /\ cli[cur] \in Gone
      BY <1>a, <2>2, <2>3, <2>5 DEF StreamOK, Gone
    <2>6. CASE e = cur /\ cli[cur] \notin Gone
      <3>1. pos'[e] + Len(s2c'[e]) = off' /\ cli[e] \in {"open", "copy"}
             => \A i \in 1 .. Len(s2c'[e]) : s2c'[e][i] = File[pos'[e] + i]
        <4> SUFFICES ASSUME cli[e] \in {"open", "copy"}, NEW i \in 1 .. Len(s2c'[e])
                     PROVE  s2c'[e][i] = File[pos[e] + i]
          BY <2>3
        <4>1. /\ pos[e] + Len(s2c[e]) = off /\ pos[e] \in Nat /\ Len(s2c[e]) \in Nat
              /\ \A j \in 1 .. Len(s2c[e]) : s2c[e][j] = File[pos[e] + j]
          BY <1>0, <1>a, <2>2, <2>6 DEF StreamOK
        <4>2. s2c'[e][i] = IF i <= Len(s2c[e]) THEN s2c[e][i]
                           ELSE File[off + (i - Len(s2c[e]))]
          BY <2>1, <2>6
        <4>3. off + (i - Len(s2c[e])) = pos[e] + i
          BY <4>1
        <4> QED BY <4>1, <4>2, <4>3
      <3>2. cli[e] \in {"open", "copy"} => pos'[e] + Len(s2c'[e]) = off'
        <4>1. cli[e] \in {"open", "copy"} => pos[e] + Len(s2c[e]) = off
          BY <1>a, <2>2, <2>6 DEF StreamOK
        <4>2. pos'[e] = pos[e] /\ Len(s2c'[e]) = Len(s2c[e]) + Len(Chunk)
          BY <2>1, <2>3, <2>6
        <4>3. pos[e] \in Nat /\ Len(s2c[e]) \in Nat
          BY <1>0
        <4> QED BY <2>1, <4>1, <4>2, <4>3
      <3> QED BY <1>a, <2>2, <2>3, <2>6, <3>1, <3>2 DEF StreamOK
    <2> QED BY <2>4, <2>5, <2>6
  <1>3. CASE Finish
    BY <1>b, <1>3 DEF Finish, fileVars
  <1>4. CASE AcceptFails \/ BrokenPipe \/ KillServer
    BY <1>b, <1>4 DEF AcceptFails, BrokenPipe, KillServer, Ends, fileVars
  <1>5. ASSUME NEW c \in Client, Connect(c) PROVE StreamOK(e)'
    <2>1. c # first
      BY <1>0, <1>5 DEF Connect, ConnInv
    <2>2. first' = first /\ off' = off /\ srv' = srv /\ s2c' = s2c /\ pos' = pos
          /\ cli'[c] \in {"open", "failed"} /\ \A d \in Client \ {c} : cli'[d] = cli[d]
      BY <1>0, <1>5 DEF Connect, Goto, srvVars, fileVars
    <2>3. CASE e = c
      BY <1>a, <2>1, <2>2, <2>3 DEF StreamOK
    <2> QED BY <1>b, <2>2, <2>3
  <1>6. ASSUME NEW c \in Client, OpenDest(c) PROVE StreamOK(e)'
    <2>1. /\ first' = first /\ off' = off /\ srv' = srv /\ s2c' = s2c /\ pos' = pos
          /\ cli[c] = "open" /\ cli'[c] = "copy" /\ \A d \in Client \ {c} : cli'[d] = cli[d]
      BY <1>0, <1>6 DEF OpenDest, Goto, srvVars
    <2>2. CASE e = c
      BY <1>a, <2>1, <2>2 DEF StreamOK
    <2> QED BY <1>b, <2>1, <2>2
  <1>7. ASSUME NEW c \in Client, OpenDestFails(c) PROVE StreamOK(e)'
    BY <1>0, <1>b, <1>7 DEF OpenDestFails, Goto, srvVars, fileVars
  <1>8. ASSUME NEW c \in Client, CopyBytes(c) PROVE StreamOK(e)'
    <2>1. PICK n \in 1 .. Len(s2c[c]) :
            /\ c = first /\ cli[c] = "copy"
            /\ pos' = [pos EXCEPT ![c] = @ + n]
            /\ \A d \in Client \ {c} : s2c'[d] = s2c[d]
            /\ Len(s2c'[c]) = Len(s2c[c]) - n
            /\ \A i \in 1 .. Len(s2c[c]) - n : s2c'[c][i] = s2c[c][n + i]
      BY <1>8, CopyEffect, SMTT(40)
    <2>2. first' = first /\ off' = off /\ srv' = srv /\ cli' = cli
      BY <1>8 DEF CopyBytes, srvVars
    <2>3. CASE e # c
      BY <1>0, <1>b, <2>1, <2>2, <2>3
    <2>4. CASE e = c
      <3>1. pos[e] \in Nat /\ Len(s2c[e]) \in Nat /\ n \in Nat
        BY <1>0, <2>1, <2>4
      <3>2. /\ pos[e] + Len(s2c[e]) = off
            /\ \A i \in 1 .. Len(s2c[e]) : s2c[e][i] = File[pos[e] + i]
        BY <1>a, <2>1, <2>4 DEF StreamOK
      <3>3. pos'[e] = pos[e] + n
        BY <1>0, <2>1, <2>4
      <3>4. pos'[e] + Len(s2c'[e]) = off'
        BY <2>1, <2>2, <2>4, <3>1, <3>2, <3>3
      <3>5. ASSUME NEW i \in 1 .. Len(s2c'[e]) PROVE s2c'[e][i] = File[pos'[e] + i]
        <4>1. n + i \in 1 .. Len(s2c[e]) /\ i \in 1 .. Len(s2c[e]) - n
          BY <2>1, <2>4, <3>1, <3>5
        <4>2. s2c'[e][i] = s2c[e][n + i]
          BY <2>1, <2>4, <4>1
        <4>3. s2c[e][n + i] = File[pos[e] + (n + i)]
          BY <3>2, <4>1
        <4>4. pos[e] + (n + i) = pos'[e] + i
          BY <3>1, <3>3, <3>5
        <4> QED BY <4>2, <4>3, <4>4
      <3> QED BY <2>1, <2>2, <2>4, <3>4, <3>5 DEF StreamOK
    <2> QED BY <2>3, <2>4
  <1>9. ASSUME NEW c \in Client, Spin(c) PROVE StreamOK(e)'
    <2>1. s2c[c] # <<>> /\ \A d \in Client \ {c} : s2c'[d] = s2c[d]
      BY <1>9, SpinEffect
    <2>2. /\ first' = first /\ off' = off /\ srv' = srv /\ pos' = pos
          /\ cli'[c] = "spin" /\ \A d \in Client \ {c} : cli'[d] = cli[d]
      BY <1>0, <1>9 DEF Spin, Goto, srvVars, fileVars
    <2>3. CASE e = c
      BY <1>a, <2>1, <2>2, <2>3 DEF StreamOK
    <2> QED BY <1>b, <2>1, <2>2, <2>3
  <1>10. ASSUME NEW c \in Client, CopyEnds(c) PROVE StreamOK(e)'
    <2>1. /\ first' = first /\ off' = off /\ srv' = srv /\ s2c' = s2c /\ pos' = pos
          /\ s2c[c] = <<>> /\ conn[c] = "closed"
          /\ (cli[c] = "copy" /\ cli'[c] = "done") \/ cli'[c] = "failed"
          /\ \A d \in Client \ {c} : cli'[d] = cli[d]
      BY <1>0, <1>10 DEF CopyEnds, Goto, srvVars, fileVars
    <2>2. CASE e = c
      <3>1. c = first /\ srv # "down" => off = Len(File)
        BY <1>0, <2>1 DEF ConnInv, OffsetInv
      <3>2. c = first /\ cli[c] = "copy" => pos[c] = off
        BY <1>0, <1>a, <2>1, <2>2 DEF StreamOK
      <3>3. off <= Len(File)
        BY DEF TypeOK
      <3> QED BY <1>a, <2>1, <2>2, <3>1, <3>2, <3>3 DEF StreamOK
    <2> QED BY <1>b, <2>1, <2>2
  <1>11. ASSUME NEW c \in Client, Kill(c) PROVE StreamOK(e)'
    <2>1. /\ first' = first /\ off' = off /\ srv' = srv /\ pos' = pos
          /\ cli'[c] = "killed" /\ \A d \in Client \ {c} : cli'[d] = cli[d]
          /\ s2c'[c] = <<>> /\ \A d \in Client \ {c} : s2c'[d] = s2c[d]
      BY <1>0, <1>11 DEF Kill, Goto, srvVars, fileVars
    <2>2. CASE e = c
      BY <1>a, <2>1, <2>2 DEF StreamOK
    <2> QED BY <1>b, <2>1, <2>2
  <1>12. CASE UNCHANGED vars
    BY <1>b, <1>12 DEF vars, srvVars, fileVars
  <1> QED BY <1>1, <1>2, <1>3, <1>4, <1>5, <1>6, <1>7, <1>8, <1>9, <1>10, <1>11, <1>12
          DEF Next, Server, ClientStep

(* A client that has written in its directory, or was killed, stays in the *)
(* way of the others.                                                      *)
LEMMA AloneKept ==
    ASSUME TypeOK, [Next]_vars, NEW e \in Client, Alone(e)'
    PROVE  /\ Alone(e) /\ dir' = dir
           /\ \A d \in Client \ {e} :
                dir[d] = dir[e] => cli'[d] \in {"idle", "open", "blind", "spin", "failed"}
  <1>1. cli \in [Client -> CliPhase]
    BY DEF TypeOK
  <1>2. dir' = dir
    BY DEF Next, Server, Accept, AcceptFails, SendChunk, Finish, BrokenPipe, Ends, KillServer,
           Connect, ClientStep, OpenDest, OpenDestFails, CopyBytes, Spin, CopyEnds, Kill,
           fileVars, vars
  <1>3. \A d \in Client : cli[d] \in {"copy", "killed", "done"} =>
                          cli'[d] \in {"copy", "killed", "done"}
    <2> SUFFICES ASSUME NEW d \in Client, cli[d] \in {"copy", "killed", "done"}
                 PROVE  cli'[d] \in {"copy", "killed", "done"}
      OBVIOUS
    <2>1. CASE Server \/ AcceptFails \/ BrokenPipe \/ KillServer \/ UNCHANGED vars
      BY <2>1 DEF Server, Accept, AcceptFails, SendChunk, Finish, BrokenPipe, Ends, KillServer, vars
    <2>2. ASSUME NEW c \in Client, Connect(c) PROVE cli'[d] \in {"copy", "killed", "done"}
      BY <1>1, <2>2 DEF Connect, Goto
    <2>3. ASSUME NEW c \in Client, ClientStep(c) PROVE cli'[d] \in {"copy", "killed", "done"}
      BY <1>1, <2>3 DEF ClientStep, OpenDest, OpenDestFails, CopyBytes, Spin, CopyEnds, Goto
    <2>4. ASSUME NEW c \in Client, Kill(c) PROVE cli'[d] \in {"copy", "killed", "done"}
      BY <1>1, <2>4 DEF Kill, Goto
    <2> QED BY <2>1, <2>2, <2>3, <2>4 DEF Next
  <1>4. \A d \in Client \ {e} :
           dir[d] = dir[e] => cli'[d] \in {"idle", "open", "blind", "spin", "failed"}
    BY <1>2 DEF Alone
  <1> QED BY <1>1, <1>2, <1>3, <1>4 DEF Alone, CliPhase, Gone

LEMMA CopyStep == TypeOK /\ ConnInv /\ StreamInv /\ CopyInv /\ [Next]_vars => CopyInv'
  <1> SUFFICES ASSUME TypeOK, ConnInv, StreamInv, CopyInv, [Next]_vars,
                      NEW e \in Client, cli'[e] \in {"copy", "done"}, Alone(e)'
               PROVE  /\ Len(dest'[dir'[e]]) = pos'[e]
                      /\ \A i \in 1 .. pos'[e] : dest'[dir'[e]][i] = File[i]
    BY DEF CopyInv, CopyOK
  <1>0. /\ cli \in [Client -> CliPhase] /\ pos \in [Client -> Nat]
        /\ dir \in [Client -> Directory] /\ dest \in [Directory -> Seq(Byte \cup {Hole})]
    BY DEF TypeOK
  <1>a. /\ Alone(e) /\ dir' = dir
        /\ \A d \in Client \ {e} :
             dir[d] = dir[e] => cli'[d] \in {"idle", "open", "blind", "spin", "failed"}
    BY AloneKept
  <1>b. cli[e] \in {"copy", "done"} =>
          /\ Len(dest[dir[e]]) = pos[e]
          /\ \A i \in 1 .. pos[e] : dest[dir[e]][i] = File[i]
    BY <1>a DEF CopyInv, CopyOK
  <1>c. ASSUME dest'[dir[e]] = dest[dir[e]], pos'[e] = pos[e], cli[e] \in {"copy", "done"}
        PROVE  /\ Len(dest'[dir'[e]]) = pos'[e]
               /\ \A i \in 1 .. pos'[e] : dest'[dir'[e]][i] = File[i]
    BY <1>a, <1>b, <1>c
  <1>1. CASE Server \/ AcceptFails \/ BrokenPipe \/ KillServer \/ UNCHANGED vars
    <2>1. cli' = cli /\ pos' = pos /\ dest' = dest
      BY <1>1 DEF Server, Accept, AcceptFails, SendChunk, Finish, BrokenPipe, Ends, KillServer,
                  fileVars, vars
    <2> QED BY <1>c, <2>1
  <1>2. ASSUME NEW c \in Client, Connect(c) \/ OpenDestFails(c) \/ Spin(c) \/ Kill(c)
        PROVE  /\ Len(dest'[dir'[e]]) = pos'[e]
               /\ \A i \in 1 .. pos'[e] : dest'[dir'[e]][i] = File[i]
    <2>1. pos' = pos /\ dest' = dest /\ cli[e] \in {"copy", "done"}
      BY <1>0, <1>2 DEF Connect, OpenDestFails, Spin, Kill, Goto, fileVars
    <2> QED BY <1>c, <2>1
  <1>3. ASSUME NEW c \in Client, CopyEnds(c)
        PROVE  /\ Len(dest'[dir'[e]]) = pos'[e]
               /\ \A i \in 1 .. pos'[e] : dest'[dir'[e]][i] = File[i]
    <2>1. pos' = pos /\ dest' = dest /\ cli[e] \in {"copy", "done"}
      BY <1>0, <1>3 DEF CopyEnds, Goto, fileVars
    <2> QED BY <1>c, <2>1
  <1>4. ASSUME NEW c \in Client, OpenDest(c)
        PROVE  /\ Len(dest'[dir'[e]]) = pos'[e]
               /\ \A i \in 1 .. pos'[e] : dest'[dir'[e]][i] = File[i]
    <2>1. /\ cli[c] = "open" /\ cli' = [cli EXCEPT ![c] = "copy"]
          /\ dest' = [dest EXCEPT ![dir[c]] = <<>>] /\ pos' = pos
      BY <1>4 DEF OpenDest, Goto
    <2>2. CASE e = c
      <3>1. pos[e] = 0
        BY <2>1, <2>2 DEF StreamInv, StreamOK
      <3> QED BY <1>0, <1>a, <2>1, <2>2, <3>1
    <2>3. CASE e # c
      <3>1. dir[c] # dir[e] /\ cli[e] \in {"copy", "done"}
        BY <1>0, <1>a, <2>1, <2>3
      <3>2. dest'[dir[e]] = dest[dir[e]]
        BY <1>0, <2>1, <3>1
      <3> QED BY <1>c, <2>1, <3>1, <3>2
    <2> QED BY <2>2, <2>3
  <1>5. ASSUME NEW c \in Client, CopyBytes(c)
        PROVE  /\ Len(dest'[dir'[e]]) = pos'[e]
               /\ \A i \in 1 .. pos'[e] : dest'[dir'[e]][i] = File[i]
    <2>1. PICK n \in 1 .. Len(s2c[c]) :
            /\ cli[c] = "copy"
            /\ pos' = [pos EXCEPT ![c] = @ + n]
            /\ \A d \in Directory \ {dir[c]} : dest'[d] = dest[d]
            /\ Len(dest'[dir[c]]) =
                 IF pos[c] + n > Len(dest[dir[c]]) THEN pos[c] + n ELSE Len(dest[dir[c]])
            /\ \A i \in 1 .. Len(dest'[dir[c]]) :
                 dest'[dir[c]][i] =
                     IF i \in pos[c] + 1 .. pos[c] + n THEN File[i]
                     ELSE IF i <= Len(dest[dir[c]]) THEN dest[dir[c]][i] ELSE Hole
      BY <1>5, CopyEffect
    <2>2. cli' = cli /\ Len(s2c[c]) \in Nat /\ n \in Nat /\ n > 0
      <3>1. s2c \in [Client -> Seq(Byte)]
        BY DEF TypeOK
      <3>2. Len(s2c[c]) \in Nat
        BY <3>1
      <3>3. n \in 1 .. Len(s2c[c])
        BY <2>1
      <3> QED BY <3>2, <3>3, <1>5 DEF CopyBytes
    <2>3. CASE e = c
      <3>1. Len(dest[dir[e]]) = pos[e] /\ \A i \in 1 .. pos[e] : dest[dir[e]][i] = File[i]
        BY <1>b, <2>1, <2>3
      <3>2. pos[e] \in Nat /\ pos'[e] = pos[e] + n
        BY <1>0, <2>1, <2>2, <2>3
      <3>3. Len(dest'[dir[e]]) = pos'[e]
        BY <2>1, <2>2, <2>3, <3>1, <3>2
      <3>4. ASSUME NEW i \in 1 .. pos'[e] PROVE dest'[dir[e]][i] = File[i]
        <4>1. i \in 1 .. pos[e] \/ i \in pos[e] + 1 .. pos[e] + n
          BY <2>2, <3>2
        <4>2. dest'[dir[e]][i] = IF i \in pos[e] + 1 .. pos[e] + n THEN File[i]
                                 ELSE IF i <= Len(dest[dir[e]]) THEN dest[dir[e]][i] ELSE Hole
          BY <2>1, <2>3, <3>3
        <4> QED BY <3>1, <3>2, <4>1, <4>2
      <3> QED BY <1>a, <3>3, <3>4
    <2>4. CASE e # c
      <3>1. dir[c] # dir[e] /\ cli[e] \in {"copy", "done"}
        BY <1>a, <2>1, <2>2, <2>4
      <3>2. dest'[dir[e]] = dest[dir[e]] /\ pos'[e] = pos[e]
        BY <1>0, <2>1, <2>4, <3>1
      <3> QED BY <1>c, <3>1, <3>2
    <2> QED BY <2>3, <2>4
  <1> QED BY <1>1, <1>2, <1>3, <1>4, <1>5 DEF Next, ClientStep

LEMMA PlaceStep == TypeOK /\ StreamInv /\ BytesInPlace /\ [Next]_vars => BytesInPlace'
  <1> SUFFICES ASSUME TypeOK, StreamInv, BytesInPlace, [Next]_vars, NEW d \in Directory
               PROVE  /\ Len(dest'[d]) <= Len(File)
                      /\ \A i \in 1 .. Len(dest'[d]) : dest'[d][i] \in {File[i], Hole}
    BY DEF BytesInPlace
  <1>0. /\ pos \in [Client -> Nat] /\ dir \in [Client -> Directory]
        /\ dest \in [Directory -> Seq(Byte \cup {Hole})]
        /\ off \in 0 .. Len(File) /\ Len(File) \in Nat
    BY FileAssumption DEF TypeOK
  <1>a. /\ Len(dest[d]) <= Len(File) /\ Len(dest[d]) \in Nat
        /\ \A i \in 1 .. Len(dest[d]) : dest[d][i] \in {File[i], Hole}
    BY <1>0 DEF BytesInPlace
  <1>1. ASSUME NEW c \in Client, OpenDest(c)
        PROVE  /\ Len(dest'[d]) <= Len(File)
               /\ \A i \in 1 .. Len(dest'[d]) : dest'[d][i] \in {File[i], Hole}
    <2>1. dest' = [dest EXCEPT ![dir[c]] = <<>>]
      BY <1>1 DEF OpenDest
    <2> QED BY <1>0, <1>a, <2>1
  <1>2. ASSUME NEW c \in Client, CopyBytes(c)
        PROVE  /\ Len(dest'[d]) <= Len(File)
               /\ \A i \in 1 .. Len(dest'[d]) : dest'[d][i] \in {File[i], Hole}
    <2>1. PICK n \in 1 .. Len(s2c[c]) :
            /\ pos[c] + n <= off
            /\ \A e \in Directory \ {dir[c]} : dest'[e] = dest[e]
            /\ Len(dest'[dir[c]]) =
                 IF pos[c] + n > Len(dest[dir[c]]) THEN pos[c] + n ELSE Len(dest[dir[c]])
            /\ \A i \in 1 .. Len(dest'[dir[c]]) :
                 dest'[dir[c]][i] =
                     IF i \in pos[c] + 1 .. pos[c] + n THEN File[i]
                     ELSE IF i <= Len(dest[dir[c]]) THEN dest[dir[c]][i] ELSE Hole
      BY <1>2, CopyEffect
    <2>2. n \in Nat /\ pos[c] \in Nat
      BY <1>0, <2>1 DEF TypeOK
    <2>3. CASE d = dir[c]
      <3>1. Len(dest'[d]) <= Len(File)
        BY <1>0, <1>a, <2>1, <2>2, <2>3
      <3>2. ASSUME NEW i \in 1 .. Len(dest'[d]) PROVE dest'[d][i] \in {File[i], Hole}
        <4>1. dest'[d][i] = IF i \in pos[c] + 1 .. pos[c] + n THEN File[i]
                            ELSE IF i <= Len(dest[d]) THEN dest[d][i] ELSE Hole
          BY <2>1, <2>3
        <4>2. i \in Nat /\ i >= 1
          BY <1>0, <2>1, <2>2, <2>3, <1>a
        <4> QED BY <1>a, <4>1, <4>2
      <3> QED BY <3>1, <3>2
    <2>4. CASE d # dir[c]
      BY <1>a, <2>1, <2>4
    <2> QED BY <2>3, <2>4
  <1>3. CASE ~ \E c \in Client : OpenDest(c) \/ CopyBytes(c)
    <2>1. dest' = dest
      BY <1>3 DEF Next, Server, Accept, AcceptFails, SendChunk, Finish, BrokenPipe, Ends,
                  KillServer, Connect, ClientStep, OpenDestFails, Spin, CopyEnds, Kill,
                  fileVars, vars
    <2> QED BY <1>a, <2>1
  <1> QED BY <1>1, <1>2, <1>3

-----------------------------------------------------------------------------
(* The theorems.                                                           *)

(* The two ends of every connection and the copies stay in step            *)
(* (simple_server.c:96-124 and client.c:56-90), whatever is killed.        *)
THEOREM Inductive == Spec => []IInv
  <1>1. IInv /\ [Next]_vars => IInv'
    BY TypeStep, ConnStep, OffsetStep, StreamStep, CopyStep, PlaceStep DEF IInv
  <1> QED BY InitIInv, <1>1, PTL DEF Spec

(* No variable leaves its type: the server's offset stays within its file  *)
(* (simple_server.c:112) and the bytes on their way within the window.     *)
THEOREM TypeCorrect == Spec => []TypeOK
  <1>1. IInv => TypeOK
    BY DEF IInv
  <1> QED BY Inductive, <1>1, PTL

(* The first client served, alone in its directory, saves the file from    *)
(* its start and ends with all of it unless the server died                *)
(* (simple_server.c:112-121, client.c:76-84); nobody else is sent a byte.  *)
THEOREM FirstIsServed == Spec => []FirstGetsAll
  <1>1. IInv => FirstGetsAll
    <2>a. IInv => (srv = "serve" /\ cur # first => sent = 0)
      BY DEF IInv, OffsetInv
    <2> SUFFICES ASSUME IInv, first # NoClient, cli[first] \in {"copy", "done"}, Alone(first)
                 PROVE  /\ dest[dir[first]] = SubSeq(File, 1, Len(dest[dir[first]]))
                        /\ cli[first] = "done" /\ srv # "down" => dest[dir[first]] = File
      BY <2>a DEF FirstGetsAll
    <2> DEFINE copy == dest[dir[first]]
    <2>1. first \in Client /\ copy \in Seq(Byte \cup {Hole}) /\ pos[first] \in Nat
      BY DEF IInv, TypeOK
    <2>2. Len(copy) = pos[first] /\ \A i \in 1 .. pos[first] : copy[i] = File[i]
      BY <2>1 DEF IInv, CopyInv, CopyOK
    <2>3. /\ pos[first] <= Len(File)
          /\ cli[first] = "done" /\ srv # "down" => pos[first] = Len(File)
      <3>1. /\ cli[first] = "copy" => pos[first] + Len(s2c[first]) = off
            /\ cli[first] = "done" =>
                 pos[first] <= Len(File) /\ (srv # "down" => pos[first] = Len(File))
        BY <2>1 DEF IInv, StreamInv, StreamOK
      <3>2. off \in 0 .. Len(File) /\ Len(s2c[first]) \in Nat /\ Len(File) \in Nat
        BY <2>1, FileAssumption DEF IInv, TypeOK
      <3> QED BY <2>1, <3>1, <3>2
    <2> HIDE DEF copy
    <2>4. copy = SubSeq(File, 1, Len(copy))
      <3>1. \A i \in 1 .. Len(copy) : File[i] \in Byte \cup {Hole}
        BY <2>1, <2>2, <2>3, FileAssumption
      <3>2. /\ SubSeq(File, 1, Len(copy)) \in Seq(Byte \cup {Hole})
            /\ Len(SubSeq(File, 1, Len(copy))) = Len(copy)
            /\ \A i \in 1 .. Len(copy) : SubSeq(File, 1, Len(copy))[i] = File[i]
        BY <2>1, <3>1, SubSeqProperties
      <3> QED BY <2>1, <2>2, <3>2, SeqEqual
    <2>5. cli[first] = "done" /\ srv # "down" => copy = File
      <3>1. File \in Seq(Byte \cup {Hole})
        BY FileAssumption
      <3> QED BY <2>1, <2>2, <2>3, <3>1, SeqEqual
    <2> QED BY <2>4, <2>5 DEF copy
  <1> QED BY Inductive, <1>1, PTL

(* Clients that truncate each other's copy (client.c:71) leave every byte  *)
(* of it in its place.                                                     *)
THEOREM InPlace == Spec => []BytesInPlace
  <1>1. IInv => BytesInPlace
    BY DEF IInv
  <1> QED BY Inductive, <1>1, PTL
=============================================================================
