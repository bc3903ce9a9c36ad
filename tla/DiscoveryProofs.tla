--------------------------- MODULE DiscoveryProofs ---------------------------
(***************************************************************************)
(* Proofs about Discovery, for any servers and any number of datagrams     *)
(* delivered twice.                                                        *)
(***************************************************************************)
EXTENDS Discovery, SequenceTheorems, TLAPS

(* How far main has got, and what it has told the receiver.                *)
CancelInv ==
    /\ main \in {"sleep", "choose"} => chosen = Nobody
    /\ main = "sleep" => ~cancelled /\ ~midTurn
    /\ main # "sleep" => cancelled
    /\ main # "sleep" /\ ~midTurn => rcv \in {"recv", "ended"}

(* Only the chosen server is sent Connect, and only it answers Connect.    *)
ConnectInv ==
    /\ \A d \in wire \cap Request : d.why = "connect" => d.to = chosen
    /\ \A s \in Server : srv[s] = "send" /\ asked[s] = "connect" => s = chosen /\ s \in heard
    /\ \A d \in wire \cap Answer : d.why = "connect" => d.from = chosen /\ d.from \in heard
    /\ \A i \in 1 .. Len(inbox) :
         inbox[i].why = "connect" => inbox[i].from = chosen /\ inbox[i].from \in heard

(* What the receiver is about to print was sent by the last peer.          *)
PeerInv == rcv \in {"name", "print"} /\ ~midTurn => peer = buffer.from

IInv == TypeOK /\ CancelInv /\ ConnectInv /\ HeardUnlessLate /\ PeerInv /\ OwnBuffer

-----------------------------------------------------------------------------
(* The kinds of datagrams, and the socket's queue.                         *)

LEMMA Kinds ==
    /\ \A s \in Server, w \in Why : [to |-> s, why |-> w] \in Request \ Answer
    /\ \A s \in Server, w \in Why : [from |-> s, why |-> w] \in Answer \ Request
    /\ Zeros \notin Answer
  BY ServerAssumption DEF Request, Answer, Zeros, Why

LEMMA Taken ==
    ASSUME NEW S, NEW q \in Seq(S), q # <<>>
    PROVE  /\ Head(q) \in S /\ Tail(q) \in Seq(S) /\ Head(q) = q[1] /\ 1 \in 1 .. Len(q)
           /\ Len(Tail(q)) = Len(q) - 1
           /\ \A i \in 1 .. Len(Tail(q)) : i + 1 \in 1 .. Len(q) /\ Tail(q)[i] = q[i + 1]
  BY HeadTailProperties

LEMMA TypeStep == TypeOK /\ [Next]_vars => TypeOK'
  <1> SUFFICES ASSUME TypeOK, [Next]_vars PROVE TypeOK'
    OBVIOUS
  <1> USE DEF TypeOK
  <1>0. inbox # <<>> => Head(inbox) \in Answer /\ Head(inbox).from \in Server
                        /\ Tail(inbox) \in Seq(Answer)
    <2> HAVE inbox # <<>>
    <2>1. inbox \in Seq(Answer)
      OBVIOUS
    <2>2. Head(inbox) \in Answer /\ Tail(inbox) \in Seq(Answer)
      BY <2>1, Taken
    <2> QED BY <2>2 DEF Answer
  <1>1. CASE Greet
    <2>1. [to : Server, why : {"hello"}] \subseteq Request
      BY DEF Request, Why
    <2> QED BY <1>1, <2>1 DEF Greet, srvVars
  <1>2. CASE Clear \/ Name \/ PrintFound \/ CancelActs
    BY <1>2 DEF Clear, Name, PrintFound, CancelActs, srvVars, netVars
  <1>3. CASE Receive
    BY <1>0, <1>3 DEF Receive, srvVars
  <1>4. CASE Cancel \/ ClearForAnswer \/ PrintAnswer
    BY <1>4 DEF Cancel, ClearForAnswer, PrintAnswer, srvVars, netVars
  <1>5. CASE AwaitAnswer
    BY <1>0, <1>5 DEF AwaitAnswer, srvVars
  <1>6. CASE SendConnect
    <2>1. PICK s \in Server \cup {Nobody} :
            /\ chosen' = s
            /\ wire' = IF s = Nobody THEN wire ELSE wire \cup {[to |-> s, why |-> "connect"]}
      BY <1>6 DEF SendConnect
    <2>2. wire' \subseteq Request \cup Answer
      BY <2>1 DEF Request, Why
    <2> QED BY <1>6, <2>1, <2>2 DEF SendConnect, srvVars
  <1>7. ASSUME NEW d \in wire, Leaves(d) PROVE wire' \subseteq wire /\ dups' \in 0 .. MaxDups
    BY <1>7, BoundAssumption DEF Leaves
  <1>8. ASSUME NEW s \in Server, Hear(s) PROVE TypeOK'
    <2>1. PICK d \in wire \cap [to : {s}, why : Why] :
            /\ asked' = [asked EXCEPT ![s] = d.why]
            /\ heard' = IF d.why = "connect" THEN heard \cup {s} ELSE heard
            /\ Leaves(d)
      BY <1>8 DEF Hear
    <2>2. d.why \in Why
      BY <2>1
    <2> QED BY <1>7, <1>8, <2>1, <2>2 DEF Hear, cltVars
  <1>9. ASSUME NEW s \in Server, Reply(s) PROVE TypeOK'
    <2>1. wire' \subseteq Request \cup Answer
      BY <1>9 DEF Reply, Answer
    <2> QED BY <1>9, <2>1 DEF Reply, cltVars
  <1>10. ASSUME NEW s \in Server, Stop(s) PROVE TypeOK'
    BY <1>10 DEF Stop, cltVars, netVars
  <1>11. CASE Arrive
    <2>1. PICK d \in wire \cap Answer : inbox' = Append(inbox, d) /\ Leaves(d)
      BY <1>11 DEF Arrive
    <2> QED BY <1>7, <1>11, <2>1 DEF Arrive, cltVars, srvVars
  <1>12. CASE Lose
    BY <1>12 DEF Lose, cltVars, srvVars
  <1>13. CASE UNCHANGED vars
    BY <1>13 DEF vars, cltVars, srvVars, netVars
  <1> QED BY <1>1, <1>2, <1>3, <1>4, <1>5, <1>6, <1>8, <1>9, <1>10, <1>11, <1>12, <1>13
          DEF Next, Receiver, Main

LEMMA CancelStep == TypeOK /\ CancelInv /\ [Next]_vars => CancelInv'
  <1> SUFFICES ASSUME TypeOK, CancelInv, [Next]_vars PROVE CancelInv'
    OBVIOUS
  <1> USE DEF CancelInv
  <1>0. /\ cancelled \in BOOLEAN /\ midTurn \in BOOLEAN
        /\ rcv \in {"clear", "recv", "name", "print", "ended"}
    BY DEF TypeOK
  <1>1. CASE Receiver
    BY <1>0, <1>1 DEF Receiver, Clear, Receive, Name, PrintFound, CancelActs
  <1>2. CASE Cancel
    BY <1>0, <1>2 DEF Cancel
  <1>3. CASE SendConnect \/ ClearForAnswer \/ AwaitAnswer \/ PrintAnswer
    BY <1>3 DEF SendConnect, ClearForAnswer, AwaitAnswer, PrintAnswer
  <1>4. CASE Greet \/ Arrive \/ Lose \/ UNCHANGED vars
    BY <1>4 DEF Greet, Arrive, Lose, vars, cltVars
  <1>5. ASSUME NEW s \in Server, Hear(s) \/ Reply(s) \/ Stop(s) PROVE CancelInv'
    BY <1>5 DEF Hear, Reply, Stop, cltVars
  <1> QED BY <1>1, <1>2, <1>3, <1>4, <1>5 DEF Next, Main

LEMMA ConnectStep == TypeOK /\ CancelInv /\ ConnectInv /\ [Next]_vars => ConnectInv'
  <1> SUFFICES ASSUME TypeOK, CancelInv, ConnectInv, [Next]_vars PROVE ConnectInv'
    OBVIOUS
  <1>0. /\ inbox \in Seq(Answer) /\ wire \subseteq Request \cup Answer
        /\ asked \in [Server -> Why] /\ srv \in [Server -> {"recv", "send", "down"}]
        /\ Nobody \notin Server
    BY ServerAssumption DEF TypeOK
  <1>a. ASSUME chosen' = chosen, heard \subseteq heard', wire' \subseteq wire,
               inbox' = inbox, srv' = srv, asked' = asked
        PROVE  ConnectInv'
    BY <1>a DEF ConnectInv
  <1>1. CASE Greet
    <2>1. /\ wire' = wire \cup [to : Server, why : {"hello"}] /\ inbox' = inbox
          /\ chosen' = chosen /\ heard' = heard /\ srv' = srv /\ asked' = asked
      BY <1>1 DEF Greet, srvVars
    <2>2. \A d \in [to : Server, why : {"hello"}] : d.why # "connect"
      OBVIOUS
    <2>3. \A d \in wire' : d.why = "connect" => d \in wire
      BY <2>1, <2>2
    <2> QED BY <2>1, <2>3 DEF ConnectInv
  <1>2. CASE Receive \/ AwaitAnswer
    <2>1. /\ inbox # <<>> /\ inbox' = Tail(inbox) /\ chosen' = chosen
          /\ wire' = wire /\ srv' = srv /\ asked' = asked /\ heard' = heard
      BY <1>2 DEF Receive, AwaitAnswer, srvVars
    <2>2. \A i \in 1 .. Len(inbox') : i + 1 \in 1 .. Len(inbox) /\ inbox'[i] = inbox[i + 1]
      BY <1>0, <2>1, Taken
    <2> QED BY <2>1, <2>2 DEF ConnectInv
  <1>3. CASE Clear \/ Name \/ PrintFound \/ CancelActs \/ Cancel \/ ClearForAnswer \/ PrintAnswer
    BY <1>a, <1>3 DEF Clear, Name, PrintFound, CancelActs, Cancel, ClearForAnswer, PrintAnswer,
                      srvVars, netVars
  <1>4. CASE SendConnect
    <2>1. PICK s \in Server \cup {Nobody} :
            /\ chosen' = s
            /\ wire' = IF s = Nobody THEN wire ELSE wire \cup {[to |-> s, why |-> "connect"]}
      BY <1>4 DEF SendConnect
    <2>2. /\ inbox' = inbox /\ srv' = srv /\ asked' = asked /\ heard' = heard
          /\ chosen = Nobody
      BY <1>4 DEF SendConnect, CancelInv, srvVars
    <2>3. /\ \A d \in Request : d.to \in Server
          /\ \A d \in Answer : d.from \in Server
          /\ \A i \in 1 .. Len(inbox) : inbox[i] \in Answer
      <3>1. (\A d \in Request : d.to \in Server) /\ (\A d \in Answer : d.from \in Server)
        BY DEF Request, Answer
      <3>2. \A i \in 1 .. Len(inbox) : inbox[i] \in Answer
        BY <1>0
      <3> QED BY <3>1, <3>2
    <2>4. /\ \A d \in wire : d.why # "connect"
          /\ \A i \in 1 .. Len(inbox) : inbox[i].why # "connect"
          /\ \A t \in Server : ~(srv[t] = "send" /\ asked[t] = "connect")
      BY <1>0, <2>2, <2>3 DEF ConnectInv
    <2>5. \A d \in wire' : d.why = "connect" =>
             d = [to |-> s, why |-> "connect"] /\ s \in Server /\ d \notin Answer
      BY <2>1, <2>4, Kinds DEF Why
    <2> QED BY <2>1, <2>2, <2>4, <2>5 DEF ConnectInv
  <1>5. ASSUME NEW s \in Server, Hear(s) PROVE ConnectInv'
    <2>1. PICK d \in wire \cap [to : {s}, why : Why] :
            /\ asked' = [asked EXCEPT ![s] = d.why]
            /\ heard' = IF d.why = "connect" THEN heard \cup {s} ELSE heard
            /\ Leaves(d)
      BY <1>5 DEF Hear
    <2>2. d \in Request /\ d.to = s
      BY <2>1 DEF Request
    <2>3. d.why = "connect" => s = chosen
      BY <2>1, <2>2 DEF ConnectInv
    <2>4. wire' \subseteq wire /\ inbox' = inbox /\ chosen' = chosen
      BY <1>5, <2>1 DEF Hear, Leaves, cltVars
    <2>5. srv' = [srv EXCEPT ![s] = "send"]
      BY <1>5 DEF Hear
    <2>6. \A t \in Server : srv'[t] = "send" /\ asked'[t] = "connect" => t = chosen /\ t \in heard'
      BY <1>0, <2>1, <2>3, <2>5 DEF ConnectInv
    <2>7. heard \subseteq heard'
      BY <2>1
    <2> QED BY <2>4, <2>6, <2>7 DEF ConnectInv
  <1>6. ASSUME NEW s \in Server, Reply(s) PROVE ConnectInv'
    <2>1. /\ srv[s] = "send" /\ wire' = wire \cup {[from |-> s, why |-> asked[s]]}
          /\ srv' = [srv EXCEPT ![s] = "recv"]
          /\ asked' = asked /\ heard' = heard /\ inbox' = inbox /\ chosen' = chosen
      BY <1>6 DEF Reply, cltVars
    <2>2. [from |-> s, why |-> asked[s]] \notin Request
      BY <1>0, Kinds
    <2>3. asked[s] = "connect" => s = chosen /\ s \in heard
      BY <2>1 DEF ConnectInv
    <2> QED BY <1>0, <2>1, <2>2, <2>3 DEF ConnectInv
  <1>7. ASSUME NEW s \in Server, Stop(s) PROVE ConnectInv'
    BY <1>0, <1>7 DEF Stop, ConnectInv, cltVars, netVars
  <1>8. CASE Arrive
    <2>1. PICK d \in wire \cap Answer : inbox' = Append(inbox, d) /\ Leaves(d)
      BY <1>8 DEF Arrive
    <2>2. wire' \subseteq wire /\ chosen' = chosen /\ srv' = srv /\ asked' = asked /\ heard' = heard
      BY <1>8, <2>1 DEF Arrive, Leaves, cltVars, srvVars
    <2>3. \A i \in 1 .. Len(inbox') : IF i \in 1 .. Len(inbox) THEN inbox'[i] = inbox[i]
                                     ELSE inbox'[i] = d
      BY <1>0, <2>1, AppendProperties
    <2>4. d.why = "connect" => d.from = chosen /\ d.from \in heard
      BY <2>1 DEF ConnectInv
    <2> QED BY <2>2, <2>3, <2>4 DEF ConnectInv
  <1>9. CASE Lose
    BY <1>a, <1>9 DEF Lose, cltVars, srvVars
  <1>10. CASE UNCHANGED vars
    BY <1>a, <1>10 DEF vars, cltVars, srvVars, netVars
  <1> QED BY <1>1, <1>2, <1>3, <1>4, <1>5, <1>6, <1>7, <1>8, <1>9, <1>10
          DEF Next, Receiver, Main

LEMMA HeardStep ==
    TypeOK /\ ConnectInv /\ HeardUnlessLate /\ [Next]_vars => HeardUnlessLate'
  <1> SUFFICES ASSUME TypeOK, ConnectInv, HeardUnlessLate, [Next]_vars PROVE HeardUnlessLate'
    OBVIOUS
  <1>a. ASSUME main' = main \/ main = "print", got' = got, chosen' = chosen, heard \subseteq heard'
        PROVE  HeardUnlessLate'
    BY <1>a DEF HeardUnlessLate
  <1>1. CASE AwaitAnswer
    <2>1. inbox \in Seq(Answer) /\ inbox # <<>>
      BY <1>1 DEF AwaitAnswer, TypeOK
    <2>2. Head(inbox) \in Answer /\ Head(inbox) = inbox[1] /\ 1 \in 1 .. Len(inbox)
      BY <2>1, Taken
    <2>3. Head(inbox).why \in {"hello", "connect"}
      BY <2>2 DEF Answer, Why
    <2>4. Head(inbox).why = "connect" => Head(inbox).from = chosen /\ chosen \in heard
      BY <2>2 DEF ConnectInv
    <2> QED BY <1>1, <2>3, <2>4 DEF AwaitAnswer, HeardUnlessLate, srvVars
  <1>2. CASE Cancel \/ SendConnect \/ ClearForAnswer
    BY <1>2 DEF Cancel, SendConnect, ClearForAnswer, HeardUnlessLate
  <1>3. CASE PrintAnswer \/ Receiver \/ Greet
    BY <1>a, <1>3 DEF PrintAnswer, Receiver, Clear, Receive, Name, PrintFound, CancelActs, Greet,
                      srvVars
  <1>4. ASSUME NEW s \in Server, Hear(s) PROVE HeardUnlessLate'
    BY <1>a, <1>4 DEF Hear, cltVars
  <1>5. ASSUME NEW s \in Server, Reply(s) \/ Stop(s) PROVE HeardUnlessLate'
    BY <1>a, <1>5 DEF Reply, Stop, cltVars
  <1>6. CASE Arrive \/ Lose \/ UNCHANGED vars
    BY <1>a, <1>6 DEF Arrive, Lose, vars, cltVars, srvVars
  <1> QED BY <1>1, <1>2, <1>3, <1>4, <1>5, <1>6 DEF Next, Main

LEMMA BufferStep ==
    TypeOK /\ CancelInv /\ PeerInv /\ OwnBuffer /\ [Next]_vars => PeerInv' /\ OwnBuffer'
  <1> SUFFICES ASSUME TypeOK, CancelInv, PeerInv, OwnBuffer, [Next]_vars
               PROVE  PeerInv' /\ OwnBuffer'
    OBVIOUS
  <1>0. /\ midTurn \in BOOLEAN /\ rcv \in {"clear", "recv", "name", "print", "ended"}
        /\ main \in {"sleep", "choose", "clear", "await", "print", "tcp"}
    BY DEF TypeOK
  <1> USE DEF PeerInv, OwnBuffer, CancelInv
  <1>1. CASE Clear \/ Receive \/ Name \/ PrintFound \/ CancelActs
    BY <1>0, <1>1 DEF Clear, Receive, Name, PrintFound, CancelActs
  <1>2. CASE Cancel \/ SendConnect \/ ClearForAnswer \/ AwaitAnswer \/ PrintAnswer
    BY <1>0, <1>2 DEF Cancel, SendConnect, ClearForAnswer, AwaitAnswer, PrintAnswer
  <1>3. CASE Greet \/ Arrive \/ Lose \/ UNCHANGED vars
    BY <1>3 DEF Greet, Arrive, Lose, vars, cltVars
  <1>4. ASSUME NEW s \in Server, Hear(s) \/ Reply(s) \/ Stop(s) PROVE PeerInv' /\ OwnBuffer'
    BY <1>4 DEF Hear, Reply, Stop, cltVars
  <1> QED BY <1>1, <1>2, <1>3, <1>4 DEF Next, Receiver, Main

-----------------------------------------------------------------------------
(* The theorems.                                                           *)

(* Only the chosen server is asked to connect and nobody writes in the     *)
(* buffer main waits with (client.c:146-171, server.c:397-410).            *)
THEOREM Inductive == Spec => []IInv
  <1>1. Init => IInv
    <2> SUFFICES ASSUME Init PROVE IInv
      OBVIOUS
    <2>1. TypeOK
      <3>1. 0 \in 0 .. MaxDups /\ "hello" \in Why
        BY BoundAssumption DEF Why
      <3>2. inbox \in Seq(Answer)
        BY DEF Init
      <3> QED BY <3>1, <3>2 DEF Init, TypeOK
    <2>2. CancelInv /\ ConnectInv /\ HeardUnlessLate /\ PeerInv /\ OwnBuffer
      BY DEF Init, CancelInv, ConnectInv, HeardUnlessLate, PeerInv, OwnBuffer
    <2> QED BY <2>1, <2>2 DEF IInv
  <1>2. IInv /\ [Next]_vars => IInv'
    BY TypeStep, CancelStep, ConnectStep, HeardStep, BufferStep DEF IInv
  <1> QED BY <1>1, <1>2, PTL DEF Spec

(* No variable leaves its type: what is in the buffers is a datagram or    *)
(* zeros (client.c:69-70, 170-171).                                        *)
THEOREM TypeCorrect == Spec => []TypeOK
  <1>1. IInv => TypeOK
    BY DEF IInv
  <1> QED BY Inductive, <1>1, PTL

(* What main reads either answers the broadcast or was sent by the chosen  *)
(* server, which has heard Connect (client.c:171, server.c:402-409).       *)
THEOREM HeardIt == Spec => []HeardUnlessLate
  <1>1. IInv => HeardUnlessLate
    BY DEF IInv
  <1> QED BY Inductive, <1>1, PTL

(* The shared buffer is safe without a join when the receiver was waiting  *)
(* as it was cancelled (client.c:69-77, 146, 170-172).                     *)
THEOREM BufferSafe == Spec => []OwnBuffer
  <1>1. IInv => OwnBuffer
    BY DEF IInv
  <1> QED BY Inductive, <1>1, PTL

(* The receiver never takes the answer to Connect (client.c:70, 146).      *)
THEOREM LeftForMain == Spec => AnswerLeftForMain
  <1> DEFINE A == inbox # <<>> /\ inbox' = Tail(inbox) /\ Head(inbox).why = "connect"
                  => main = "await"
  <1>1. IInv /\ [Next]_vars => A
    <2> SUFFICES ASSUME IInv, [Next]_vars, inbox # <<>>, inbox' = Tail(inbox),
                        Head(inbox).why = "connect"
                 PROVE  main = "await"
      OBVIOUS
    <2>1. inbox \in Seq(Answer)
      BY DEF IInv, TypeOK
    <2>2. /\ Head(inbox) = inbox[1] /\ 1 \in 1 .. Len(inbox) /\ Head(inbox) \in Answer
          /\ Len(inbox') = Len(inbox) - 1 /\ Len(inbox) \in Nat
      BY <2>1, Taken
    <2>3. inbox' # inbox
      <3> SUFFICES ASSUME inbox' = inbox PROVE FALSE
        OBVIOUS
      <3>1. Len(inbox') = Len(inbox)
        OBVIOUS
      <3> QED BY <2>2, <3>1
    <2>4. chosen # Nobody
      BY <2>2, ServerAssumption DEF IInv, ConnectInv, Answer
    <2>5. cancelled
      BY <2>4 DEF IInv, CancelInv
    <2>6. CASE Arrive
      <3>1. PICK d \in wire \cap Answer : inbox' = Append(inbox, d)
        BY <2>6 DEF Arrive
      <3>2. Len(inbox') = Len(inbox) + 1
        BY <2>1, <3>1, AppendProperties
      <3> QED BY <2>2, <3>2
    <2>7. CASE Receive \/ AwaitAnswer
      BY <2>5, <2>7 DEF Receive, AwaitAnswer
    <2>8. CASE ~(Arrive \/ Receive \/ AwaitAnswer)
      BY <2>3, <2>8 DEF Next, Receiver, Main, Greet, Clear, Name, PrintFound, CancelActs, Cancel,
            SendConnect, ClearForAnswer, PrintAnswer, Lose, Hear, Reply, Stop,
            netVars, vars
    <2> QED BY <2>6, <2>7, <2>8
  <1>2. Spec => [][A]_vars
    <2> HIDE DEF A
    <2> QED BY Inductive, <1>1, PTL DEF Spec
  <1> QED BY <1>2 DEF AnswerLeftForMain
=============================================================================
