--------------------------- MODULE UdpRelayProofs ---------------------------
(***************************************************************************)
(* Types of UdpRelay, and whose bytes an echo ends in, for any senders,    *)
(* relays, ports and lengths, whatever is lost or comes late.              *)
(***************************************************************************)
EXTENDS UdpRelay, TLAPS

(* A sender sends as many bytes both times, and so does no message of one  *)
(* sender leave anything of another of the same.                           *)
OwnLength(m) == m.len = length[m.from]
LengthInv ==
    /\ \A d \in net \cap ToRelay : OwnLength(d.msg)
    /\ \A r \in Relay : buffer[r].head # NoMsg => OwnLength(buffer[r].head)

(* A turn is of the one whose message is first in the buffer, and only the *)
(* second place can be taken by another, whose message may be the shorter. *)
OwnersTail(text, owner) ==
    text.tail # NoMsg => text.tail.from = owner /\ text.head.from # owner
Turn(r) ==
    /\ lsn[r] # "first" => client[r] \in Sender /\ buffer[r].head \in Msg
    /\ lsn[r] \in {"echoFirst", "second"} =>
         buffer[r].tail = NoMsg /\ buffer[r].head.from = client[r]
    /\ lsn[r] = "echoSecond" => OwnersTail(buffer[r], client[r])
TurnInv == \A r \in Relay : Turn(r)

IInv == TypeOK /\ LengthInv /\ TurnInv /\ TailIsTheOwners

-----------------------------------------------------------------------------
(* A datagram is for a sender or for a relay.                              *)
LEMMA Addressed ==
    ASSUME NEW d \in ToRelay \cup ToSender
    PROVE  /\ d.to \in Relay => d \in ToRelay /\ d \notin ToSender /\ d.msg \in Msg
           /\ d.to \in Sender => d \in ToSender /\ d \notin ToRelay /\ d.text \in Text
  BY SenderAssumption DEF ToRelay, ToSender

LEMMA InitIInv == Init => IInv
  <1> SUFFICES ASSUME Init PROVE IInv
    OBVIOUS
  <1>1. Zeros \in Text /\ Zeros.head = NoMsg
    BY DEF Zeros, Text
  <1>2. TypeOK
    BY <1>1 DEF Init, TypeOK, SndPhase, LsnPhase
  <1>3. LengthInv /\ TailIsTheOwners
    BY <1>1 DEF Init, LengthInv, TailIsTheOwners
  <1>4. TurnInv
    BY DEF Init, TurnInv, Turn
  <1> QED BY <1>2, <1>3, <1>4 DEF IInv

-----------------------------------------------------------------------------
(* The senders: a message more for each relay, or an answer taken.         *)
LEMMA BroadcastStep ==
    ASSUME IInv, NEW s \in Sender, NEW n \in {1, 2}, Broadcast(s, n, length[s]),
           snd' \in [Sender -> SndPhase], UNCHANGED <<port, length, answer, relayVars, lost>>
    PROVE  IInv'
  <1> DEFINE m == [from |-> s, n |-> n, len |-> length[s]]
  <1>1. m \in Msg /\ OwnLength(m)
    BY DEF IInv, TypeOK, Msg, OwnLength
  <1> HIDE DEF m
  <1>2. net' = net \cup {[to |-> r, msg |-> m] : r \in Relay}
    BY DEF Broadcast, m
  <1>3. \A r \in Relay : [to |-> r, msg |-> m] \in ToRelay /\ [to |-> r, msg |-> m] \notin ToSender
    BY <1>1, SenderAssumption DEF ToRelay, ToSender
  <1>4. \A d \in net' \ net : d \in ToRelay /\ d \notin ToSender /\ d.msg = m
    BY <1>2, <1>3
  <1>5. UNCHANGED <<port, length, answer, lsn, buffer, client, lost>>
    BY DEF relayVars
  <1>6. TypeOK'
    BY <1>4, <1>5 DEF IInv, TypeOK
  <1>7. LengthInv'
    BY <1>1, <1>4, <1>5 DEF IInv, LengthInv, OwnLength
  <1>8. TurnInv'
    BY <1>5 DEF IInv, TurnInv, Turn
  <1>9. TailIsTheOwners'
    BY <1>4 DEF IInv, TailIsTheOwners
  <1> QED BY <1>6, <1>7, <1>8, <1>9 DEF IInv

(* Less on the way, and the relays as they were.                           *)
LEMMA FewerStep ==
    ASSUME IInv, net' \subseteq net, UNCHANGED <<port, length, relayVars>>,
           snd' \in [Sender -> SndPhase], answer' \in [Sender -> Text], lost' \in BOOLEAN
    PROVE  IInv'
  <1>1. UNCHANGED <<port, length, lsn, buffer, client>>
    BY DEF relayVars
  <1>2. TypeOK'
    BY <1>1 DEF IInv, TypeOK
  <1>3. LengthInv' /\ TurnInv'
    BY <1>1 DEF IInv, LengthInv, OwnLength, TurnInv, Turn
  <1>4. TailIsTheOwners'
    BY DEF IInv, TailIsTheOwners
  <1> QED BY <1>2, <1>3, <1>4 DEF IInv

LEMMA Senders == ASSUME IInv, NEW s \in Sender PROVE
    /\ SendString(s) => IInv'
    /\ SenderStep(s) => IInv'
    /\ GiveUp(s) => IInv'
  <1>0. /\ snd \in [Sender -> SndPhase] /\ answer \in [Sender -> Text] /\ lost \in BOOLEAN
        /\ net \subseteq ToRelay \cup ToSender
    BY DEF IInv, TypeOK
  <1>1. \A phase \in SndPhase : SndGoto(s, phase) => snd' \in [Sender -> SndPhase]
    BY <1>0 DEF SndGoto
  <1>2. ASSUME SendString(s) PROVE IInv'
    <2>1. Broadcast(s, 1, length[s]) /\ snd' \in [Sender -> SndPhase]
          /\ UNCHANGED <<port, length, answer, relayVars, lost>>
      BY <1>1, <1>2 DEF SendString, SndPhase
    <2> QED BY <2>1, BroadcastStep
  <1>3. ASSUME SendDos(s) PROVE IInv'
    <2>1. Broadcast(s, 2, length[s]) /\ snd' \in [Sender -> SndPhase]
          /\ UNCHANGED <<port, length, answer, relayVars, lost>>
      BY <1>1, <1>3 DEF SendDos, SndPhase
    <2> QED BY <2>1, BroadcastStep
  <1>4. ASSUME ReadEcho(s) PROVE net' \subseteq net /\ answer' \in [Sender -> Text]
    <2>1. PICK d \in net : /\ d.to = s /\ net' = net \ {d}
                           /\ answer' = [answer EXCEPT ![s] = d.text]
      BY <1>4 DEF ReadEcho
    <2>2. d.text \in Text
      BY <1>0, <2>1, Addressed
    <2> QED BY <1>0, <2>1, <2>2
  <1>5. ASSUME ReadAnswer(s) \/ ReadLast(s) PROVE IInv'
    <2>1. /\ ReadEcho(s) /\ snd' \in [Sender -> SndPhase]
          /\ UNCHANGED <<port, length, relayVars, lost>>
      BY <1>1, <1>5 DEF ReadAnswer, ReadLast, SndPhase, Over
    <2> QED BY <1>0, <1>4, <2>1, FewerStep
  <1>6. ASSUME GiveUp(s) PROVE IInv'
    <2>1. /\ snd' \in [Sender -> SndPhase]
          /\ UNCHANGED <<port, length, answer, relayVars, net, lost>>
      BY <1>1, <1>6 DEF GiveUp, SndPhase, Over, netVars
    <2> QED BY <1>0, <2>1, FewerStep
  <1> QED BY <1>2, <1>3, <1>5, <1>6 DEF SenderStep

-----------------------------------------------------------------------------
(* The relays: a message heard, into the buffer of the turn.               *)
LEMMA HeardText ==
    ASSUME NEW old \in Text, NEW m \in Msg
    PROVE  /\ Over255(old, m) \in Text /\ Over255(old, m).head = m
           /\ Over255(old, m).tail # NoMsg =>
                Over255(old, m).tail = old.head /\ old.head # NoMsg /\ m.len < old.head.len
  BY DEF Over255, Text

LEMMA HeardStep ==
    ASSUME IInv, NEW r \in Relay, NEW d \in net, d.to = r, net' = net \ {d},
           NEW old \in Text, buffer' = [buffer EXCEPT ![r] = Over255(old, d.msg)],
           client' \in [Relay -> Sender \cup {NoSender}],
           lsn' \in [Relay -> LsnPhase],
           \A q \in Relay \ {r} : lsn'[q] = lsn[q] /\ client'[q] = client[q],
           Turn(r)', UNCHANGED <<senderVars, lost>>
    PROVE  IInv'
  <1>1. /\ UNCHANGED <<snd, port, length, answer, lost>>
        /\ net \subseteq ToRelay \cup ToSender /\ buffer \in [Relay -> Text]
    BY DEF senderVars, IInv, TypeOK
  <1>2. d \in ToRelay /\ d.msg \in Msg
    BY <1>1, Addressed
  <1>3. /\ buffer' \in [Relay -> Text] /\ buffer'[r].head = d.msg
        /\ \A q \in Relay \ {r} : buffer'[q] = buffer[q]
    BY <1>1, <1>2, HeardText
  <1>4. TypeOK'
    BY <1>1, <1>3 DEF IInv, TypeOK
  <1>5. LengthInv'
    BY <1>1, <1>2, <1>3 DEF IInv, LengthInv, OwnLength
  <1>6. TurnInv'
    BY <1>3 DEF IInv, TurnInv, Turn
  <1>7. TailIsTheOwners'
    BY DEF IInv, TailIsTheOwners
  <1> QED BY <1>4, <1>5, <1>6, <1>7 DEF IInv

LEMMA HearFirstStep == ASSUME IInv, NEW r \in Relay, HearFirst(r) PROVE IInv'
  <1>1. PICK d \in net :
          /\ d.to = r /\ net' = net \ {d}
          /\ buffer' = [buffer EXCEPT ![r] = Over255(Zeros, d.msg)]
          /\ client' = [client EXCEPT ![r] = d.msg.from]
    BY DEF HearFirst
  <1>2. /\ lsn \in [Relay -> LsnPhase] /\ buffer \in [Relay -> Text]
        /\ client \in [Relay -> Sender \cup {NoSender}]
        /\ net \subseteq ToRelay \cup ToSender
    BY DEF IInv, TypeOK
  <1>3. Zeros \in Text /\ Zeros.head = NoMsg
    BY DEF Zeros, Text
  <1>4. d.msg \in Msg /\ d.msg.from \in Sender
    BY <1>1, <1>2, Addressed DEF Msg
  <1>5. /\ lsn' = [lsn EXCEPT ![r] = "echoFirst"] /\ lsn' \in [Relay -> LsnPhase]
        /\ UNCHANGED <<senderVars, lost>>
    BY <1>2 DEF HearFirst, LsnGoto, LsnPhase
  <1>6. client' \in [Relay -> Sender \cup {NoSender}] /\ client'[r] = d.msg.from
    BY <1>1, <1>2, <1>4
  <1>7. buffer'[r].head = d.msg /\ buffer'[r].tail = NoMsg
    BY <1>1, <1>2, <1>3, <1>4, HeardText
  <1>8. Turn(r)'
    BY <1>2, <1>4, <1>5, <1>6, <1>7 DEF Turn
  <1>9. \A q \in Relay \ {r} : lsn'[q] = lsn[q] /\ client'[q] = client[q]
    BY <1>1, <1>2, <1>5
  <1> QED BY <1>1, <1>3, <1>5, <1>6, <1>8, <1>9, HeardStep

(* The second message: the tail of the owner's is left under another's.    *)
LEMMA HearSecondStep == ASSUME IInv, NEW r \in Relay, HearSecond(r) PROVE IInv'
  <1>1. PICK d \in net :
          /\ d.to = r /\ net' = net \ {d}
          /\ buffer' = [buffer EXCEPT ![r] = Over255(buffer[r], d.msg)]
    BY DEF HearSecond
  <1>2. /\ lsn \in [Relay -> LsnPhase] /\ buffer \in [Relay -> Text]
        /\ client \in [Relay -> Sender \cup {NoSender}]
        /\ net \subseteq ToRelay \cup ToSender
        /\ length \in [Sender -> Length]
    BY DEF IInv, TypeOK
  <1>3. d.msg \in Msg /\ d.msg.from \in Sender /\ OwnLength(d.msg)
    BY <1>1, <1>2, Addressed DEF IInv, LengthInv, Msg
  <1>4. /\ lsn' = [lsn EXCEPT ![r] = "echoSecond"] /\ lsn' \in [Relay -> LsnPhase]
        /\ UNCHANGED <<senderVars, client, lost>>
    BY <1>2 DEF HearSecond, LsnGoto, LsnPhase
  <1>5. /\ client[r] \in Sender /\ buffer[r].head \in Msg /\ buffer[r].head # NoMsg
        /\ buffer[r].head.from = client[r] /\ OwnLength(buffer[r].head)
    BY MsgAssumption DEF IInv, TurnInv, Turn, HearSecond, LengthInv
  <1>6. /\ buffer'[r].head = d.msg
        /\ buffer'[r].tail # NoMsg =>
             buffer'[r].tail = buffer[r].head /\ d.msg.len < buffer[r].head.len
    BY <1>1, <1>2, <1>3, HeardText
  <1>7. d.msg.from = client[r] => ~(d.msg.len < buffer[r].head.len)
    <2>1. length[client[r]] \in Nat
      BY <1>2, <1>5, LengthAssumption
    <2>2. d.msg.from = client[r] => d.msg.len = length[client[r]]
      BY <1>3 DEF OwnLength
    <2>3. buffer[r].head.len = length[client[r]]
      BY <1>5 DEF OwnLength
    <2> QED BY <2>1, <2>2, <2>3
  <1>8. OwnersTail(buffer'[r], client[r])
    BY <1>5, <1>6, <1>7 DEF OwnersTail
  <1>9. Turn(r)'
    BY <1>2, <1>3, <1>4, <1>5, <1>6, <1>8 DEF Turn
  <1>10. \A q \in Relay \ {r} : lsn'[q] = lsn[q] /\ client'[q] = client[q]
    BY <1>2, <1>4
  <1> QED BY <1>1, <1>2, <1>4, <1>9, <1>10, HeardStep

(* An echo says what the buffer holds in the owner's name.                 *)
LEMMA EchoStep == ASSUME IInv, NEW r \in Relay, EchoFirst(r) \/ EchoSecond(r) PROVE IInv'
  <1>1. /\ lsn[r] \in {"echoFirst", "echoSecond"} /\ Echo(r)
        /\ lsn' = [lsn EXCEPT ![r] = IF lsn[r] = "echoFirst" THEN "second" ELSE "first"]
        /\ UNCHANGED <<snd, port, length, answer, buffer, client, lost>>
    BY DEF EchoFirst, EchoSecond, LsnGoto, senderVars
  <1>2. lsn \in [Relay -> LsnPhase] /\ buffer[r] \in Text
    BY DEF IInv, TypeOK
  <1>3. Turn(r) /\ client[r] \in Sender /\ OwnersTail(buffer[r], client[r])
    BY <1>1 DEF IInv, TurnInv, Turn, OwnersTail
  <1>4. \A d \in net' \ net : /\ d \in ToSender /\ d \notin ToRelay
                              /\ d.owner = client[r] /\ d.text = buffer[r]
    <2> SUFFICES ASSUME NEW d \in net' \ net
                 PROVE  /\ d \in ToSender /\ d \notin ToRelay
                        /\ d.owner = client[r] /\ d.text = buffer[r]
      OBVIOUS
    <2>1. PICK s \in Sender :
            d = [to |-> s, by |-> r, owner |-> client[r], text |-> buffer[r]]
      BY <1>1 DEF Echo
    <2>2. d \in ToSender /\ d.to \in Sender
      BY <1>2, <1>3, <2>1 DEF ToSender
    <2> QED BY <2>1, <2>2, Addressed
  <1>5. TypeOK'
    <2>1. net' \subseteq ToRelay \cup ToSender
      BY <1>4 DEF IInv, TypeOK
    <2>2. lsn' \in [Relay -> LsnPhase]
      BY <1>1, <1>2 DEF LsnPhase
    <2> QED BY <1>1, <2>1, <2>2 DEF IInv, TypeOK
  <1>6. LengthInv'
    BY <1>1, <1>4 DEF IInv, LengthInv, OwnLength
  <1>7. TurnInv'
    <2> SUFFICES ASSUME NEW q \in Relay PROVE Turn(q)'
      BY DEF TurnInv
    <2>1. CASE q = r
      BY <1>1, <1>2, <1>3, <2>1 DEF Turn
    <2>2. CASE q # r
      <3>1. Turn(q) /\ lsn'[q] = lsn[q]
        BY <1>1, <1>2, <2>2 DEF IInv, TurnInv
      <3> QED BY <1>1, <3>1 DEF Turn, OwnersTail
    <2> QED BY <2>1, <2>2
  <1>8. TailIsTheOwners'
    BY <1>3, <1>4 DEF IInv, TailIsTheOwners, OwnersTail
  <1> QED BY <1>5, <1>6, <1>7, <1>8 DEF IInv

-----------------------------------------------------------------------------
LEMMA Inductive == IInv /\ [Next]_vars => IInv'
  <1> SUFFICES ASSUME IInv, [Next]_vars PROVE IInv'
    OBVIOUS
  <1>1. CASE \E s \in Sender : SendString(s) \/ SenderStep(s) \/ GiveUp(s)
    BY <1>1, Senders
  <1>2. CASE \E r \in Relay : RelayStep(r)
    BY <1>2, HearFirstStep, HearSecondStep, EchoStep DEF RelayStep
  <1>3. CASE Lose
    <2>1. net' \subseteq net /\ lost' \in BOOLEAN /\ UNCHANGED <<snd, port, length, answer, relayVars>>
      BY <1>3 DEF Lose, senderVars
    <2>2. snd' \in [Sender -> SndPhase] /\ answer' \in [Sender -> Text]
      BY <2>1 DEF IInv, TypeOK
    <2> QED BY <2>1, <2>2, FewerStep
  <1>4. CASE UNCHANGED vars
    <2>1. UNCHANGED <<snd, port, length, answer, relayVars, net, lost>>
      BY <1>4 DEF vars, senderVars, netVars
    <2>2. snd' \in [Sender -> SndPhase] /\ answer' \in [Sender -> Text] /\ lost' \in BOOLEAN
      BY <2>1 DEF IInv, TypeOK
    <2> QED BY <2>1, <2>2, FewerStep
  <1> QED BY <1>1, <1>2, <1>3, <1>4 DEF Next

LEMMA Invariant == Spec => []IInv
  <1> QED BY InitIInv, Inductive, PTL DEF Spec

-----------------------------------------------------------------------------
(* Every variable of the senders, the relays and the network keeps its     *)
(* type.                                                                   *)
THEOREM TypeCorrect == Spec => []TypeOK
  <1>1. IInv => TypeOK
    BY DEF IInv
  <1> QED BY Invariant, <1>1, PTL

(* An echo that ends in bytes of another message ends in the owner's, and  *)
(* only when somebody else took the second place of the turn               *)
(* (listen.c:49-69, sender.c:63).                                          *)
THEOREM TailsAreTheOwners == Spec => []TailIsTheOwners
  <1>1. IInv => TailIsTheOwners
    BY DEF IInv
  <1> QED BY Invariant, <1>1, PTL
=============================================================================
