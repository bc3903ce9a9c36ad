------------------------------ MODULE UdpRelay ------------------------------
(***************************************************************************)
(* UDP: sender.c broadcasts two messages and prints what comes back after  *)
(* each; listen.c echoes what it hears, two messages a turn, both to the   *)
(* port of the one that opened the turn, at the broadcast address.         *)
(*                                                                         *)
(* The network is external: datagrams arrive in any order, or not at all.  *)
(***************************************************************************)
EXTENDS Naturals

CONSTANTS
    Sender,    \* runs of sender.c, on hosts of their own
    Relay,     \* runs of listen.c, each on its host
    NoSender,  \* nobody has opened a turn yet
    Port,      \* the ports the kernel may give a sender
    Length,    \* the lengths of the strings they are given to send
    NoMsg      \* nothing

ASSUME SenderAssumption == NoSender \notin Sender /\ Sender \cap Relay = {}
ASSUME LengthAssumption == Length \subseteq Nat

\* The string of a sender, then "dos".
Msg == [from : Sender, n : {1, 2}, len : Length]
ASSUME MsgAssumption == NoMsg \notin Msg

\* What is in a buffer of 255 bytes: a message, and what is left after it of
\* the one before.
Text == [head : Msg \cup {NoMsg}, tail : Msg \cup {NoMsg}]
Zeros == [head |-> NoMsg, tail |-> NoMsg]

-----------------------------------------------------------------------------
VARIABLES
    snd,    \* what each sender does next
    port,   \* its port
    length, \* sendStringLen, of both its messages
    answer, \* its buffer
    lsn,    \* what each relay does next
    buffer, \* its buffer
    client, \* udpClient of the turn, which gives the port
    net,    \* the datagrams on their way
    lost    \* history: has one been lost?

senderVars == <<snd, port, length, answer>>
relayVars == <<lsn, buffer, client>>
netVars == <<net, lost>>
vars == <<senderVars, relayVars, netVars>>

Over == {"done", "gone"}
SndPhase == {"idle", "first", "dos", "second"} \cup Over
LsnPhase == {"first", "echoFirst", "second", "echoSecond"}

ToRelay == [to : Relay, msg : Msg]
ToSender == [to : Sender, by : Relay, owner : Sender, text : Text]

TypeOK ==
    /\ snd \in [Sender -> SndPhase] /\ port \in [Sender -> Port]
    /\ length \in [Sender -> Length] /\ answer \in [Sender -> Text]
    /\ lsn \in [Relay -> LsnPhase] /\ buffer \in [Relay -> Text]
    /\ client \in [Relay -> Sender \cup {NoSender}]
    /\ net \subseteq ToRelay \cup ToSender
    /\ lost \in BOOLEAN

Init ==
    /\ snd = [s \in Sender |-> "idle"] /\ port \in [Sender -> Port]
    /\ length \in [Sender -> Length] /\ answer = [s \in Sender |-> Zeros]
    /\ lsn = [r \in Relay |-> "first"] /\ buffer = [r \in Relay |-> Zeros]
    /\ client = [r \in Relay |-> NoSender]
    /\ net = {} /\ lost = FALSE

-----------------------------------------------------------------------------
(* The senders.                                                            *)

SndGoto(s, phase) == snd' = [snd EXCEPT ![s] = phase]

\* sendto, to a broadcast address: a copy for each relay.
Broadcast(s, n, len) ==
    net' = net \cup {[to |-> r, msg |-> [from |-> s, n |-> n, len |-> len]] : r \in Relay}

SendString(s) ==
    /\ snd[s] = "idle"
    /\ Broadcast(s, 1, length[s])
    /\ SndGoto(s, "first")
    /\ UNCHANGED <<port, length, answer, relayVars, lost>>

\* recvfrom: whatever has come to its port, from whoever.
ReadEcho(s) ==
    \E d \in net :
        /\ d.to = s
        /\ net' = net \ {d}
        /\ answer' = [answer EXCEPT ![s] = d.text]

ReadAnswer(s) ==
    /\ snd[s] = "first" /\ ReadEcho(s)
    /\ SndGoto(s, "dos")
    /\ UNCHANGED <<port, length, relayVars, lost>>

\* As many bytes as the string had, whatever "dos" has.
SendDos_WithNul(s) ==  \* variant: counts the byte that ends the string
    /\ snd[s] = "dos"
    /\ Broadcast(s, 2, length[s] + 1)
    /\ SndGoto(s, "second")
    /\ UNCHANGED <<port, length, answer, relayVars, lost>>
SendDos(s) ==
    /\ snd[s] = "dos"
    /\ Broadcast(s, 2, length[s])
    /\ SndGoto(s, "second")
    /\ UNCHANGED <<port, length, answer, relayVars, lost>>

ReadLast(s) ==
    /\ snd[s] = "second" /\ ReadEcho(s)
    /\ SndGoto(s, "done")
    /\ UNCHANGED <<port, length, relayVars, lost>>

\* Its user gives up waiting: recvfrom has no timeout.
GiveUp(s) ==
    /\ snd[s] \notin Over \cup {"idle"}
    /\ SndGoto(s, "gone")
    /\ UNCHANGED <<port, length, answer, relayVars, netVars>>

SenderStep(s) == ReadAnswer(s) \/ SendDos(s) \/ ReadLast(s)

-----------------------------------------------------------------------------
(* The relays.                                                             *)

LsnGoto(r, phase) == lsn' = [lsn EXCEPT ![r] = phase]

\* A message read over what the buffer holds.
Over255(old, m) ==
    [head |-> m, tail |-> IF old.head # NoMsg /\ m.len < old.head.len THEN old.head ELSE NoMsg]

\* bzero and recvfrom
HearFirst_NoClear(r) ==  \* variant: without the bzero
    /\ lsn[r] = "first"
    /\ \E d \in net :
          /\ d.to = r
          /\ net' = net \ {d}
          /\ buffer' = [buffer EXCEPT ![r] = Over255(@, d.msg)]
          /\ client' = [client EXCEPT ![r] = d.msg.from]
    /\ LsnGoto(r, "echoFirst")
    /\ UNCHANGED <<senderVars, lost>>
HearFirst(r) ==
    /\ lsn[r] = "first"
    /\ \E d \in net :
          /\ d.to = r
          /\ net' = net \ {d}
          /\ buffer' = [buffer EXCEPT ![r] = Over255(Zeros, d.msg)]
          /\ client' = [client EXCEPT ![r] = d.msg.from]
    /\ LsnGoto(r, "echoFirst")
    /\ UNCHANGED <<senderVars, lost>>

\* The whole buffer, to the port of the turn on every host.
Echo(r) ==
    net' = net \cup {[to |-> s, by |-> r, owner |-> client[r], text |-> buffer[r]] :
                        s \in {t \in Sender : port[t] = port[client[r]] /\ snd[t] \notin Over}}

EchoFirst(r) ==
    /\ lsn[r] = "echoFirst"
    /\ Echo(r)
    /\ LsnGoto(r, "second")
    /\ UNCHANGED <<senderVars, buffer, client, lost>>

\* recvfrom without bzero, and without a look at who it is.
HearSecond(r) ==
    /\ lsn[r] = "second"
    /\ \E d \in net :
          /\ d.to = r
          /\ net' = net \ {d}
          /\ buffer' = [buffer EXCEPT ![r] = Over255(@, d.msg)]
    /\ LsnGoto(r, "echoSecond")
    /\ UNCHANGED <<senderVars, client, lost>>

EchoSecond_Skip(r) ==  \* variant: hears it and says nothing
    /\ lsn[r] = "echoSecond"
    /\ LsnGoto(r, "first")
    /\ UNCHANGED <<senderVars, buffer, client, netVars>>
EchoSecond(r) ==
    /\ lsn[r] = "echoSecond"
    /\ Echo(r)
    /\ LsnGoto(r, "first")
    /\ UNCHANGED <<senderVars, buffer, client, lost>>

RelayStep(r) == HearFirst(r) \/ EchoFirst(r) \/ HearSecond(r) \/ EchoSecond(r)

-----------------------------------------------------------------------------
Lose ==
    /\ \E d \in net : net' = net \ {d}
    /\ lost' = TRUE
    /\ UNCHANGED <<senderVars, relayVars>>

Next ==
    \/ \E s \in Sender : SendString(s) \/ SenderStep(s) \/ GiveUp(s)
    \/ \E r \in Relay : RelayStep(r)
    \/ Lose

\* The kernel schedules every process that has something to read or to send.
Fairness ==
    /\ \A s \in Sender : WF_vars(SenderStep(s))
    /\ \A r \in Relay : WF_vars(RelayStep(r))

Spec == Init /\ [][Next]_vars
FairSpec == Spec /\ Fairness

-----------------------------------------------------------------------------
(* Properties.                                                             *)

(* The relay clears its buffer once a turn (listen.c:49) and sends all of  *)
(* it twice: an echo may end in the bytes of another message.  They are    *)
(* those of the one the turn belongs to, who gets them back, never of an   *)
(* earlier turn, and only when somebody else came second: a sender sends   *)
(* as many bytes both times (sender.c:63).                                 *)
TailIsTheOwners ==
    \A d \in net \cap ToSender :
        d.text.tail # NoMsg => d.text.tail.from = d.owner /\ d.text.head.from # d.owner

(* A sender whose string opens a turn gets its two answers if nothing is   *)
(* lost, also when the second place of its turn is taken by another        *)
(* (listen.c:65-69) or its answers are echoes of another's messages.       *)
OpenerEnds ==
    [](~lost) =>
        \A s \in Sender, r \in Relay :
            lsn[r] = "echoFirst" /\ buffer[r].head.from = s /\ buffer[r].head.n = 1
                ~> snd[s] \in Over
=============================================================================
