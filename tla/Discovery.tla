----------------------------- MODULE Discovery -----------------------------
(***************************************************************************)
(* The UDP side of PRACTICA2.  client.c broadcasts a greeting, lets a      *)
(* thread print the answers for four seconds, cancels the thread without   *)
(* joining it, sends "Connect" to the server the user has picked and takes *)
(* the next datagram for the answer.  server.c answers whatever it is sent *)
(* with the same text.                                                     *)
(*                                                                         *)
(* UDP is external: a datagram may be lost, delivered twice, or after      *)
(* later ones.                                                             *)
(***************************************************************************)
EXTENDS Naturals, Sequences

CONSTANTS
    Server,   \* the servers that hear the broadcast
    Nobody,   \* an address without a server
    MaxDups   \* bound on the datagrams delivered twice

ASSUME ServerAssumption == Nobody \notin Server
ASSUME BoundAssumption == MaxDups \in Nat

-----------------------------------------------------------------------------
(* What a datagram answers is not in it: "why" is there for the properties.*)
Why == {"hello", "connect"}
Request == [to : Server, why : Why]
Answer == [from : Server, why : Why]
Zeros == [from |-> Nobody, why |-> "hello"]   \* a buffer after bzero

VARIABLES
    greet,    \* what the sender thread does next
    rcv,      \* what the receiver thread does next
    main,     \* what the main thread does next
    cancelled,\* pthread_cancel was called and has not acted yet
    buffer,   \* the buffer of the receiver and of main
    peer,     \* udpClient, the sender of the last datagram
    ip,       \* the address the receiver prints
    inbox,    \* the datagrams in the client's socket
    chosen,   \* the address the user has typed
    wire,     \* the datagrams on their way
    srv,      \* what each server does next
    asked,    \* the request each server is answering
    dups,     \* the number of datagrams delivered twice
    got,      \* history: the datagram main has read
    heard,    \* history: the servers that have received "Connect"
    midTurn,  \* history: the receiver was not in recvfrom when cancelled
    lost      \* history: a datagram was lost

cltVars == <<greet, rcv, main, cancelled, buffer, peer, ip, chosen, got, midTurn>>
srvVars == <<srv, asked, heard>>
netVars == <<inbox, wire, dups, lost>>
vars == <<cltVars, srvVars, netVars>>

TypeOK ==
    /\ greet \in {"send", "done"} /\ rcv \in {"clear", "recv", "name", "print", "ended"}
    /\ main \in {"sleep", "choose", "clear", "await", "print", "tcp"}
    /\ cancelled \in BOOLEAN /\ midTurn \in BOOLEAN /\ lost \in BOOLEAN
    /\ buffer \in Answer \cup {Zeros} /\ got \in Answer \cup {Zeros}
    /\ {peer, ip} \subseteq Server \cup {Nobody} /\ chosen \in Server \cup {Nobody}
    /\ inbox \in Seq(Answer) /\ wire \subseteq Request \cup Answer
    /\ srv \in [Server -> {"recv", "send", "down"}] /\ asked \in [Server -> Why]
    /\ dups \in 0 .. MaxDups /\ heard \subseteq Server

Init ==
    /\ greet = "send" /\ rcv = "clear" /\ main = "sleep" /\ cancelled = FALSE
    /\ buffer = Zeros /\ peer = Nobody /\ ip = Nobody /\ chosen = Nobody
    /\ inbox = <<>> /\ wire = {} /\ dups = 0 /\ lost = FALSE
    /\ srv = [s \in Server |-> "recv"] /\ asked = [s \in Server |-> "hello"]
    /\ got = Zeros /\ heard = {} /\ midTurn = FALSE

-----------------------------------------------------------------------------
(* The client's threads.                                                   *)

\* One broadcast.
Greet ==
    /\ greet = "send"
    /\ greet' = "done"
    /\ wire' = wire \cup [to : Server, why : {"hello"}]
    /\ UNCHANGED <<rcv, main, cancelled, buffer, peer, ip, chosen, got, midTurn, srvVars, inbox, dups, lost>>

\* bzero, of the buffer that main uses too
Clear ==
    /\ rcv = "clear"
    /\ rcv' = "recv" /\ buffer' = Zeros
    /\ UNCHANGED <<greet, main, cancelled, peer, ip, chosen, got, midTurn, srvVars, netVars>>

\* recvfrom is where a thread that was cancelled ends.
Receive_Deaf ==  \* variant: the thread disables cancellation
    /\ rcv = "recv" /\ inbox # <<>>
    /\ rcv' = "name" /\ buffer' = Head(inbox) /\ peer' = Head(inbox).from
    /\ inbox' = Tail(inbox)
    /\ UNCHANGED <<greet, main, cancelled, ip, chosen, got, midTurn, srvVars, wire, dups, lost>>
Receive ==
    /\ rcv = "recv" /\ ~cancelled /\ inbox # <<>>
    /\ rcv' = "name" /\ buffer' = Head(inbox) /\ peer' = Head(inbox).from
    /\ inbox' = Tail(inbox)
    /\ UNCHANGED <<greet, main, cancelled, ip, chosen, got, midTurn, srvVars, wire, dups, lost>>

\* inet_ntop
Name_IntoBuffer ==  \* variant: writes the address over the text
    /\ rcv = "name"
    /\ rcv' = "print" /\ ip' = peer /\ buffer' = peer
    /\ UNCHANGED <<greet, main, cancelled, peer, chosen, got, midTurn, srvVars, netVars>>
Name ==
    /\ rcv = "name"
    /\ rcv' = "print" /\ ip' = peer
    /\ UNCHANGED <<greet, main, cancelled, buffer, peer, chosen, got, midTurn, srvVars, netVars>>

PrintFound ==
    /\ rcv = "print"
    /\ rcv' = "clear"
    /\ UNCHANGED <<greet, main, cancelled, buffer, peer, ip, chosen, got, midTurn, srvVars, netVars>>

\* In recvfrom, or in printf, which may be such a point too.
CancelActs ==
    /\ cancelled /\ rcv \in {"recv", "print"}
    /\ rcv' = "ended"
    /\ UNCHANGED <<greet, main, cancelled, buffer, peer, ip, chosen, got, midTurn, srvVars, netVars>>

Receiver == Clear \/ Receive \/ Name \/ PrintFound \/ CancelActs

\* The four seconds are over.  Nothing joins the thread.
Cancel_None ==  \* variant: the thread is left alone
    /\ main = "sleep"
    /\ main' = "choose" /\ midTurn' = (rcv # "recv")
    /\ UNCHANGED <<greet, rcv, cancelled, buffer, peer, ip, chosen, got, srvVars, netVars>>
Cancel ==
    /\ main = "sleep"
    /\ main' = "choose" /\ cancelled' = TRUE /\ midTurn' = (rcv # "recv")
    /\ UNCHANGED <<greet, rcv, buffer, peer, ip, chosen, got, srvVars, netVars>>

\* The user may type any address.
SendConnect_Broadcast ==  \* variant: to the address of the greeting
    /\ main = "choose"
    /\ \E s \in Server \cup {Nobody} : chosen' = s
    /\ wire' = wire \cup [to : Server, why : {"connect"}]
    /\ main' = "clear"
    /\ UNCHANGED <<greet, rcv, cancelled, buffer, peer, ip, got, midTurn, srvVars, inbox, dups, lost>>
SendConnect ==
    /\ main = "choose"
    /\ \E s \in Server \cup {Nobody} :
          /\ chosen' = s
          /\ wire' = IF s = Nobody THEN wire ELSE wire \cup {[to |-> s, why |-> "connect"]}
    /\ main' = "clear"
    /\ UNCHANGED <<greet, rcv, cancelled, buffer, peer, ip, got, midTurn, srvVars, inbox, dups, lost>>

ClearForAnswer ==
    /\ main = "clear"
    /\ main' = "await" /\ buffer' = Zeros
    /\ UNCHANGED <<greet, rcv, cancelled, peer, ip, chosen, got, midTurn, srvVars, netVars>>

AwaitAnswer ==
    /\ main = "await" /\ inbox # <<>>
    /\ main' = "print"
    /\ buffer' = Head(inbox) /\ peer' = Head(inbox).from /\ got' = Head(inbox)
    /\ inbox' = Tail(inbox)
    /\ UNCHANGED <<greet, rcv, cancelled, ip, chosen, midTurn, srvVars, wire, dups, lost>>

\* Then main connects by TCP, whatever it was answered.
PrintAnswer ==
    /\ main = "print"
    /\ main' = "tcp"
    /\ UNCHANGED <<greet, rcv, cancelled, buffer, peer, ip, chosen, got, midTurn, srvVars, netVars>>

Main == Cancel \/ ClearForAnswer \/ AwaitAnswer \/ PrintAnswer

-----------------------------------------------------------------------------
(* The servers.                                                            *)

\* Does a datagram that is delivered leave the wire?
Leaves(d) ==
    \/ wire' = wire \ {d} /\ dups' = dups
    \/ dups < MaxDups /\ dups' = dups + 1 /\ wire' = wire

Hear(s) ==
    /\ srv[s] = "recv"
    /\ \E d \in wire \cap [to : {s}, why : Why] :
          /\ asked' = [asked EXCEPT ![s] = d.why]
          /\ heard' = IF d.why = "connect" THEN heard \cup {s} ELSE heard
          /\ Leaves(d)
    /\ srv' = [srv EXCEPT ![s] = "send"]
    /\ UNCHANGED <<cltVars, inbox, lost>>

Reply(s) ==
    /\ srv[s] = "send"
    /\ wire' = wire \cup {[from |-> s, why |-> asked[s]]}
    /\ srv' = [srv EXCEPT ![s] = "recv"]
    /\ UNCHANGED <<cltVars, asked, heard, inbox, dups, lost>>

\* The process may end at any moment, as it does when its TCP client leaves.
Stop(s) ==
    /\ srv[s] # "down"
    /\ srv' = [srv EXCEPT ![s] = "down"]
    /\ UNCHANGED <<cltVars, asked, heard, netVars>>

-----------------------------------------------------------------------------
(* The network.                                                            *)

Arrive ==
    /\ \E d \in wire \cap Answer : inbox' = Append(inbox, d) /\ Leaves(d)
    /\ UNCHANGED <<cltVars, srvVars, lost>>

Lose ==
    /\ \E d \in wire : wire' = wire \ {d}
    /\ lost' = TRUE
    /\ UNCHANGED <<cltVars, srvVars, inbox, dups>>

Next ==
    \/ Greet \/ Receiver \/ Main \/ SendConnect \/ Arrive \/ Lose
    \/ \E s \in Server : Hear(s) \/ Reply(s) \/ Stop(s)

\* Every thread and server is scheduled and the network carries what it does
\* not lose.  The user may never choose.
Fairness ==
    /\ WF_vars(Greet) /\ WF_vars(Receiver) /\ WF_vars(Main) /\ WF_vars(Arrive)
    /\ \A s \in Server : WF_vars(Hear(s)) /\ WF_vars(Reply(s))

Spec == Init /\ [][Next]_vars
FairSpec == Spec /\ Fairness

-----------------------------------------------------------------------------
(* Properties.                                                             *)

(* What main reads for an answer either was sent to Connect by the server  *)
(* the user has chosen, which has heard it, or is late, an answer to the   *)
(* broadcast (client.c:167-171, server.c:402-409).                         *)
HeardUnlessLate ==
    main \in {"print", "tcp"} =>
        \/ got.why = "hello"
        \/ got.from = chosen /\ chosen \in heard

(* The threads share the buffer and are not synchronised                   *)
(* (client.c:69-77, 146, 170-172).  If the receiver was waiting when it    *)
(* was cancelled, main prints what it has read, and the receiver prints    *)
(* each text beside the address of the server that sent it.                *)
OwnBuffer ==
    ~midTurn =>
        /\ main = "print" => buffer = got
        /\ rcv = "print" => ip = buffer.from

(* The receiver never takes the answer that main waits for                 *)
(* (client.c:146: cancelled before Connect is sent, although nothing joins *)
(* it).                                                                    *)
AnswerLeftForMain ==
    [][inbox # <<>> /\ inbox' = Tail(inbox) /\ Head(inbox).why = "connect"
       => main = "await"]_vars

(* When no datagram is lost and the chosen server stays up, main gets an   *)
(* answer and goes on to TCP (client.c:171 has no timeout).                *)
ConnectAnswered ==
    [](~lost /\ (chosen = Nobody \/ srv[chosen] # "down")) =>
        (main = "await" /\ chosen # Nobody ~> main = "tcp")

=============================================================================
