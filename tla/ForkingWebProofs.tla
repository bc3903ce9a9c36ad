-------------------------- MODULE ForkingWebProofs --------------------------
(***************************************************************************)
(* Proofs about ForkingWeb, for any process table, browsers, files and     *)
(* number of descriptors.                                                  *)
(***************************************************************************)
EXTENDS ForkingWeb, FiniteSetTheorems, SequenceTheorems, TLAPS

Serving == {"read", "open", "send", "close"}
AtConn == {"fork", "parent"} \cup Serving

Types ==
    /\ proc \in [Proc -> Phase] /\ sock \in [Proc -> Conn \cup {NoConn}]
    /\ holds \in [Proc -> SUBSET Conn]
    /\ leaked \in [Proc -> Nat]
    /\ line \in [Proc -> Request \cup {Nothing}]
    /\ todo \in [Proc -> Seq(Unit)] /\ got \in [Conn -> Seq(Unit)]
    /\ cli \in [Conn -> {"idle", "open", "done", "left"}]
    /\ req \in [Conn -> Request \cup {Nothing}]
    /\ accepted \in [Conn -> BOOLEAN]

FdInv == \A p \in Proc : Used(p) <= MaxFds

(* A process has the connection it is at open, and no other.               *)
HoldInv ==
    \A p \in Proc :
        /\ proc[p] \in AtConn /\ sock[p] # NoConn => sock[p] \in holds[p]
        /\ \A c \in holds[p] : sock[p] = c /\ proc[p] \in AtConn /\ accepted[c]

(* Of two processes that have the same connection open, one is the parent  *)
(* and the other its child: a connection is never shared before fork.      *)
ShareInv ==
    \A p, q \in Proc : \A c \in holds[p] \cap holds[q] :
        p # q => \/ proc[p] = "parent" /\ proc[q] \in Serving
                 \/ proc[q] = "parent" /\ proc[p] \in Serving

(* With s still to come, what the browser has is one answer.               *)
Answering(c, s) ==
    \/ got[c] \o s = NotFound
    \/ \E n \in Name : req[c] \in {n, Garbled} /\ got[c] \o s = Found(n)

(* What a serving process knows of a browser that has not left.            *)
ServeOK(p, c) ==
    /\ proc[p] \in {"fork", "read", "open"} => got[c] = <<>>
    /\ cli[c] # "left" =>
         /\ proc[p] = "open" => line[p] = req[c] /\ req[c] # Nothing
         /\ proc[p] = "send" => Answering(c, todo[p])
         /\ proc[p] = "close" => Answering(c, <<>>)
ServeInv == \A p \in Proc : \A c \in holds[p] : ServeOK(p, c)

(* What is left when nobody serves a connection any more.                  *)
Unserved(c) == \A p \in Proc : c \in holds[p] => proc[p] = "parent"
EndOK(c) ==
    /\ ~accepted[c] => got[c] = <<>>
    /\ cli[c] = "done" => Closed(c)
    /\ accepted[c] /\ Unserved(c) /\ cli[c] # "left" =>
         \/ Answering(c, <<>>)
         \/ req[c] = Garbled
         \/ got[c] = <<>> /\ TableFull
EndInv == \A c \in Conn : EndOK(c)

IInv == /\ Types /\ FdInv /\ HoldInv /\ ShareInv /\ RootStaysFree
        /\ ServeInv /\ OneAnswer /\ EndInv

-----------------------------------------------------------------------------
(* Facts about the operators.                                              *)

(* The child of a fork takes a free place, which is not its parent's.      *)
LEMMA ChildIsFree ==
    ASSUME ~TableFull
    PROVE  Child \in Proc /\ proc[Child] = "free"
BY DEF TableFull, Child

(* The effect of fork, with the child named.                               *)
LEMMA ForkEffect ==
    ASSUME NEW p \in Proc, Fork(p)
    PROVE  \E q \in Proc :
              /\ q # p /\ proc[p] = "fork" /\ proc[q] = "free"
              /\ proc' = [proc EXCEPT ![p] = "parent", ![q] = "read"]
              /\ sock' = [sock EXCEPT ![q] = sock[p]]
              /\ holds' = [holds EXCEPT ![q] = holds[p]]
              /\ leaked' = [leaked EXCEPT ![q] = leaked[p]]
              /\ UNCHANGED <<line, todo, cli, req, accepted, got>>
<1>1. Child \in Proc /\ proc[Child] = "free"
  BY ChildIsFree DEF Fork
<1>2. Child # p
  BY <1>1 DEF Fork
<1> QED
  BY <1>1, <1>2 DEF Fork, connVars

(* Both answers are sequences.                                             *)
LEMMA AnswerType ==
    /\ NotFound \in Seq(Unit)
    /\ \A n \in Name : Found(n) \in Seq(Unit)
<1>1. <<"404", "html">> \in Seq(Unit) /\ <<"200">> \in Seq(Unit)
  <2>1. "404" \in Unit /\ "html" \in Unit /\ "200" \in Unit
    BY DEF Unit
  <2> QED
    BY <2>1
<1>2. ASSUME NEW n \in Name PROVE <<"200">> \o Content[n] \in Seq(Unit)
  <2>1. Content[n] \in Seq(Unit)
    BY ContentAssumption, SeqMonotonic, Page \subseteq Unit DEF Unit
  <2> QED
    BY <1>1, <2>1, ConcatProperties
<1> QED
  BY <1>1, <1>2 DEF NotFound, Found

(* Moving a unit from what is to come to what has come.                    *)
LEMMA MoveUnit ==
    ASSUME NEW s \in Seq(Unit), NEW t \in Seq(Unit), t # <<>>
    PROVE  /\ Append(s, Head(t)) \in Seq(Unit)
           /\ Tail(t) \in Seq(Unit)
           /\ Append(s, Head(t)) \o Tail(t) = s \o t
<1>1. Head(t) \in Unit /\ Tail(t) \in Seq(Unit)
  BY HeadTailProperties
<1>2. Append(s, Head(t)) \in Seq(Unit) /\ Append(s, Head(t)) = s \o <<Head(t)>>
  BY <1>1, AppendProperties, AppendIsConcat
<1>3. t = <<Head(t)>> \o Tail(t)
  BY <1>1
<1>4. (s \o <<Head(t)>>) \o Tail(t) = s \o (<<Head(t)>> \o Tail(t))
  BY <1>1, ConcatAssociative, <<Head(t)>> \in Seq(Unit)
<1> QED
  BY <1>1, <1>2, <1>3, <1>4

(* What can be completed to a sequence is a prefix of it.                  *)
LEMMA PrefixOfConcat ==
    ASSUME NEW s \in Seq(Unit), NEW t \in Seq(Unit)
    PROVE  IsPrefix(s, s \o t)
<1>1. Len(s) <= Len(s \o t)
  OBVIOUS
<1>2. SubSeq(s, 1, Len(s)) = s /\ SubSeq(s \o t, 1, Len(s)) = s
  BY SubSeqFull, SubSeqOfConcat1
<1> QED
  BY <1>1, <1>2 DEF IsPrefix

-----------------------------------------------------------------------------
(* The initial state.                                                      *)

LEMMA InitIInv == Init => IInv
<1> SUFFICES ASSUME Init PROVE IInv
  OBVIOUS
<1> USE DEF Init
<1>1. Types
  BY RootAssumption, AnswerType DEF Types, Phase, Request
<1>2. FdInv
  BY FS_EmptySet, BoundAssumption DEF FdInv, Used
<1>3. HoldInv /\ ShareInv /\ ServeInv
  BY DEF HoldInv, ShareInv, ServeInv, AtConn, Serving
<1>4. RootStaysFree
  BY RootAssumption DEF RootStaysFree
<1>5. OneAnswer
  <2>1. IsPrefix(<<>>, NotFound)
    <3>1. <<>> \o NotFound = NotFound
      BY AnswerType, ConcatEmptySeq
    <3> QED
      BY <3>1, AnswerType, PrefixOfConcat, <<>> \in Seq(Unit)
  <2> QED
    BY <2>1 DEF OneAnswer
<1>6. EndInv
  BY DEF EndInv, EndOK
<1> QED
  BY <1>1, <1>2, <1>3, <1>4, <1>5, <1>6 DEF IInv

-----------------------------------------------------------------------------
(* Every step preserves each part of the invariant.                        *)

LEMMA TypesStep == Types /\ [Next]_vars => Types'
<1> SUFFICES ASSUME Types, [Next]_vars PROVE Types'
  OBVIOUS
<1> USE DEF Types, Phase
<1>1. ASSUME NEW p \in Proc, Step(p) PROVE Types'
  <2>1. CASE Accept(p)
    BY <2>1 DEF Accept, Goto
  <2>2. CASE AcceptFails(p)
    BY <2>2 DEF AcceptFails, Goto
  <2>3. CASE Fork(p)
    <3>1. PICK q \in Proc :
              /\ q # p /\ proc[p] = "fork" /\ proc[q] = "free"
              /\ proc' = [proc EXCEPT ![p] = "parent", ![q] = "read"]
              /\ sock' = [sock EXCEPT ![q] = sock[p]]
              /\ holds' = [holds EXCEPT ![q] = holds[p]]
              /\ leaked' = [leaked EXCEPT ![q] = leaked[p]]
              /\ UNCHANGED <<line, todo, cli, req, accepted, got>>
      BY <2>3, ForkEffect
    <3> QED
      BY <3>1
  <2>4. CASE ForkFails(p) \/ ParentCloses(p) \/ ChildCloses(p)
    BY <2>4, ZenonT(60) DEF ForkFails, ParentCloses, ChildCloses, CloseSocket, Goto, connVars
  <2>5. CASE ReadRequest(p)
    BY <2>5 DEF ReadRequest, ReadLine, Request, Goto, connVars
  <2>6. CASE OpenFile(p)
    <3>1. PICK n : IF n \in Name /\ Used(p) < MaxFds
                  THEN /\ leaked' = [leaked EXCEPT ![p] = @ + 1]
                       /\ todo' = [todo EXCEPT ![p] = Found(n)]
                  ELSE /\ leaked' = leaked
                       /\ todo' = [todo EXCEPT ![p] = NotFound]
      BY <2>6 DEF OpenFile
    <3>2. todo' \in [Proc -> Seq(Unit)] /\ leaked' \in [Proc -> Nat]
      <4>1. CASE n \in Name /\ Used(p) < MaxFds
        <5>1. Found(n) \in Seq(Unit)
          BY <4>1, AnswerType
        <5>2. /\ leaked' = [leaked EXCEPT ![p] = @ + 1]
              /\ todo' = [todo EXCEPT ![p] = Found(n)]
          BY <3>1, <4>1
        <5> QED
          BY <5>1, <5>2
      <4>2. CASE ~(n \in Name /\ Used(p) < MaxFds)
        BY <3>1, <4>2, AnswerType
      <4> QED
        BY <4>1, <4>2
    <3> QED
      BY <2>6, <3>2 DEF OpenFile, Goto, connVars
  <2>7. CASE Crash(p) \/ BrokenPipe(p)
    <3>1. Die(p)
      BY <2>7 DEF Crash, BrokenPipe
    <3>2. todo' \in [Proc -> Seq(Unit)]
      BY <3>1 DEF Die
    <3> QED
      BY <3>1, <3>2 DEF Die, Goto, connVars
  <2>8. CASE SendLine(p)
    <3> DEFINE c == sock[p]
    <3>1. todo[p] \in Seq(Unit) /\ todo[p] # <<>>
      BY <2>8 DEF SendLine
    <3>2. Tail(todo[p]) \in Seq(Unit)
      BY <3>1, HeadTailProperties
    <3>3. ASSUME c # NoConn PROVE Append(got[c], Head(todo[p])) \in Seq(Unit)
      BY <3>1, <3>3, MoveUnit
    <3> QED
      BY <2>8, <3>2, <3>3 DEF SendLine
  <2>9. CASE AnswerSent(p)
    BY <2>9 DEF AnswerSent, Goto, connVars
  <2> QED
    BY <1>1, <2>1, <2>2, <2>3, <2>4, <2>5, <2>6, <2>7, <2>8, <2>9 DEF Step
<1>2. ASSUME NEW c \in Conn, Connect(c) \/ Ask(c) \/ Leave(c) \/ SeeEnd(c) PROVE Types'
  BY <1>2, ZenonT(60) DEF Connect, Ask, Leave, SeeEnd, procVars
<1>3. CASE UNCHANGED vars
  BY <1>3 DEF vars
<1> QED
  BY <1>1, <1>2, <1>3 DEF Next

(* A process never has more than the connection it is at.                  *)
LEMMA HoldsAtMostOne ==
    ASSUME HoldInv, Types, NEW p \in Proc
    PROVE  /\ \/ holds[p] = {} /\ Cardinality(holds[p]) = 0
              \/ holds[p] = {sock[p]} /\ Cardinality(holds[p]) = 1
           /\ proc[p] \notin AtConn => holds[p] = {}
<1>1. holds[p] \subseteq {sock[p]}
  BY DEF HoldInv
<1>2. Cardinality({}) = 0 /\ Cardinality({sock[p]}) = 1
  BY FS_EmptySet, FS_Singleton
<1> QED
  BY <1>1, <1>2 DEF HoldInv

LEMMA FdStep == Types /\ HoldInv /\ FdInv /\ [Next]_vars => FdInv'
<1> SUFFICES ASSUME Types, HoldInv, FdInv, [Next]_vars, NEW q \in Proc
             PROVE  Used(q)' <= MaxFds
  BY DEF FdInv
<1>0. /\ Used(q) <= MaxFds /\ leaked[q] \in Nat /\ MaxFds \in Nat
      /\ holds \in [Proc -> SUBSET Conn] /\ leaked \in [Proc -> Nat]
  BY BoundAssumption DEF FdInv, Types
<1>a. ASSUME holds'[q] = holds[q], leaked'[q] = leaked[q] PROVE Used(q)' <= MaxFds
  BY <1>0, <1>a DEF Used
<1>b. ASSUME holds'[q] = {}, leaked'[q] \in 0 .. leaked[q] PROVE Used(q)' <= MaxFds
  <2>1. Cardinality(holds'[q]) = 0 /\ Cardinality(holds[q]) \in Nat
    BY <1>b, FS_EmptySet, HoldsAtMostOne
  <2> QED
    BY <1>0, <1>b, <2>1 DEF Used
<1>1. ASSUME NEW p \in Proc, Step(p) PROVE Used(q)' <= MaxFds
  <2>1. CASE Accept(p)
    <3>1. CASE q = p
      <4>1. holds[p] = {} /\ Cardinality(holds[p]) = 0
        BY <2>1, HoldsAtMostOne, FS_EmptySet DEF Accept, AtConn, Serving
      <4>2. PICK c \in Conn : holds' = [holds EXCEPT ![p] = @ \cup {c}]
        BY <2>1 DEF Accept
      <4>3. holds'[q] = {c}
        BY <1>0, <3>1, <4>1, <4>2
      <4>4. Cardinality(holds'[q]) = 1
        BY <4>3, FS_Singleton
      <4>5. Used(p) < MaxFds /\ leaked' = leaked
        BY <2>1 DEF Accept
      <4> QED
        BY <1>0, <3>1, <4>1, <4>4, <4>5 DEF Used
    <3>2. CASE q # p
      BY <1>0, <1>a, <2>1, <3>2 DEF Accept
    <3> QED
      BY <3>1, <3>2
  <2>2. CASE AcceptFails(p)
    BY <2>2, <1>a DEF AcceptFails
  <2>3. CASE Fork(p)
    <3>1. PICK r \in Proc : /\ holds' = [holds EXCEPT ![r] = holds[p]]
                            /\ leaked' = [leaked EXCEPT ![r] = leaked[p]]
      BY <2>3, ForkEffect
    <3>2. CASE q = r
      <4>1. holds'[q] = holds[p] /\ leaked'[q] = leaked[p]
        BY <1>0, <3>1, <3>2
      <4>2. Used(p) <= MaxFds
        BY DEF FdInv
      <4> QED
        BY <4>1, <4>2 DEF Used
    <3>3. CASE q # r
      BY <1>0, <1>a, <3>1, <3>3
    <3> QED
      BY <3>2, <3>3
  <2>4. CASE ForkFails(p) \/ ParentCloses(p) \/ ChildCloses(p)
    <3>1. holds' = [holds EXCEPT ![p] = @ \ {sock[p]}] /\ leaked' = leaked
      BY <2>4 DEF ForkFails, ParentCloses, ChildCloses, CloseSocket
    <3>2. CASE q = p
      <4>1. holds'[q] = {}
        BY <1>0, <3>1, <3>2, HoldsAtMostOne
      <4> QED
        BY <1>0, <1>b, <3>1, <4>1
    <3>3. CASE q # p
      BY <1>0, <1>a, <3>1, <3>3
    <3> QED
      BY <3>2, <3>3
  <2>5. CASE ReadRequest(p) \/ SendLine(p) \/ AnswerSent(p)
    BY <2>5, <1>a DEF ReadRequest, SendLine, AnswerSent
  <2>6. CASE OpenFile(p)
    <3>1. holds' = holds
      BY <2>6 DEF OpenFile
    <3>2. CASE leaked' = leaked
      BY <3>1, <3>2, <1>a
    <3>3. CASE leaked' = [leaked EXCEPT ![p] = @ + 1] /\ Used(p) < MaxFds
      <4>1. CASE q = p
        <5>1. Cardinality(holds[q]) \in Nat
          BY HoldsAtMostOne
        <5>2. leaked'[q] = leaked[q] + 1 /\ Used(q) < MaxFds
          BY <1>0, <3>3, <4>1
        <5> QED
          BY <1>0, <3>1, <5>1, <5>2 DEF Used
      <4>2. CASE q # p
        BY <1>0, <1>a, <3>1, <3>3, <4>2
      <4> QED
        BY <4>1, <4>2
    <3> QED
      BY <2>6, <3>2, <3>3 DEF OpenFile
  <2>7. CASE Crash(p) \/ BrokenPipe(p)
    <3>1. /\ holds' = [holds EXCEPT ![p] = {}]
          /\ leaked' = [leaked EXCEPT ![p] = 0]
      BY <2>7 DEF Crash, BrokenPipe, Die
    <3>2. CASE q = p
      BY <1>0, <1>b, <3>1, <3>2
    <3>3. CASE q # p
      BY <1>0, <1>a, <3>1, <3>3
    <3> QED
      BY <3>2, <3>3
  <2> QED
    BY <1>1, <2>1, <2>2, <2>3, <2>4, <2>5, <2>6, <2>7 DEF Step
<1>2. ASSUME NEW c \in Conn, Connect(c) \/ Ask(c) \/ Leave(c) \/ SeeEnd(c)
      PROVE  Used(q)' <= MaxFds
  BY <1>2, <1>a DEF Connect, Ask, Leave, SeeEnd, procVars
<1>3. CASE UNCHANGED vars
  BY <1>3, <1>a DEF vars
<1> QED
  BY <1>1, <1>2, <1>3 DEF Next

LEMMA RootStep == Types /\ RootStaysFree /\ [Next]_vars => RootStaysFree'
<1> SUFFICES ASSUME Types, RootStaysFree, [Next]_vars PROVE RootStaysFree'
  OBVIOUS
<1> USE RootAssumption DEF RootStaysFree
<1>0. proc \in [Proc -> Phase]
  BY DEF Types
<1>1. ASSUME NEW p \in Proc, Step(p) PROVE RootStaysFree'
  <2>1. CASE Fork(p)
    <3>1. PICK q \in Proc : /\ proc[q] = "free"
                            /\ proc' = [proc EXCEPT ![p] = "parent", ![q] = "read"]
      BY <2>1, ForkEffect
    <3> QED
      BY <1>0, <3>1
  <2>2. CASE ~Fork(p)
    BY <1>0, <1>1, <2>2 DEF Step, Accept, AcceptFails, ForkFails, ParentCloses,
       CloseSocket, ReadRequest, OpenFile, Crash, SendLine, AnswerSent, ChildCloses,
       BrokenPipe, Die, Goto
  <2> QED
    BY <2>1, <2>2
<1>2. ASSUME NEW c \in Conn, Connect(c) \/ Ask(c) \/ Leave(c) \/ SeeEnd(c)
      PROVE  RootStaysFree'
  BY <1>2 DEF Connect, Ask, Leave, SeeEnd, procVars
<1>3. CASE UNCHANGED vars
  BY <1>3 DEF vars
<1> QED
  BY <1>1, <1>2, <1>3 DEF Next

LEMMA HoldStep == Types /\ HoldInv /\ [Next]_vars => HoldInv'
<1> SUFFICES ASSUME Types, HoldInv, [Next]_vars PROVE HoldInv'
  OBVIOUS
<1> USE RootAssumption DEF HoldInv, AtConn, Serving
<1>0. /\ proc \in [Proc -> Phase] /\ sock \in [Proc -> Conn \cup {NoConn}]
      /\ holds \in [Proc -> SUBSET Conn] /\ accepted \in [Conn -> BOOLEAN]
  BY DEF Types
<1>1. ASSUME NEW p \in Proc, Step(p) PROVE HoldInv'
  <2>1. CASE Accept(p)
    BY <1>0, <2>1 DEF Accept, Goto
  <2>2. CASE AcceptFails(p)
    <3>1. /\ proc[p] = "accept" /\ holds' = holds
          /\ proc' = [proc EXCEPT ![p] = "fork"]
          /\ sock' = [sock EXCEPT ![p] = NoConn]
      BY <2>2 DEF AcceptFails, Goto
    <3>2. \A c \in Conn : accepted[c] => accepted'[c]
      BY <1>0, <2>2 DEF AcceptFails
    <3> QED
      BY <1>0, <3>1, <3>2
  <2>3. CASE Fork(p)
    <3>1. PICK q \in Proc :
              /\ q # p /\ proc[p] = "fork" /\ proc[q] = "free"
              /\ proc' = [proc EXCEPT ![p] = "parent", ![q] = "read"]
              /\ sock' = [sock EXCEPT ![q] = sock[p]]
              /\ holds' = [holds EXCEPT ![q] = holds[p]]
              /\ UNCHANGED accepted
      BY <2>3, ForkEffect
    <3> QED
      BY <1>0, <3>1
  <2>4. CASE ForkFails(p) \/ ParentCloses(p) \/ ChildCloses(p)
    <3>1. /\ holds' = [holds EXCEPT ![p] = @ \ {sock[p]}] /\ sock' = sock
          /\ proc' = [proc EXCEPT ![p] = "accept"] /\ accepted' = accepted
      BY <2>4 DEF ForkFails, ParentCloses, ChildCloses, CloseSocket, Goto, connVars
    <3> QED
      BY <1>0, <3>1
  <2>5. CASE ReadRequest(p) \/ OpenFile(p) \/ AnswerSent(p)
    <3>1. /\ proc[p] \in Serving /\ UNCHANGED <<holds, sock, accepted>>
          /\ \E phase \in Serving : proc' = [proc EXCEPT ![p] = phase]
      BY <2>5 DEF ReadRequest, OpenFile, AnswerSent, Goto, connVars
    <3> QED
      BY <1>0, <3>1
  <2>6. CASE SendLine(p)
    BY <2>6 DEF SendLine
  <2>7. CASE Crash(p) \/ BrokenPipe(p)
    <3>1. /\ holds' = [holds EXCEPT ![p] = {}] /\ UNCHANGED <<sock, accepted>>
          /\ proc' = [proc EXCEPT ![p] = "dead"]
      BY <2>7 DEF Crash, BrokenPipe, Die, Goto, connVars
    <3> QED
      BY <1>0, <3>1
  <2> QED
    BY <1>1, <2>1, <2>2, <2>3, <2>4, <2>5, <2>6, <2>7 DEF Step
<1>2. ASSUME NEW c \in Conn, Connect(c) \/ Ask(c) \/ Leave(c) \/ SeeEnd(c) PROVE HoldInv'
  BY <1>2 DEF Connect, Ask, Leave, SeeEnd, procVars
<1>3. CASE UNCHANGED vars
  BY <1>3 DEF vars
<1> QED
  BY <1>1, <1>2, <1>3 DEF Next

LEMMA ShareStep == Types /\ HoldInv /\ ShareInv /\ [Next]_vars => ShareInv'
<1> SUFFICES ASSUME Types, HoldInv, ShareInv, [Next]_vars PROVE ShareInv'
  OBVIOUS
<1> USE DEF ShareInv, Serving
<1>0. proc \in [Proc -> Phase] /\ holds \in [Proc -> SUBSET Conn]
  BY DEF Types
<1>1. ASSUME NEW p \in Proc, Step(p) PROVE ShareInv'
  <2>1. CASE Accept(p)
    <3>1. PICK c \in Conn : ~accepted[c] /\ holds' = [holds EXCEPT ![p] = @ \cup {c}]
      BY <2>1 DEF Accept, Queued
    <3>2. \A q \in Proc : c \notin holds[q]
      BY <3>1 DEF HoldInv
    <3>3. holds[p] = {} /\ proc' = [proc EXCEPT ![p] = "fork"]
      BY <2>1 DEF Accept, Goto, HoldInv, AtConn
    <3> QED
      BY <1>0, <3>1, <3>2, <3>3
  <2>2. CASE AcceptFails(p)
    <3>1. holds[p] = {} /\ proc' = [proc EXCEPT ![p] = "fork"] /\ holds' = holds
      BY <2>2 DEF AcceptFails, Goto, HoldInv, AtConn
    <3> QED
      BY <1>0, <3>1
  <2>3. CASE Fork(p)
    <3>1. PICK q \in Proc :
              /\ q # p /\ proc[p] = "fork" /\ proc[q] = "free"
              /\ proc' = [proc EXCEPT ![p] = "parent", ![q] = "read"]
              /\ holds' = [holds EXCEPT ![q] = holds[p]]
      BY <2>3, ForkEffect
    <3>2. \A r \in Proc : r # p => holds[r] \cap holds[p] = {}
      BY <3>1
    <3> QED
      BY <1>0, <3>1, <3>2
  <2>4. CASE ForkFails(p) \/ ParentCloses(p) \/ ChildCloses(p) \/ Crash(p) \/ BrokenPipe(p)
    <3>1. /\ holds' = [holds EXCEPT ![p] = {}]
          /\ \E phase : proc' = [proc EXCEPT ![p] = phase]
      <4>1. holds[p] \ {sock[p]} = {}
        BY DEF HoldInv
      <4> QED
        BY <2>4, <4>1 DEF ForkFails, ParentCloses, ChildCloses, CloseSocket,
           Crash, BrokenPipe, Die, Goto
    <3> QED
      BY <1>0, <3>1
  <2>5. CASE ReadRequest(p) \/ OpenFile(p) \/ AnswerSent(p) \/ SendLine(p)
    <3>1. /\ proc[p] \in Serving /\ holds' = holds
          /\ \E phase \in Serving : proc' = [proc EXCEPT ![p] = phase]
      BY <1>0, <2>5 DEF ReadRequest, OpenFile, AnswerSent, SendLine, Goto
    <3> QED
      BY <1>0, <3>1
  <2> QED
    BY <1>1, <2>1, <2>2, <2>3, <2>4, <2>5 DEF Step
<1>2. ASSUME NEW c \in Conn, Connect(c) \/ Ask(c) \/ Leave(c) \/ SeeEnd(c) PROVE ShareInv'
  BY <1>2 DEF Connect, Ask, Leave, SeeEnd, procVars
<1>3. CASE UNCHANGED vars
  BY <1>3 DEF vars
<1> QED
  BY <1>1, <1>2, <1>3 DEF Next

(* A unit sent to a browser that is there, and to no other.                *)
LEMMA SendEffect ==
    ASSUME Types, NEW p \in Proc, SendLine(p)
    PROVE  /\ \A c \in Conn : c # sock[p] \/ cli[c] = "left" => got'[c] = got[c]
           /\ sock[p] \in Conn /\ cli[sock[p]] # "left" =>
                /\ got'[sock[p]] \in Seq(Unit) /\ todo'[p] \in Seq(Unit)
                /\ got'[sock[p]] \o todo'[p] = got[sock[p]] \o todo[p]
<1>1. /\ got \in [Conn -> Seq(Unit)] /\ todo \in [Proc -> Seq(Unit)]
      /\ todo[p] # <<>> /\ todo'[p] = Tail(todo[p])
  BY DEF Types, SendLine
<1>2. \A c \in Conn : c # sock[p] \/ cli[c] = "left" => got'[c] = got[c]
  BY <1>1 DEF SendLine
<1>3. ASSUME sock[p] \in Conn, cli[sock[p]] # "left"
      PROVE  /\ got'[sock[p]] \in Seq(Unit) /\ todo'[p] \in Seq(Unit)
             /\ got'[sock[p]] \o todo'[p] = got[sock[p]] \o todo[p]
  <2>1. got'[sock[p]] = Append(got[sock[p]], Head(todo[p]))
    BY <1>1, <1>3, RootAssumption DEF SendLine
  <2>2. got[sock[p]] \in Seq(Unit) /\ todo[p] \in Seq(Unit)
    BY <1>1, <1>3
  <2> QED
    BY <1>1, <2>1, <2>2, MoveUnit
<1> QED
  BY <1>2, <1>3

(* What open leaves to send answers the line that was read.                *)
LEMMA OpenEffect ==
    ASSUME Types, NEW p \in Proc, OpenFile(p)
    PROVE  \/ todo'[p] = NotFound
           \/ \E n \in Name : line[p] \in {n, Garbled} /\ todo'[p] = Found(n)
<1>1. PICK n \in IF line[p] = Garbled THEN {Index, Absent} ELSE {line[p]} :
          IF n \in Name /\ Used(p) < MaxFds
          THEN /\ leaked' = [leaked EXCEPT ![p] = @ + 1]
               /\ todo' = [todo EXCEPT ![p] = Found(n)]
          ELSE /\ leaked' = leaked
               /\ todo' = [todo EXCEPT ![p] = NotFound]
  BY DEF OpenFile
<1>2. todo \in [Proc -> Seq(Unit)]
  BY DEF Types
<1>3. CASE n \in Name /\ Used(p) < MaxFds
  <2>1. todo' = [todo EXCEPT ![p] = Found(n)]
    BY <1>1, <1>3
  <2>2. todo'[p] = Found(n)
    BY <1>2, <2>1
  <2>3. line[p] \in {n, Garbled}
    BY <1>1
  <2> QED
    BY <1>3, <2>2, <2>3
<1>4. CASE ~(n \in Name /\ Used(p) < MaxFds)
  <2>1. todo' = [todo EXCEPT ![p] = NotFound]
    BY <1>1, <1>4
  <2> QED
    BY <1>2, <2>1
<1> QED
  BY <1>3, <1>4

(* A browser's request, once made, does not change.                        *)
LEMMA AnsweringKept ==
    ASSUME NEW c \in Conn, NEW s, Answering(c, s),
           got'[c] = got[c], req[c] = Nothing \/ req'[c] = req[c]
    PROVE  \/ got'[c] \o s = NotFound
           \/ \E n \in Name : req'[c] \in {n, Garbled} /\ got'[c] \o s = Found(n)
BY NameAssumption DEF Answering, Request

LEMMA ServeStep == Types /\ HoldInv /\ ShareInv /\ ServeInv /\ EndInv /\ [Next]_vars => ServeInv'
<1> SUFFICES ASSUME Types, HoldInv, ShareInv, ServeInv, EndInv, [Next]_vars,
                    NEW q \in Proc, NEW c \in holds'[q]
             PROVE  ServeOK(q, c)'
  BY DEF ServeInv
<1>0. /\ proc \in [Proc -> Phase] /\ sock \in [Proc -> Conn \cup {NoConn}]
      /\ holds \in [Proc -> SUBSET Conn] /\ line \in [Proc -> Request \cup {Nothing}]
      /\ todo \in [Proc -> Seq(Unit)] /\ got \in [Conn -> Seq(Unit)]
      /\ cli \in [Conn -> {"idle", "open", "done", "left"}]
      /\ req \in [Conn -> Request \cup {Nothing}]
  BY DEF Types
<1>c. c \in Conn
  BY TypesStep DEF Types
<1>h. ASSUME c \in holds[q] PROVE ServeOK(q, c)
  BY <1>h DEF ServeInv
\* A step of somebody else.
<1>a. ASSUME c \in holds[q], proc'[q] = proc[q], line'[q] = line[q], todo'[q] = todo[q],
             got'[c] = got[c], cli'[c] = "left" \/ cli[c] # "left",
             req[c] = Nothing \/ req'[c] = req[c]
      PROVE  ServeOK(q, c)'
  <2>1. ServeOK(q, c)
    BY <1>a, <1>h
  <2>2. ASSUME cli'[c] # "left", proc'[q] = "send" PROVE Answering(c, todo[q])'
    <3>1. Answering(c, todo[q])
      BY <1>a, <2>1, <2>2 DEF ServeOK
    <3> QED
      BY <1>a, <1>c, <3>1, AnsweringKept DEF Answering
  <2>3. ASSUME cli'[c] # "left", proc'[q] = "close" PROVE Answering(c, <<>>)'
    <3>1. Answering(c, <<>>)
      BY <1>a, <2>1, <2>3 DEF ServeOK
    <3> QED
      BY <1>a, <1>c, <3>1, AnsweringKept DEF Answering
  <2> QED
    BY <1>a, <2>1, <2>2, <2>3 DEF ServeOK
<1>1. ASSUME NEW p \in Proc, Step(p) PROVE ServeOK(q, c)'
  <2>1. CASE Accept(p)
    <3>1. CASE q = p
      <4>1. PICK d \in Conn : Queued(d) /\ holds' = [holds EXCEPT ![p] = @ \cup {d}]
        BY <2>1 DEF Accept
      <4>2. holds[p] = {} /\ proc'[p] = "fork" /\ got' = got
        <5>1. proc[p] = "accept" /\ proc'[p] = "fork" /\ got' = got
          BY <1>0, <2>1 DEF Accept, Goto
        <5> QED
          BY <5>1 DEF HoldInv, AtConn, Serving
      <4>3. c = d
        BY <1>0, <3>1, <4>1, <4>2
      <4>4. got[c] = <<>>
        BY <1>c, <4>1, <4>3 DEF Queued, EndInv, EndOK
      <4> QED
        BY <3>1, <4>2, <4>4 DEF ServeOK
    <3>2. CASE q # p
      BY <1>0, <1>a, <2>1, <3>2 DEF Accept, Goto
    <3> QED
      BY <3>1, <3>2
  <2>2. CASE AcceptFails(p)
    <3>1. CASE q = p
      <4>1. holds'[p] = {}
        BY <2>2 DEF AcceptFails, HoldInv, AtConn, Serving
      <4> QED
        BY <3>1, <4>1
    <3>2. CASE q # p
      BY <1>0, <1>a, <2>2, <3>2 DEF AcceptFails, Goto
    <3> QED
      BY <3>1, <3>2
  <2>3. CASE Fork(p)
    <3>1. PICK r \in Proc :
              /\ r # p /\ proc[p] = "fork" /\ proc[r] = "free"
              /\ proc' = [proc EXCEPT ![p] = "parent", ![r] = "read"]
              /\ holds' = [holds EXCEPT ![r] = holds[p]]
              /\ UNCHANGED <<line, todo, cli, req, got>>
      BY <2>3, ForkEffect
    <3>2. CASE q = r
      <4>1. c \in holds[p] /\ proc'[q] = "read"
        BY <1>0, <3>1, <3>2
      <4>2. got[c] = <<>>
        BY <3>1, <4>1 DEF ServeInv, ServeOK
      <4> QED
        BY <3>1, <4>1, <4>2 DEF ServeOK
    <3>3. CASE q = p
      <4>1. proc'[q] = "parent"
        BY <1>0, <3>1, <3>3
      <4> QED
        BY <4>1 DEF ServeOK
    <3>4. CASE q # r /\ q # p
      BY <1>0, <1>a, <3>1, <3>4
    <3> QED
      BY <3>2, <3>3, <3>4
  <2>4. CASE ForkFails(p) \/ ParentCloses(p) \/ ChildCloses(p)
    <3>1. /\ holds' = [holds EXCEPT ![p] = @ \ {sock[p]}]
          /\ proc' = [proc EXCEPT ![p] = "accept"]
          /\ UNCHANGED <<line, todo, cli, req, got>>
      BY <2>4 DEF ForkFails, ParentCloses, ChildCloses, CloseSocket, Goto, connVars
    <3>2. CASE q = p
      BY <1>0, <3>1, <3>2 DEF ServeOK
    <3>3. CASE q # p
      BY <1>0, <1>a, <3>1, <3>3
    <3> QED
      BY <3>2, <3>3
  <2>5. CASE ReadRequest(p)
    <3>1. /\ proc[p] = "read" /\ proc' = [proc EXCEPT ![p] = "open"]
          /\ \E l \in ReadLine(sock[p]) : line' = [line EXCEPT ![p] = l]
          /\ UNCHANGED <<holds, todo, cli, req, got>>
      BY <2>5 DEF ReadRequest, Goto, connVars
    <3>2. CASE q = p
      <4>1. sock[q] = c /\ c # NoConn
        BY <1>c, <3>1, RootAssumption DEF HoldInv
      <4>2. line'[q] \in ReadLine(c)
        BY <1>0, <3>1, <3>2, <4>1
      <4>3. cli[c] # "left" => line'[q] = req[c] /\ req[c] # Nothing
        BY <4>1, <4>2, NameAssumption DEF ReadLine
      <4>4. got[c] = <<>> /\ proc'[q] = "open"
        BY <1>0, <1>h, <3>1, <3>2 DEF ServeOK
      <4> QED
        BY <3>1, <4>3, <4>4 DEF ServeOK
    <3>3. CASE q # p
      BY <1>0, <1>a, <3>1, <3>3
    <3> QED
      BY <3>2, <3>3
  <2>6. CASE OpenFile(p)
    <3>1. /\ proc[p] = "open" /\ proc'[p] = "send"
          /\ UNCHANGED <<holds, cli, req, got>>
      BY <1>0, <2>6 DEF OpenFile, Goto, connVars
    <3>2. CASE q = p
      <4>1. got[c] = <<>> /\ (cli[c] # "left" => line[q] = req[c])
        BY <1>h, <3>1, <3>2 DEF ServeOK
      <4>2. cli[c] # "left" => Answering(c, todo[q])'
        <5>1. \/ todo'[q] = NotFound
              \/ \E n \in Name : line[q] \in {n, Garbled} /\ todo'[q] = Found(n)
          BY <2>6, <3>2, OpenEffect
        <5>2. got'[c] = <<>> /\ (cli[c] # "left" => line[q] = req'[c])
          BY <3>1, <4>1
        <5>3. <<>> \o NotFound = NotFound /\ \A n \in Name : <<>> \o Found(n) = Found(n)
          BY AnswerType, ConcatEmptySeq
        <5> QED
          BY <5>1, <5>2, <5>3 DEF Answering
      <4> QED
        BY <3>1, <3>2, <4>2 DEF ServeOK
    <3>3. CASE q # p
      <4>1. proc'[q] = proc[q] /\ line'[q] = line[q] /\ todo'[q] = todo[q]
        BY <1>0, <2>6, <3>3 DEF OpenFile, Goto
      <4> QED
        BY <1>a, <3>1, <4>1
    <3> QED
      BY <3>2, <3>3
  <2>7. CASE Crash(p) \/ BrokenPipe(p)
    <3>1. /\ holds' = [holds EXCEPT ![p] = {}]
          /\ proc' = [proc EXCEPT ![p] = "dead"]
          /\ line' = [line EXCEPT ![p] = Nothing] /\ todo' = [todo EXCEPT ![p] = <<>>]
          /\ UNCHANGED <<cli, req, got>>
      BY <2>7 DEF Crash, BrokenPipe, Die, Goto, connVars
    <3>2. CASE q = p
      BY <1>0, <3>1, <3>2
    <3>3. CASE q # p
      BY <1>0, <1>a, <3>1, <3>3
    <3> QED
      BY <3>2, <3>3
  <2>8. CASE SendLine(p)
    <3>1. proc[p] = "send" /\ UNCHANGED <<proc, holds, line, cli, req>>
      BY <2>8 DEF SendLine
    <3>2. CASE q = p
      <4>1. sock[p] = c
        BY <3>1, <3>2 DEF HoldInv
      <4>2. ASSUME cli[c] # "left" PROVE Answering(c, todo[q])'
        <5>1. Answering(c, todo[q])
          BY <1>h, <3>1, <3>2, <4>2 DEF ServeOK
        <5>2. got'[c] \o todo'[q] = got[c] \o todo[q]
          BY <1>c, <2>8, <3>2, <4>1, <4>2, SendEffect
        <5> QED
          BY <3>1, <5>1, <5>2 DEF Answering
      <4> QED
        BY <3>1, <3>2, <4>2 DEF ServeOK
    <3>3. CASE q # p /\ sock[p] = c
      <4>1. c \in holds[p]
        BY <1>c, <3>1, <3>3, RootAssumption DEF HoldInv, AtConn, Serving
      <4>2. proc[q] = "parent"
        BY <3>1, <3>3, <4>1 DEF ShareInv
      <4> QED
        BY <3>1, <4>2 DEF ServeOK
    <3>4. CASE q # p /\ sock[p] # c
      <4>1. got'[c] = got[c]
        BY <1>c, <2>8, <3>4, SendEffect
      <4>2. todo'[q] = todo[q]
        BY <1>0, <2>8, <3>4 DEF SendLine
      <4> QED
        BY <1>a, <3>1, <4>1, <4>2
    <3> QED
      BY <3>2, <3>3, <3>4
  <2>9. CASE AnswerSent(p)
    <3>1. /\ proc[p] = "send" /\ todo[p] = <<>> /\ proc' = [proc EXCEPT ![p] = "close"]
          /\ UNCHANGED <<holds, line, todo, cli, req, got>>
      BY <2>9 DEF AnswerSent, Goto, connVars
    <3>2. CASE q = p
      <4>1. cli[c] # "left" => Answering(c, <<>>)
        BY <1>h, <3>1, <3>2 DEF ServeOK
      <4>2. proc'[q] = "close"
        BY <1>0, <3>1, <3>2
      <4>3. cli'[c] # "left" => Answering(c, <<>>)'
        BY <3>1, <4>1 DEF Answering
      <4> QED
        BY <4>2, <4>3 DEF ServeOK
    <3>3. CASE q # p
      BY <1>0, <1>a, <3>1, <3>3
    <3> QED
      BY <3>2, <3>3
  <2> QED
    BY <1>1, <2>1, <2>2, <2>3, <2>4, <2>5, <2>6, <2>7, <2>8, <2>9 DEF Step
<1>2. ASSUME NEW d \in Conn, Connect(d) \/ Ask(d) \/ Leave(d) \/ SeeEnd(d)
      PROVE  ServeOK(q, c)'
  <2>1. UNCHANGED <<proc, sock, holds, leaked, line, todo, got>>
    BY <1>2 DEF Connect, Ask, Leave, SeeEnd, procVars
  <2>2. cli'[c] = "left" \/ cli[c] # "left"
    BY <1>0, <1>c, <1>2 DEF Connect, Ask, Leave, SeeEnd
  <2>3. req[c] = Nothing \/ req'[c] = req[c]
    BY <1>0, <1>c, <1>2 DEF Connect, Ask, Leave, SeeEnd
  <2> QED
    BY <1>a, <2>1, <2>2, <2>3
<1>3. CASE UNCHANGED vars
  BY <1>3, <1>a DEF vars
<1> QED
  BY <1>1, <1>2, <1>3 DEF Next

LEMMA OneAnswerStep ==
    Types /\ HoldInv /\ ServeInv /\ OneAnswer /\ [Next]_vars => OneAnswer'
<1> SUFFICES ASSUME Types, HoldInv, ServeInv, OneAnswer, [Next]_vars, NEW c \in Conn
             PROVE  \/ IsPrefix(got'[c], NotFound)
                    \/ \E n \in Name : /\ req'[c] \in {n, Garbled}
                                       /\ IsPrefix(got'[c], Found(n))
  BY DEF OneAnswer
<1> DEFINE Goal == \/ IsPrefix(got'[c], NotFound)
                   \/ \E n \in Name : /\ req'[c] \in {n, Garbled}
                                      /\ IsPrefix(got'[c], Found(n))
<1>a. ASSUME got'[c] = got[c], req[c] = Nothing \/ req'[c] = req[c] PROVE Goal
  <2>1. \/ IsPrefix(got[c], NotFound)
        \/ \E n \in Name : req[c] \in {n, Garbled} /\ IsPrefix(got[c], Found(n))
    BY DEF OneAnswer
  <2> QED
    BY <1>a, <2>1, NameAssumption DEF Request
<1>1. ASSUME NEW p \in Proc, SendLine(p) PROVE Goal
  <2>0. req' = req /\ proc[p] = "send"
    BY <1>1 DEF SendLine
  <2>1. CASE c = sock[p] /\ cli[c] # "left"
    <3>1. c \in holds[p]
      BY <2>0, <2>1, RootAssumption DEF HoldInv, AtConn, Serving
    <3>2. Answering(c, todo[p])
      BY <2>0, <2>1, <3>1 DEF ServeInv, ServeOK
    <3>3. /\ got'[c] \in Seq(Unit) /\ todo'[p] \in Seq(Unit)
          /\ got'[c] \o todo'[p] = got[c] \o todo[p]
      BY <1>1, <2>1, SendEffect
    <3>4. IsPrefix(got'[c], got[c] \o todo[p])
      BY <3>3, PrefixOfConcat
    <3> QED
      BY <2>0, <3>2, <3>4 DEF Answering
  <2>2. CASE ~(c = sock[p] /\ cli[c] # "left")
    <3>1. got'[c] = got[c]
      BY <1>1, <2>2, SendEffect
    <3> QED
      BY <1>a, <2>0, <3>1
  <2> QED
    BY <2>1, <2>2
<1>2. ASSUME NEW p \in Proc, Step(p), ~SendLine(p) PROVE Goal
  <2>1. CASE Fork(p)
    BY <1>a, <2>1, ForkEffect
  <2>2. UNCHANGED <<req, got>>
    BY <1>2, <2>1, ForkEffect DEF Step, Accept, AcceptFails, ForkFails, ParentCloses, CloseSocket,
       ReadRequest, OpenFile, Crash, AnswerSent, ChildCloses, BrokenPipe, Die, connVars
  <2> QED
    BY <1>a, <2>2
<1>3. ASSUME NEW d \in Conn, Connect(d) \/ Ask(d) \/ Leave(d) \/ SeeEnd(d) PROVE Goal
  <2>1. got' = got
    BY <1>3 DEF Connect, Ask, Leave, SeeEnd
  <2>2. req \in [Conn -> Request \cup {Nothing}]
    BY DEF Types
  <2>3. req[c] = Nothing \/ req'[c] = req[c]
    BY <1>3, <2>2 DEF Connect, Ask, Leave, SeeEnd
  <2> QED
    BY <1>a, <2>1, <2>3
<1>4. CASE UNCHANGED vars
  BY <1>4, <1>a DEF vars
<1> QED
  BY <1>1, <1>2, <1>3, <1>4 DEF Next

(* No place of the process table becomes free again.                       *)
LEMMA TableStaysFull == Types /\ TableFull /\ [Next]_vars => TableFull'
<1> SUFFICES ASSUME Types, TableFull, [Next]_vars PROVE TableFull'
  OBVIOUS
<1> USE DEF TableFull
<1>0. proc \in [Proc -> Phase]
  BY DEF Types
<1>1. ASSUME NEW p \in Proc, Step(p) PROVE TableFull'
  BY <1>0, <1>1 DEF Step, Accept, AcceptFails, Fork, ForkFails, ParentCloses,
     CloseSocket, ReadRequest, OpenFile, Crash, SendLine, AnswerSent, ChildCloses,
     BrokenPipe, Die, Goto
<1>2. ASSUME NEW c \in Conn, Connect(c) \/ Ask(c) \/ Leave(c) \/ SeeEnd(c)
      PROVE  TableFull'
  BY <1>2 DEF Connect, Ask, Leave, SeeEnd, procVars
<1>3. CASE UNCHANGED vars
  BY <1>3 DEF vars
<1> QED
  BY <1>1, <1>2, <1>3 DEF Next

LEMMA EndStep == Types /\ HoldInv /\ ServeInv /\ EndInv /\ [Next]_vars => EndInv'
<1> SUFFICES ASSUME Types, HoldInv, ServeInv, EndInv, [Next]_vars, NEW c \in Conn
             PROVE  EndOK(c)'
  BY DEF EndInv
<1>0. /\ proc \in [Proc -> Phase] /\ sock \in [Proc -> Conn \cup {NoConn}]
      /\ holds \in [Proc -> SUBSET Conn] /\ line \in [Proc -> Request \cup {Nothing}]
      /\ accepted \in [Conn -> BOOLEAN] /\ got \in [Conn -> Seq(Unit)]
      /\ cli \in [Conn -> {"idle", "open", "done", "left"}]
      /\ req \in [Conn -> Request \cup {Nothing}]
  BY DEF Types
<1>e. EndOK(c)
  BY DEF EndInv
\* A step that neither opens, closes nor serves this connection.
<1>a. ASSUME accepted'[c] = accepted[c], got'[c] = got[c],
             cli'[c] = "left" \/ cli[c] # "left", req[c] = Nothing \/ req'[c] = req[c],
             cli'[c] = "done" => cli[c] = "done" \/ Closed(c),
             \A q \in Proc : c \in holds'[q] => c \in holds[q],
             \A q \in Proc : c \in holds[q] /\ proc[q] # "parent" =>
                                c \in holds'[q] /\ proc'[q] # "parent"
      PROVE  EndOK(c)'
  <2>1. Closed(c) => Closed(c)'
    BY <1>a DEF Closed
  <2>2. Unserved(c)' => Unserved(c)
    BY <1>a DEF Unserved
  <2>3. Answering(c, <<>>) => Answering(c, <<>>)'
    BY <1>a, AnsweringKept DEF Answering
  <2>4. req[c] = Garbled => req'[c] = Garbled
    BY <1>a, NameAssumption DEF Request
  <2>5. TableFull => TableFull'
    BY TableStaysFull
  <2> QED
    BY <1>a, <1>e, <2>1, <2>2, <2>3, <2>4, <2>5 DEF EndOK
\* A process that leaves a connection it served.
<1>b. ASSUME NEW p \in Proc, c \in holds[p], UNCHANGED <<accepted, got, cli, req>>,
             \A q \in Proc : c \in holds'[q] => c \in holds[q],
             cli[c] # "left" => \/ Answering(c, <<>>)
                                \/ req[c] = Garbled
                                \/ got[c] = <<>> /\ TableFull
      PROVE  EndOK(c)'
  <2>1. Closed(c) => Closed(c)'
    BY <1>b DEF Closed
  <2>2. Answering(c, <<>>) => Answering(c, <<>>)'
    BY <1>b DEF Answering
  <2>3. TableFull => TableFull'
    BY TableStaysFull
  <2>4. accepted[c]
    BY <1>b DEF HoldInv
  <2> QED
    BY <1>b, <1>e, <2>1, <2>2, <2>3, <2>4 DEF EndOK
<1>1. ASSUME NEW p \in Proc, Step(p) PROVE EndOK(c)'
  <2>1. CASE Accept(p)
    <3>1. PICK d \in Conn : /\ Queued(d) /\ accepted' = [accepted EXCEPT ![d] = TRUE]
                            /\ holds' = [holds EXCEPT ![p] = @ \cup {d}]
      BY <2>1 DEF Accept
    <3>2. proc[p] = "accept" /\ proc' = [proc EXCEPT ![p] = "fork"] /\ UNCHANGED <<cli, req, got>>
      BY <2>1 DEF Accept, Goto
    <3>3. CASE c = d
      <4>1. c \in holds'[p] /\ proc'[p] # "parent"
        BY <1>0, <3>1, <3>2, <3>3
      <4>2. ~Unserved(c)' /\ accepted'[c]
        BY <1>0, <3>1, <3>3, <4>1 DEF Unserved
      <4>3. cli'[c] # "done"
        BY <1>e, <3>1, <3>2, <3>3 DEF Queued, EndOK, Closed
      <4> QED
        BY <4>2, <4>3 DEF EndOK
    <3>4. CASE c # d
      <4>1. accepted'[c] = accepted[c] /\ \A q \in Proc : c \in holds'[q] <=> c \in holds[q]
        BY <1>0, <3>1, <3>4
      <4>2. \A q \in Proc : proc[q] # "parent" => proc'[q] # "parent"
        BY <1>0, <3>2
      <4> QED
        BY <1>a, <3>2, <4>1, <4>2
    <3> QED
      BY <3>3, <3>4
  <2>2. CASE AcceptFails(p)
    <3>1. /\ UNCHANGED <<holds, got, cli, req>>
          /\ proc' = [proc EXCEPT ![p] = "fork"]
      BY <2>2 DEF AcceptFails, Goto
    <3>2. \A q \in Proc : proc[q] # "parent" => proc'[q] # "parent"
      BY <1>0, <3>1
    <3>3. CASE accepted'[c] = accepted[c]
      BY <1>a, <3>1, <3>2, <3>3
    <3>4. CASE accepted'[c] # accepted[c]
      <4>1. cli[c] = "left" /\ accepted'[c]
        BY <1>0, <2>2, <3>4 DEF AcceptFails
      <4> QED
        BY <3>1, <4>1 DEF EndOK
    <3> QED
      BY <3>3, <3>4
  <2>3. CASE Fork(p)
    <3>1. PICK r \in Proc :
              /\ r # p /\ proc[p] = "fork" /\ proc[r] = "free"
              /\ proc' = [proc EXCEPT ![p] = "parent", ![r] = "read"]
              /\ holds' = [holds EXCEPT ![r] = holds[p]]
              /\ UNCHANGED <<line, todo, cli, req, accepted, got>>
      BY <2>3, ForkEffect
    <3>2. holds[r] = {}
      BY <3>1 DEF HoldInv, AtConn, Serving
    <3>3. CASE c \in holds[p]
      <4>1. c \in holds'[r] /\ proc'[r] = "read"
        BY <1>0, <3>1, <3>3
      <4>2. ~Unserved(c)'
        BY <4>1 DEF Unserved
      <4>3. accepted[c] /\ cli[c] # "done"
        BY <1>e, <3>3 DEF HoldInv, EndOK, Closed
      <4> QED
        BY <3>1, <4>2, <4>3 DEF EndOK
    <3>4. CASE c \notin holds[p]
      <4>1. \A q \in Proc : c \in holds'[q] <=> c \in holds[q]
        BY <1>0, <3>1, <3>2, <3>4
      <4>2. \A q \in Proc : c \in holds[q] /\ proc[q] # "parent" => proc'[q] # "parent"
        BY <1>0, <3>1, <3>4
      <4> QED
        BY <1>a, <3>1, <4>1, <4>2
    <3> QED
      BY <3>3, <3>4
  <2>4. CASE ForkFails(p) \/ ParentCloses(p) \/ ChildCloses(p)
    <3>1. /\ holds' = [holds EXCEPT ![p] = @ \ {sock[p]}]
          /\ proc' = [proc EXCEPT ![p] = "accept"]
          /\ UNCHANGED <<cli, req, accepted, got>>
      BY <2>4 DEF ForkFails, ParentCloses, ChildCloses, CloseSocket, Goto, connVars
    <3>2. \A q \in Proc : c \in holds'[q] => c \in holds[q]
      BY <1>0, <3>1
    <3>3. CASE c \in holds[p] /\ proc[p] # "parent"
      <4>1. CASE ForkFails(p)
        <5>1. got[c] = <<>> /\ TableFull
          BY <3>3, <4>1 DEF ForkFails, ServeInv, ServeOK
        <5> QED
          BY <1>b, <3>1, <3>2, <3>3, <5>1
      <4>2. CASE ChildCloses(p)
        <5>1. cli[c] # "left" => Answering(c, <<>>)
          BY <3>3, <4>2 DEF ChildCloses, ServeInv, ServeOK
        <5> QED
          BY <1>b, <3>1, <3>2, <3>3, <5>1
      <4> QED
        BY <2>4, <3>3, <4>1, <4>2 DEF ParentCloses
    <3>4. CASE ~(c \in holds[p] /\ proc[p] # "parent")
      <4>1. \A q \in Proc : c \in holds[q] /\ proc[q] # "parent" =>
                               c \in holds'[q] /\ proc'[q] # "parent"
        BY <1>0, <3>1, <3>4
      <4> QED
        BY <1>a, <3>1, <3>2, <4>1
    <3> QED
      BY <3>3, <3>4
  <2>5. CASE ReadRequest(p) \/ OpenFile(p) \/ AnswerSent(p)
    <3>1. /\ UNCHANGED <<holds, cli, req, accepted, got>>
          /\ \E phase \in Serving : proc' = [proc EXCEPT ![p] = phase]
      BY <2>5 DEF ReadRequest, OpenFile, AnswerSent, Goto, connVars, Serving
    <3>2. \A q \in Proc : proc[q] # "parent" => proc'[q] # "parent"
      BY <1>0, <3>1 DEF Serving
    <3> QED
      BY <1>a, <3>1, <3>2
  <2>6. CASE SendLine(p)
    <3>1. proc[p] = "send" /\ UNCHANGED <<proc, holds, cli, req, accepted>>
      BY <2>6 DEF SendLine
    <3>2. CASE sock[p] = c
      <4>1. c \in holds[p]
        BY <3>1, <3>2, RootAssumption DEF HoldInv, AtConn, Serving
      <4>2. accepted[c] /\ cli[c] # "done" /\ ~Unserved(c)'
        BY <1>e, <3>1, <4>1 DEF HoldInv, EndOK, Closed, Unserved
      <4> QED
        BY <3>1, <4>2 DEF EndOK
    <3>3. CASE sock[p] # c
      <4>1. got'[c] = got[c]
        BY <2>6, <3>3, SendEffect
      <4> QED
        BY <1>a, <3>1, <4>1
    <3> QED
      BY <3>2, <3>3
  <2>7. CASE Crash(p) \/ BrokenPipe(p)
    <3>1. /\ holds' = [holds EXCEPT ![p] = {}]
          /\ proc' = [proc EXCEPT ![p] = "dead"]
          /\ UNCHANGED <<cli, req, accepted, got>>
      BY <2>7 DEF Crash, BrokenPipe, Die, Goto, connVars
    <3>2. \A q \in Proc : c \in holds'[q] => c \in holds[q]
      BY <1>0, <3>1
    <3>3. CASE c \in holds[p]
      <4>1. CASE Crash(p)
        <5>1. cli[c] # "left" => req[c] = Garbled
          BY <3>3, <4>1 DEF Crash, ServeInv, ServeOK
        <5> QED
          BY <1>b, <3>1, <3>2, <3>3, <5>1
      <4>2. CASE BrokenPipe(p)
        <5>1. cli[c] = "left"
          BY <3>3, <4>2 DEF BrokenPipe, HoldInv
        <5> QED
          BY <1>b, <3>1, <3>2, <3>3, <5>1
      <4> QED
        BY <2>7, <4>1, <4>2
    <3>4. CASE c \notin holds[p]
      <4>1. \A q \in Proc : c \in holds[q] /\ proc[q] # "parent" =>
                               c \in holds'[q] /\ proc'[q] # "parent"
        BY <1>0, <3>1, <3>4
      <4> QED
        BY <1>a, <3>1, <3>2, <4>1
    <3> QED
      BY <3>3, <3>4
  <2> QED
    BY <1>1, <2>1, <2>2, <2>3, <2>4, <2>5, <2>6, <2>7 DEF Step
<1>2. ASSUME NEW d \in Conn, Connect(d) \/ Ask(d) \/ Leave(d) \/ SeeEnd(d)
      PROVE  EndOK(c)'
  <2>1. UNCHANGED <<proc, holds, accepted, got>>
    BY <1>2 DEF Connect, Ask, Leave, SeeEnd, procVars
  <2>2. cli'[c] = "left" \/ cli[c] # "left"
    BY <1>0, <1>2 DEF Connect, Ask, Leave, SeeEnd
  <2>3. req[c] = Nothing \/ req'[c] = req[c]
    BY <1>0, <1>2 DEF Connect, Ask, Leave, SeeEnd
  <2>4. cli'[c] = "done" => cli[c] = "done" \/ Closed(c)
    BY <1>0, <1>2 DEF Connect, Ask, Leave, SeeEnd
  <2> QED
    BY <1>a, <2>1, <2>2, <2>3, <2>4
<1>3. CASE UNCHANGED vars
  BY <1>3, <1>a DEF vars
<1> QED
  BY <1>1, <1>2, <1>3 DEF Next

-----------------------------------------------------------------------------
(* The theorems.                                                           *)

(* The invariant holds of every behaviour, for any constants.              *)
THEOREM Inductive == Spec => []IInv
<1>1. IInv /\ [Next]_vars => IInv'
  BY TypesStep, FdStep, HoldStep, ShareStep, RootStep, ServeStep, OneAnswerStep, EndStep
     DEF IInv
<1> QED
  BY InitIInv, <1>1, PTL DEF Spec

(* No variable leaves its type, and no process has more descriptors than   *)
(* there are.                                                              *)
THEOREM TypeCorrect == Spec => []TypeOK
<1>1. IInv => TypeOK
  BY DEF IInv, Types, FdInv, TypeOK
<1> QED
  BY <1>1, Inductive, PTL

(* However many processes accept and fork, each has open only the          *)
(* connection it is at, shared with nobody but its parent or child.        *)
THEOREM Held == Spec => []HeldWhileServed
<1>1. IInv => HeldWhileServed
  BY DEF IInv, HoldInv, ShareInv, HeldWhileServed, AtConn, Serving
<1> QED
  BY <1>1, Inductive, PTL

(* A browser never receives bytes of two answers.                          *)
THEOREM One == Spec => []OneAnswer
<1>1. IInv => OneAnswer
  BY DEF IInv
<1> QED
  BY <1>1, Inductive, PTL

(* A browser that asked properly and saw the end has its whole answer, or  *)
(* nothing at all, and that only when the process table is full.           *)
THEOREM Whole == Spec => []WholeAnswer
<1>1. ASSUME IInv, NEW c \in Conn, cli[c] = "done", req[c] \in Name \cup {Absent}
      PROVE  \/ got[c] = NotFound
             \/ req[c] \in Name /\ got[c] = Found(req[c])
             \/ got[c] = <<>> /\ TableFull
  <2>1. got[c] \in Seq(Unit) /\ got[c] \o <<>> = got[c]
    BY <1>1, ConcatEmptySeq DEF IInv, Types
  <2>a. EndOK(c) /\ cli[c] # "left"
    BY <1>1 DEF IInv, EndInv
  <2>2. accepted[c] /\ Unserved(c)
    BY <1>1, <2>a DEF EndOK, Closed, Unserved
  <2>3. Answering(c, <<>>) \/ req[c] = Garbled \/ (got[c] = <<>> /\ TableFull)
    BY <2>a, <2>2 DEF EndOK
  <2>4. req[c] # Garbled
    BY <1>1, NameAssumption
  <2> QED
    BY <2>1, <2>3, <2>4 DEF Answering
<1>2. IInv => WholeAnswer
  BY <1>1 DEF WholeAnswer
<1> QED
  BY <1>2, Inductive, PTL

(* The process main starts is always at accept or about to be: no browser  *)
(* can keep it busy or end it.                                             *)
THEOREM RootFree == Spec => []RootStaysFree
<1>1. IInv => RootStaysFree
  BY DEF IInv
<1> QED
  BY <1>1, Inductive, PTL
=============================================================================
