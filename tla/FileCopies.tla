----------------------------- MODULE FileCopies -----------------------------
(***************************************************************************)
(* What FT_protocoll promises of the one file all clients save into: they  *)
(* take turns, each turn starts from an empty file and extends it with the *)
(* bytes of the file that client asked for, as that file was when the turn *)
(* began, and nothing else touches it.  A client may give up at any time.  *)
(***************************************************************************)
EXTENDS Integers, Sequences

CONSTANTS Client, Source, Dest, Requests

VARIABLES asked,  \* the name each client asks for
          state,  \* "waiting" for its turn, "copying", or "over"
          goal,   \* the file being copied, empty between turns
          dest    \* the shared file

vars == <<asked, state, goal, dest>>

Init ==
    /\ asked \in [Client -> Requests]
    /\ state = [c \in Client |-> "waiting"]
    /\ goal = <<>>

Begin(c) ==
    /\ \A d \in Client : state[d] # "copying"
    /\ state[c] = "waiting" /\ asked[c] \in DOMAIN Source \cup {Dest}
    /\ state' = [state EXCEPT ![c] = "copying"]
    /\ goal' = IF asked[c] = Dest THEN dest ELSE Source[asked[c]]
    /\ dest' = <<>>
    /\ UNCHANGED asked

Extend(c) ==
    /\ state[c] = "copying"
    /\ \E n \in Len(dest) .. Len(goal) : dest' = SubSeq(goal, 1, n)
    /\ UNCHANGED <<asked, state, goal>>

GiveUp(c) ==
    /\ state[c] = "waiting"
    /\ state' = [state EXCEPT ![c] = "over"]
    /\ UNCHANGED <<asked, goal, dest>>

End(c) ==
    /\ state[c] = "copying"
    /\ state' = [state EXCEPT ![c] = "over"]
    /\ goal' = <<>>
    /\ UNCHANGED <<asked, dest>>

Next == \E c \in Client : Begin(c) \/ Extend(c) \/ GiveUp(c) \/ End(c)

Spec == Init /\ [][Next]_vars
=============================================================================
