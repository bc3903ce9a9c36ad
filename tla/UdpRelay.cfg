\* Two senders, of one port or of two, whose strings are as long or not, and a
\* relay; any datagram may be lost or come late.
SPECIFICATION FairSpec
CONSTANTS
    Sender = {s1, s2}
    Relay = {r1}
    NoSender = NoSender
    Port = {p1, p2}
    Length <- MCLength
    NoMsg = NoMsg
INVARIANTS TypeOK TailIsTheOwners
PROPERTIES OpenerEnds
CHECK_DEADLOCK FALSE
