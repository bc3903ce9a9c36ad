SPECIFICATION FairSpec
CONSTANTS
    Conn = {b1, b2, b3, b4}
    MaxChildren = 2
INVARIANT DownWhenFull
PROPERTY StreamEnds
CHECK_DEADLOCK FALSE
