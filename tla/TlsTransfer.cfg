\* Two clients with certificates of every kind, in one directory or in two, a file
\* of a full and a short read, descriptors for one transfer or two, one kill.
SPECIFICATION FairSpec
CONSTANTS
    Client = {c1, c2}
    NoClient = NoClient
    Directory = {d1, d2}
    File <- MCFile
    Byte = {"b1", "b2", "b3"}
    Hole = "hole"
    BUFFERSIZE = 2
    MaxFds = 2
    Window = 2
    MaxKills = 1
INVARIANTS TypeOK ReadsItsRecord WholeOrEmpty BytesInPlace
PROPERTIES EveryClientEnds
CHECK_DEADLOCK FALSE
