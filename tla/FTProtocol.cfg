\* Two clients of one server; the file, the empty file, the shared copy and an
\* absent name may each be asked for, and one process may be killed.
SPECIFICATION FairSpec
CONSTANTS
    Client = {c1, c2}
    Name = {"a.txt", "b.txt"}
    Source <- MCSource
    Byte <- MCByte
    Dest = "dest"
    OldDest <- MCOldDest
    Absent = "none"
    Requests = {"a.txt", "b.txt", "dest", "none"}
    BUFFERSIZE = 2
    MaxFds = 3
    MaxKills = 1
INVARIANTS TypeOK AcceptNeverStarves OneWriter CopyIsPrefix NoOverread
PROPERTIES FarewellMeansComplete EveryClientEnds ImplementsFileCopies
CHECK_DEADLOCK FALSE
