\* Two clients ask for a file that exists, of a server with descriptors for one.
SPECIFICATION Spec
CONSTANTS
    Client = {c1, c2}
    Name = {"a.txt", "b.txt"}
    Source <- MCSource
    Byte <- MCByte
    Dest = "dest"
    OldDest <- MCOldDest
    Absent = "none"
    Requests = {"a.txt"}
    BUFFERSIZE = 2
    MaxFds = 2
    MaxKills = 0
INVARIANT RefusedOnlyIfAbsent
CHECK_DEADLOCK FALSE
