\* Three commands of every kind, a server with up to two descriptors, a client
\* that may be killed and a server that may end at any moment.
SPECIFICATION FairSpec
CONSTANTS
    Name = {"f"}
    Source <- MCSource
    Byte <- MCByte
    Absent = "none"
    Commands <- MCCommands
    CountLens = {3, 4}
    ListLen = 2
    BUFFERSIZE = 2
    MaxFds = 2
    MaxGuess = 1
    MaxCommands = 3
INVARIANTS TypeOK InStep OwnAnswer
PROPERTIES SendsItsPart CommandsEnd
CHECK_DEADLOCK FALSE
