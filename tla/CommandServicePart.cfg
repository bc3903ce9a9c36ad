\* Parts of a file of four bytes, from every byte up to the third.
SPECIFICATION Spec
CONSTANTS
    Name = {"f"}
    Source <- MCSource
    Byte <- MCByte
    Absent = "none"
    Commands <- MCParts
    CountLens = {3}
    ListLen = 2
    BUFFERSIZE = 2
    MaxFds = 2
    MaxGuess = 1
    MaxCommands = 2
PROPERTIES EndsAtLastByte
CHECK_DEADLOCK FALSE
