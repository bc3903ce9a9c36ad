\* Every loop, buffers of up to three bytes, a destination that takes none, some
\* or all of them and, when it is a disk, is freed twice.
SPECIFICATION FairLoopSpec
CONSTANTS
    MaxLen = 3
    MaxRoom = 5
    MaxFrees = 2
    UINT_MAX = 7
INVARIANTS WrittenAtReturn
PROPERTIES LoopReturns
CHECK_DEADLOCK FALSE
