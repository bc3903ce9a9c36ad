SPECIFICATION Spec
CONSTANTS
    Conn = {b1, b2}
    MaxChildren = 2
INVARIANT AskedIsAnswered
CHECK_DEADLOCK FALSE
