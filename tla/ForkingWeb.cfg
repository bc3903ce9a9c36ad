\* Two browsers, four places in the process table, and room for one file and one
\* connection in each process.
SPECIFICATION FairSpec
CONSTANTS
    Proc = {p1, p2, p3, p4}
    Root = p1
    Conn = {c1, c2}
    NoConn = NoConn
    Name = {"index"}
    Index = "index"
    Page = {"page1", "page2"}
    Content <- MCContent
    Absent = "none"
    Garbled = "garbled"
    Nothing = "nothing"
    MaxFds = 2
INVARIANTS TypeOK HeldWhileServed OneAnswer WholeAnswer RootStaysFree
PROPERTIES EveryRequestEnds
CHECK_DEADLOCK FALSE
