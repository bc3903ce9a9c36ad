-------------------------- MODULE MCCommandService --------------------------
(* Small instances of CommandService for TLC.                              *)
EXTENDS CommandService

MCSource == [n \in Name |-> [i \in 1 .. 4 |-> [at |-> i]]]
MCByte == [at : 1 .. 4]

Get(n) == [op |-> "GETFILE", name |-> n]
GetSize(n) == [op |-> "GETFILESIZE", name |-> n]
GetPart(n, a, b) == [op |-> "GETFILEPART", name |-> n, first |-> a, last |-> b]

\* Every kind of command, parts from the start and from inside the file, past
\* its end and of no length, and both outcomes of open.
MCCommands ==
    {Ping, [op |-> "FILELIST"], Get("f"), Get("none"), GetSize("f"), GetSize("none"),
     GetPart("f", 0, 3), GetPart("f", 2, 4), GetPart("f", 2, 2), GetPart("none", 0, 2)}
\* Parts only, for the run that refutes a comment.
MCParts == {GetPart("f", a, b) : a \in 0 .. 2, b \in 2 .. 3}
MCPing == {Ping}
=============================================================================
