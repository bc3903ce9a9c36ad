---------------------------- MODULE MCFTProtocol ----------------------------
(* Small instances of FTProtocol for TLC.                                  *)
EXTENDS FTProtocol

\* The i-th byte of file f
MCByte == [file : {"a", "b", "old"}, pos : 1 .. 3]
MCBytes(f, n) == [i \in 1 .. n |-> [file |-> f, pos |-> i]]

\* A file of two reads and an empty one, at BUFFERSIZE 2.
MCSource == [n \in {"a.txt", "b.txt"} |->
                IF n = "a.txt" THEN MCBytes("a", 3) ELSE <<>>]
MCOldDest == MCBytes("old", 2)
=============================================================================
