------------------------------ MODULE MCOneFile ------------------------------
(* Small instances of OneFile for TLC.                                     *)
EXTENDS OneFile

MCFile == <<"b1", "b2", "b3">>
=============================================================================
