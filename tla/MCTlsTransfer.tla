---------------------------- MODULE MCTlsTransfer ----------------------------
(* Small instances of TlsTransfer for TLC.                                 *)
EXTENDS TlsTransfer

MCFile == <<"b1", "b2", "b3">>
=============================================================================
