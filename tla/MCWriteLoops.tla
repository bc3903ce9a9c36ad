---------------------------- MODULE MCWriteLoops ----------------------------
(* Small instances of WriteLoops for TLC.                                  *)
EXTENDS WriteLoops
=============================================================================
