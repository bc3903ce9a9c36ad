---------------------------- MODULE MCForkingWeb ----------------------------
(* Small instances of ForkingWeb for TLC.                                  *)
EXTENDS ForkingWeb

MCContent == [n \in Name |-> <<"page1", "page2">>]
=============================================================================
