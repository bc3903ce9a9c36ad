----------------------------- MODULE MCUdpRelay -----------------------------
(* Small instances of UdpRelay for TLC.                                    *)
EXTENDS UdpRelay

\* Two lengths, neither that of "dos"
MCLength == {4, 5}
=============================================================================
