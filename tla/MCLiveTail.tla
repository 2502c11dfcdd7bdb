------------------------------ MODULE MCLiveTail ------------------------------
(* Instances of LiveTail for TLC; the connection may end, and with it the  *)
(* whole behaviour.                                                        *)
EXTENDS LiveTail
=============================================================================
