---------------------------- MODULE MCTailPublisher ----------------------------
(* Instances of TailPublisher for TLC. *)
EXTENDS TailPublisher

CONSTANTS e1, e2, p1, p2

TwoEnqueuers  == {e1, e2}
TwoPublishers == {p1, p2}
FiveBuffers   == 1..5
=============================================================================
