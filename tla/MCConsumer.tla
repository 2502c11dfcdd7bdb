------------------------------ MODULE MCConsumer ------------------------------
(* Instances of Consumer for TLC. *)
EXTENDS Consumer

CONSTANTS a, b

(* Workers that are only ever stopped by a signal, never by a crash or a   *)
(* lost connection.                                                        *)
GracefulNext ==
  \/ Broker \/ Callback \/ Select \/ Insert \/ Reply
  \/ Cancel \/ CloseBroker \/ Exit \/ Restart
GracefulSpec == Init /\ [][GracefulNext]_vars
=============================================================================
