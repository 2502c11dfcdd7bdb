----------------------------- MODULE MCWorkerPool -----------------------------
(* Instances of WorkerPool for TLC. *)
EXTENDS WorkerPool

SomeBatches == { <<"log">>, <<"log", "log", "log">>, <<"log", "bad", "log", "log">>,
                 <<"panic", "log", "log">>, <<"log", "panic", "log", "log", "log">> }
=============================================================================
