------------------------------ MODULE MCIngester ------------------------------
(* Instances of Ingester for TLC: h3 is answered 415 for its type, h2      *)
(* outgrows the buffer limit.                                              *)
EXTENDS Ingester, TLC

CONSTANTS h1, h2, h3, g1, b1, b2

ABody == h1 :> [format |-> "json", coding |-> "gzip"]
      @@ g1 :> [format |-> "proto", coding |-> "zstd"]
      @@ [r \in {h2, h3} |-> [format |-> "proto", coding |-> "identity"]]
AType == h1 :> "json" @@ h2 :> "proto" @@ [r \in {h3, g1} |-> "text"]
AnEncoding == h1 :> "gzip" @@ [r \in {h2, h3, g1} |-> ""]
=============================================================================
