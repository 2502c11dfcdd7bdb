-------------------------------- MODULE Codec --------------------------------
(***************************************************************************)
(* Content types and encodings on the way of a payload: what the ingester  *)
(* lets in and how it labels it (ingester/routes.go, grpc_proxy.go), and   *)
(* what the worker makes of the labels (worker/decompress.go, decode.go).  *)
(* A payload is its format and its compression; of a content type the      *)
(* prefix the code tests is kept.                                          *)
(***************************************************************************)

Formats   == {"proto", "json"}
Codings   == {"gzip", "zstd"}
Types     == Formats \cup {"text", ""}
Encodings == Codings \cup {"identity", "none", "br", ""}
Payloads  == [format : Formats, coding : Codings \cup {"identity"}]

-----------------------------------------------------------------------------
(* The ingester *)

(* The two middlewares of POST /v1/logs; anything else is answered 415. *)
AcceptsType(t)     == t \in Formats
AcceptsEncoding(e) == e \in Codings \cup {"identity", ""}

(* Slip: only the two bytes of the gzip magic are looked for. *)
DetectsGzipOnly(p) == IF p.coding = "gzip" THEN "gzip" ELSE ""

(* gRPC tells the handler nothing of the encoding: it looks for the magic   *)
(* bytes, with which no protobuf message of the collector starts.          *)
detectCompression(p) == IF p.coding \in Codings THEN p.coding ELSE ""

-----------------------------------------------------------------------------
(* The worker: a payload, or {} for an error *)

decompress(p, encoding) ==
  CASE encoding \in {"", "none", "identity"} -> {p}
    [] encoding \in Codings /\ p.coding = encoding -> {[p EXCEPT !.coding = "identity"]}
    [] OTHER -> {}

decode(p, type) == IF type \in Formats /\ p = [format |-> type, coding |-> "identity"]
                   THEN {p} ELSE {}

Decodes(p, type, encoding) == \E q \in decompress(p, encoding) : decode(q, type) # {}
=============================================================================
