---------------------------- MODULE MCAnchoredS3 ----------------------------
(* Instances of the S3 wrapper for TLC *)
EXTENDS AnchoredS3, TLC

CONSTANTS p1, p2, object, sidecar, beyond

(* Two puts, of one key, of distinct keys, or one of the name of the       *)
(* other's sidecar                                                         *)
Sidecars == object :> sidecar @@ sidecar :> beyond

Unchained == [c \in {p1, p2} |-> NoChain]
Bodies == p1 :> "bytes" @@ p2 :> "text"

(* A strict log store, or none *)
S3Options == {[logStore |-> TRUE, strict |-> TRUE], [logStore |-> FALSE, strict |-> FALSE]}
=============================================================================
