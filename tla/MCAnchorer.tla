----------------------------- MODULE MCAnchorer -----------------------------
(* Instances of the anchorer for TLC *)
EXTENDS Anchorer, TLC

CONSTANTS c1, c2, c3, b1, b2, k1, k2

(* Two concurrent calls on one chain, a batcher alone on another, and an   *)
(* unchained call                                                          *)
SharedAndSole == c1 :> k1 @@ c2 :> k1 @@ c3 :> NoChain @@ b1 :> k2

(* Two batchers of the same name share one chain key *)
SameName == b1 :> k1 @@ b2 :> k1

(* A single call without a chain *)
Alone == c1 :> NoChain

(* The calls of the shared chain are alike *)
Kinds == c1 :> "stream" @@ c2 :> "stream" @@ c3 :> "bytes"
Alike == Permutations({c1, c2})
NoKinds == [c \in {} |-> "text"]
InMemory == c1 :> "bytes"

(* At most four of the five records these writers may upload: any two of    *)
(* the calls beside both windows of the batcher, or all calls beside one   *)
FewRecords == Len(posted) <= 4

(* A log store in both retention modes *)
BothModes == {[logStore |-> TRUE, strict |-> s] : s \in BOOLEAN}
StrictOptions == {[logStore |-> TRUE, strict |-> TRUE]}
=============================================================================
