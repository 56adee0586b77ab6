--------------------------- MODULE MCFsRetention ----------------------------
(* Instances of the file-backed retention for TLC *)
EXTENDS FsRetention

Offer(i, h) == [id |-> i, hash |-> h]

(* Two events of one content, and the first one's id also reused for other *)
(* content                                                                 *)
SharingOffers == {Offer("e1", "a"), Offer("e1", "b"), Offer("e2", "a")}
=============================================================================
