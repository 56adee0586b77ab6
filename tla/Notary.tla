------------------------------- MODULE Notary -------------------------------
(***************************************************************************)
(* What a batch promises its caller, whatever its windows, timers and      *)
(* failures: an event offered is answered at most once, with a receipt     *)
(* only if it is proven on the ledger.  An event whose anchoring failed    *)
(* may be proven all the same, later too, as the network may accept what   *)
(* an upload gave up on; one that was dropped never is, and none is twice. *)
(***************************************************************************)
CONSTANTS Events
VARIABLES
  status,  \* "none", then "pending", then "receipted", "failed" or "dropped" for good
  proven   \* the events a checkpoint on the ledger commits to

vars == <<status, proven>>

Pending == {e \in Events : status[e] = "pending"}
Failed == {e \in Events : status[e] = "failed"}

Init == status = [e \in Events |-> "none"] /\ proven = {}

Offer(e) ==
  /\ status[e] = "none"
  /\ status' = [status EXCEPT ![e] = "pending"]
  /\ UNCHANGED proven

(* One checkpoint proves the events of a window at once *)
Prove ==
  /\ \E S \in SUBSET ((Pending \cup Failed) \ proven) : S # {} /\ proven' = proven \cup S
  /\ UNCHANGED status

Receipt(e) ==
  /\ e \in Pending \cap proven
  /\ status' = [status EXCEPT ![e] = "receipted"]
  /\ UNCHANGED proven

Answer(S, answer) ==
  /\ status' = [e \in Events |-> IF e \in S THEN answer ELSE status[e]]
  /\ UNCHANGED proven

(* Proven or not: what is known is that the answer was lost *)
Fail == \E S \in SUBSET Pending : Answer(S, "failed")

(* The content was not stored, and strict mode does not anchor it *)
Drop == \E S \in SUBSET (Pending \ proven) : Answer(S, "dropped")

Next == Prove \/ Fail \/ Drop \/ \E e \in Events : Offer(e) \/ Receipt(e)

Spec == Init /\ [][Next]_vars
=============================================================================
