------------------------------ MODULE Evidence ------------------------------
(***************************************************************************)
(* toEvidenceBundle() of packages/anchor/src/evidence.ts, called through   *)
(* the anchorer's bundle() with receipts of the batcher, and, external,    *)
(* what an auditor makes of a bundle who knows only the network's ledger.  *)
(* A record and the hash of a content stand for themselves; the signature, *)
(* which covers all of a bundle, and its wording are left out.             *)
(***************************************************************************)
EXTENDS BatcherProperties, FiniteSets

CONSTANT MaxReceipts  \* bound on the receipts a bundle is asked for

ASSUME EvidenceAssumption == MaxReceipts \in Nat

Refused == [events |-> <<>>]

Disclosures == [of : Events, content : {"nothing", "own", "other"}]

(* What a resolved promise hands to the caller, of which the bundle reads  *)
Receipt(e) ==
  [event |-> e, tx |-> receipt[e].tx, index |-> receipt[e].leaf,
   count |-> receipt[e].count, checkpoint |-> receipt[e].checkpoint]

-----------------------------------------------------------------------------
(* toEvidenceBundle()                                                      *)

CheckpointBody(r) == [tx |-> r.tx, record |-> r.checkpoint]

(* mutant: a checkpoint is only looked for in the last place *)
BugKnown(seen, body) == seen # <<>> /\ seen[Len(seen)].tx = body.tx

Known(seen, body) == \E c \in Range(seen) : c.tx = body.tx

(* The Map of the checkpoints, by transaction, in the order first seen *)
See(seen, body) == IF Known(seen, body) THEN seen ELSE Append(seen, body)

Checkpoints(receipts) ==
  LET seen[n \in 0 .. Len(receipts)] ==
        IF n = 0 THEN <<>> ELSE See(seen[n - 1], CheckpointBody(receipts[n]))
  IN seen[Len(receipts)]

(* What is disclosed of an event hashes to the content hash in its record *)
Mismatch(r, disclose) == r.event = disclose.of /\ disclose.content = "other"

EventBody(r, disclose) ==
  [event |-> r.event, tx |-> r.tx, index |-> r.index, count |-> r.count,
   content |-> IF r.event = disclose.of THEN disclose.content ELSE "nothing"]

ToEvidenceBundle(receipts, disclose) ==
  LET bodies == Checkpoints(receipts) IN
  IF receipts = <<>> \/ \E n \in DOMAIN receipts : Mismatch(receipts[n], disclose)
  THEN Refused
  ELSE [checkpoints |-> bodies,
        events |-> [n \in DOMAIN receipts |-> EventBody(receipts[n], disclose)],
        counts |-> [verified |-> Len(receipts), checkpoints |-> Len(bodies)]]

-----------------------------------------------------------------------------
(* The auditor (external)                                                  *)

(* An event is proven by the one checkpoint it names, which the network    *)
(* accepted, and which has that many leaves with the event at its index;   *)
(* a disclosed content is the event's                                      *)
EventProven(bundle, event) ==
  /\ \E c \in Range(bundle.checkpoints) :
       /\ {d \in DOMAIN bundle.checkpoints : bundle.checkpoints[d].tx = event.tx}
            = {d \in DOMAIN bundle.checkpoints : bundle.checkpoints[d] = c}
       /\ event.tx \in accepted /\ c.record = posted[event.tx]
       /\ Len(c.record.leaves) = event.count
       /\ event.index \in DOMAIN c.record.leaves /\ c.record.leaves[event.index] = event.event
  /\ event.content # "other"

(* Every event is proven, every checkpoint is there once and for an event, *)
(* and the verdict counts what the auditor counts                          *)
Verified(bundle) ==
  /\ \A n \in DOMAIN bundle.events : EventProven(bundle, bundle.events[n])
  /\ {c.tx : c \in Range(bundle.checkpoints)} = {b.tx : b \in Range(bundle.events)}
  /\ bundle.counts.verified = Len(bundle.events)
  /\ bundle.counts.checkpoints = Cardinality({b.tx : b \in Range(bundle.events)})

-----------------------------------------------------------------------------
(* bundle(): it keeps nothing, and reads nothing but what it is given *)
Bundle(events, disclose) ==
  ToEvidenceBundle([n \in DOMAIN events |-> Receipt(events[n])], disclose)

-----------------------------------------------------------------------------
(* Properties                                                              *)

(* Receipts of any windows in any order, again and again *)
Requests ==
  LET resolved == {e \in Events : promise[e] = "resolved"}
  IN UNION {[1 .. n -> resolved] : n \in 1 .. MaxReceipts}

Wrong(events, disclose) == disclose.content = "other" /\ disclose.of \in Range(events)

(* Whatever windows, failures and retention errors the receipts come from, *)
(* in whatever order and however often they are listed, the bundle proves  *)
(* each of its events to an auditor, and content that is not the event's   *)
(* is never bundled.  Receipts do not change, so it is enough to ask when  *)
(* close() has returned.                                                   *)
BundlesVerify ==
  closed /\ queue = <<>> /\ phase = "idle" =>
    \A events \in Requests, disclose \in Disclosures :
      LET bundle == Bundle(events, disclose)
      IN IF Wrong(events, disclose) THEN bundle = Refused
         ELSE /\ bundle # Refused /\ Verified(bundle)
              /\ [n \in DOMAIN bundle.events |-> bundle.events[n].event] = events
=============================================================================
