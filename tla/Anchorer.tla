------------------------------ MODULE Anchorer ------------------------------
(***************************************************************************)
(* The anchorer of packages/anchor/src/anchorer.ts: concurrent anchor()    *)
(* calls and the windows of its batchers share one Store of chain heads,   *)
(* one uploader and one log store.  Reading a chain's head, uploading the  *)
(* record that links to it and setting the head are three awaits, and      *)
(* nothing orders the writers of a chain, except the windows of a batcher  *)
(* among themselves (Batcher.tla, of which a window here is the part that  *)
(* touches the chain).                                                     *)
(***************************************************************************)
EXTENDS Naturals, Sequences, FiniteSets

CONSTANTS
  Calls,          \* the calls of anchor()
  Batchers,       \* the batchers minted by batch()
  Chains,         \* the chain keys
  NoChain,        \* the input.chain of an unchained call
  ChainOf,        \* the chain key of each call and batcher
  Kind,           \* what each call is given: "text", "bytes", "stream" or "hash"
  Options,        \* the option records createAnchorer() may be given
  MaxCheckpoints  \* bound on the checkpoints a batcher uploads

Writers == Calls \cup Batchers

(* A log store is configured; onRetentionError is "skip-anchor" *)
AnchorerOptions == [logStore : BOOLEAN, strict : BOOLEAN]

ASSUME AnchorerAssumption ==
  /\ Calls \cap Batchers = {}
  /\ NoChain \notin Chains
  /\ ChainOf \in [Writers -> Chains \cup {NoChain}]
  /\ \A b \in Batchers : ChainOf[b] \in Chains
  /\ Kind \in [Calls -> {"text", "bytes", "stream", "hash"}]
  /\ Options \subseteq AnchorerOptions
  /\ MaxCheckpoints \in Nat

VARIABLES
  opts,     \* the anchorer's options
  pc,       \* the await each writer stands at
  version,  \* the contents of the caller's buffer, which the call only references
  hashed,   \* the contents content_hash was computed of
  stored,   \* the contents the log store kept under that hash
  contentStored,  \* what a call's row and receipt say of it
  prev,     \* the chain head a writer read, 0 for "GENESIS"
  tx,       \* the record it uploaded
  head,     \* the store: each chain's head
  posted,   \* the records that were uploaded; the number of one is its hash
  accepted, \* those of them the network has accepted
  heads,    \* history: the records that have been their chain's head
  rows      \* the calls whose proof row the sink has

content == <<version, hashed, stored, contentStored>>
network == <<posted, accepted>>
chain == <<head, heads>>
vars == <<opts, pc, content, prev, tx, chain, network, rows>>

Records == DOMAIN posted

Chained(w) == ChainOf[w] # NoChain

(* Bytes given in memory are retained; streams and bare hashes are not *)
Retained(c) == opts.logStore /\ Kind[c] \in {"text", "bytes"}

Init ==
  /\ opts \in Options
  /\ pc = [w \in Writers |-> "idle"]
  /\ version = [c \in Calls |-> 1]
  /\ hashed = [c \in Calls |-> 0]
  /\ stored = [c \in Calls |-> 0]
  /\ contentStored = [c \in Calls |-> "undefined"]
  /\ prev = [w \in Writers |-> 0]
  /\ tx = [w \in Writers |-> 0]
  /\ head = [k \in Chains |-> 0]
  /\ posted = <<>> /\ accepted = {} /\ heads = {}
  /\ rows = {}

Goto(w, there) == pc' = [pc EXCEPT ![w] = there]

-----------------------------------------------------------------------------
(* The caller                                                              *)

(* Neither or both of data and contentHash, a malformed hash, or a stream  *)
(* that fails while it is hashed: the call throws before it touches a thing *)
Refuse(c) ==
  /\ pc[c] = "idle"
  /\ Goto(c, "refused")
  /\ UNCHANGED <<opts, content, prev, tx, chain, network, rows>>

(* anchor() hashes its input, and stores what it retains *)
Call(c) ==
  /\ pc[c] = "idle"
  /\ hashed' = [hashed EXCEPT ![c] = version[c]]
  /\ Goto(c, IF Retained(c) THEN "store" ELSE "head")
  /\ UNCHANGED <<opts, version, stored, contentStored, prev, tx, chain, network, rows>>

(* The caller reuses its buffer, before the call or while it is under way *)
Overwrite(c) ==
  /\ Kind[c] = "bytes" /\ pc[c] \in {"idle", "store"} /\ version[c] = 1
  /\ version' = [version EXCEPT ![c] = 2]
  /\ UNCHANGED <<opts, pc, hashed, stored, contentStored, prev, tx, chain, network, rows>>

(* A batcher's next window starts when the one before it is over *)
BeginWindow(b) ==
  /\ pc[b] = "idle"
  /\ Cardinality({i \in Records : posted[i].by = b}) < MaxCheckpoints
  /\ Goto(b, "head")
  /\ UNCHANGED <<opts, content, prev, tx, chain, network, rows>>

-----------------------------------------------------------------------------
(* anchor(): the content first                                             *)

(* A string is encoded into bytes of our own; a Uint8Array stays the       *)
(* caller's, and the store copies what it holds by then                    *)
Kept(c) == IF Kind[c] = "text" THEN hashed[c] ELSE version[c]

Store(c) ==
  /\ pc[c] = "store"
  /\ stored' = [stored EXCEPT ![c] = Kept(c)]
  /\ contentStored' = [contentStored EXCEPT ![c] = "true"]
  /\ Goto(c, "head")
  /\ UNCHANGED <<opts, version, hashed, prev, tx, chain, network, rows>>

(* A strict failure throws RetentionError, a lenient one only warns *)
AfterPutFails == IF opts.strict THEN "retentionError" ELSE "head"

(* put() rejects; what the store may have kept all the same, nothing tells *)
PutFails(c) ==
  /\ pc[c] = "store"
  /\ contentStored' = [contentStored EXCEPT ![c] = "false"]
  /\ Goto(c, AfterPutFails)
  /\ UNCHANGED <<opts, version, hashed, stored, prev, tx, chain, network, rows>>

-----------------------------------------------------------------------------
(* The chain link, of a call or of a window                                *)

(* mutant: the last record of any chain is taken for the head *)
BugHeadOf(w) == Len(posted)

HeadOf(w) == IF Chained(w) THEN head[ChainOf[w]] ELSE 0

ReadHead(w) ==
  /\ pc[w] = "head"
  /\ prev' = [prev EXCEPT ![w] = HeadOf(w)]
  /\ Goto(w, "upload")
  /\ UNCHANGED <<opts, content, tx, chain, network, rows>>

(* The data item is signed, its id predicted, and it is posted, once or,   *)
(* by the uploader's retries, more often                                   *)
Upload(w) ==
  /\ pc[w] = "upload"
  /\ posted' = Append(posted, [by |-> w, chain |-> ChainOf[w], prev |-> prev[w]])
  /\ tx' = [tx EXCEPT ![w] = Len(posted) + 1]
  /\ Goto(w, "answer")
  /\ UNCHANGED <<opts, content, prev, chain, accepted, rows>>

(* The network (external) accepts what was posted, once, at any time: also *)
(* when its writer has given up                                            *)
Accept(n) ==
  /\ n \in Records \ accepted
  /\ accepted' = accepted \cup {n}
  /\ UNCHANGED <<opts, pc, content, prev, tx, chain, posted, rows>>

(* mutant: the head is set without waiting for the answer *)
BugAnswered(w) == tx[w] \in Records

(* Only an accepted record is answered with its id *)
Answered(w) == tx[w] \in accepted

(* mutant: the head is set to the id after the accepted one *)
BugHeadsAhead(w) == [k \in Chains |-> IF ChainOf[w] = k THEN tx[w] + 1 ELSE head[k]]

NewHeads(w) == [k \in Chains |-> IF ChainOf[w] = k THEN tx[w] ELSE head[k]]

(* A call moves on; a window is over for the chain, and its batcher        *)
(* forgets what it read and uploaded                                       *)
Proceed(w, there) ==
  \/ w \in Calls /\ Goto(w, there) /\ UNCHANGED <<prev, tx>>
  \/ /\ w \in Batchers
     /\ Goto(w, "idle")
     /\ prev' = [prev EXCEPT ![w] = 0]
     /\ tx' = [tx EXCEPT ![w] = 0]

(* mutant: a writer of a chain that has a head does not set it *)
BugBecomesHead(w) == Chained(w) /\ head[ChainOf[w]] = 0

BecomesHead(w) == Chained(w)

(* The answer names the predicted id; only then the head advances, also    *)
(* when the store has set it but answers with an error                     *)
SetHead(w) ==
  /\ pc[w] = "answer"
  /\ Answered(w)
  /\ IF BecomesHead(w)
     THEN head' = NewHeads(w) /\ heads' = heads \cup {tx[w]}
     ELSE UNCHANGED chain
  /\ Proceed(w, "row") \/ Proceed(w, "threw")
  /\ UNCHANGED <<opts, content, network, rows>>

(* Signing or reading the head failed (head, upload), the upload failed,   *)
(* its answer was lost or named another id, or setting the head failed     *)
(* (answer): a call throws, a window rejects its receipts, and what was    *)
(* posted may still be accepted                                            *)
Throw(w) ==
  /\ pc[w] \in {"head", "upload", "answer"}
  /\ Proceed(w, "threw")
  /\ UNCHANGED <<opts, content, chain, network, rows>>

(* The sink keeps the proof row *)
WriteRow(c) ==
  /\ pc[c] = "row"
  /\ rows' = rows \cup {c}
  /\ UNCHANGED <<opts, pc, content, prev, tx, chain, network>>

(* The row's write is over, or has failed and was warned of: the call      *)
(* returns its receipt                                                     *)
Return(c) ==
  /\ pc[c] = "row"
  /\ Goto(c, "returned")
  /\ UNCHANGED <<opts, content, prev, tx, chain, network, rows>>

-----------------------------------------------------------------------------
Next ==
  \/ \E c \in Calls : \/ Refuse(c) \/ Call(c) \/ Overwrite(c) \/ Store(c) \/ PutFails(c)
                     \/ WriteRow(c) \/ Return(c)
  \/ \E b \in Batchers : BeginWindow(b)
  \/ \E w \in Writers : ReadHead(w) \/ Upload(w) \/ SetHead(w) \/ Throw(w)
  \/ \E n \in Records : Accept(n)

Spec == Init /\ [][Next]_vars

-----------------------------------------------------------------------------
(* Properties                                                              *)

TypeOK ==
  /\ opts \in AnchorerOptions
  /\ pc \in [Writers -> {"idle", "store", "head", "upload", "answer", "row", "returned",
                         "threw", "refused", "retentionError"}]
  /\ version \in [Calls -> 1 .. 2]
  /\ hashed \in [Calls -> 0 .. 2] /\ stored \in [Calls -> 0 .. 2]
  /\ contentStored \in [Calls -> {"undefined", "true", "false"}]
  /\ posted \in Seq([by : Writers, chain : Chains \cup {NoChain}, prev : Nat])
  /\ accepted \subseteq Records /\ heads \subseteq Records
  /\ prev \in [Writers -> 0 .. Len(posted)] /\ tx \in [Writers -> 0 .. Len(posted)]
  /\ head \in [Chains -> 0 .. Len(posted)]
  /\ rows \subseteq Calls

(* However calls and windows interleave and whatever is lost, a record     *)
(* links to "GENESIS" or to an earlier record of its own chain that the    *)
(* network had accepted before it was uploaded; a record without a chain   *)
(* links to nothing and nothing links to it                                *)
LinksStayOnChain ==
  \A i \in Records : posted[i].prev # 0 =>
    /\ posted[i].chain # NoChain
    /\ posted[i].prev < i /\ posted[i].prev \in accepted
    /\ posted[posted[i].prev].chain = posted[i].chain

(* No chain's head is moved by a writer of another chain or of none, nor   *)
(* before the record it moves to was accepted                              *)
HeadsStayOnChain ==
  \A k \in Chains : head[k] # 0 => head[k] \in accepted /\ posted[head[k]].chain = k

Sole(k) == \A v, w \in Writers : ChainOf[v] = k /\ ChainOf[w] = k => v = w

(* A chain with one writer is linear whatever fails: each new head links   *)
(* to the head it replaces                                                 *)
SoleWriterLinear ==
  [][\A k \in Chains : Sole(k) /\ head'[k] # head[k] =>
       posted[head'[k]].prev = head[k]]_vars

(* The profile: "previous_hash is the previous record's payload_hash on    *)
(* that chain", here of the heads of every chain                           *)
ChainsLinear ==
  [][\A k \in Chains : head'[k] # head[k] => posted[head'[k]].prev = head[k]]_vars

Sent(c) == \E i \in Records : posted[i].by = c

(* A refused call or a RetentionError means that nothing was uploaded, so  *)
(* that nothing can be anchored later either; in strict mode what is       *)
(* uploaded with bytes was stored; a proof row or a receipt means that the *)
(* record was accepted and, if chained, has been its chain's head, and its *)
(* contentStored is true only if the store kept the content, false only in *)
(* lenient mode, and undefined just for what is never retained             *)
ReceiptsTrue ==
  \A c \in Calls :
    /\ Sent(c) /\ opts.strict /\ Retained(c) => stored[c] # 0
    /\ pc[c] \in {"refused", "retentionError"} => ~Sent(c)
    /\ c \in rows \/ pc[c] = "returned" =>
         /\ tx[c] \in accepted /\ posted[tx[c]].by = c
         /\ Chained(c) => tx[c] \in heads /\ posted[tx[c]].chain = ChainOf[c]
         /\ contentStored[c] = "true" => stored[c] # 0
         /\ contentStored[c] = "false" => ~opts.strict
         /\ (contentStored[c] = "undefined") <=> ~Retained(c)

(* The log store: "stored bytes # committed content_hash" cannot happen *)
StoredIsHashed == \A c \in Calls : stored[c] # 0 => stored[c] = hashed[c]
-----------------------------------------------------------------------------
(* The inductive invariants behind these properties, proved in             *)
(* AnchorerProofs                                                          *)

(* What a writer links to is an accepted record of its own chain, and what *)
(* it makes the head is the record it uploaded                             *)
WritersInv ==
  \A w \in Writers :
    /\ prev[w] # 0 => /\ Chained(w) /\ prev[w] \in accepted
                      /\ posted[prev[w]].chain = ChainOf[w]
    /\ pc[w] \in {"answer", "row", "returned"} => tx[w] # 0
    /\ tx[w] # 0 => posted[tx[w]].by = w /\ posted[tx[w]].chain = ChainOf[w]
    /\ pc[w] = "answer" => posted[tx[w]].prev = prev[w]

(* The head a sole writer read stands until it sets it                     *)
SoleInv ==
  \A w \in Writers : Chained(w) /\ Sole(ChainOf[w]) /\ pc[w] \in {"upload", "answer"} =>
    prev[w] = head[ChainOf[w]]

(* How far a call is tells what was stored, uploaded and made the head; in *)
(* a call that retains content, bytes come before the record               *)
CallsInv ==
  \A c \in Calls :
    /\ version[c] # 0 /\ (pc[c] \notin {"idle", "refused"} => hashed[c] # 0)
    /\ Sent(c) => pc[c] \in {"answer", "row", "returned", "threw"}
    /\ pc[c] \in {"idle", "store"} => contentStored[c] = "undefined"
    /\ pc[c] = "store" => Retained(c)
    /\ pc[c] \in {"head", "upload", "answer", "row", "returned", "threw"} =>
         /\ opts.strict /\ Retained(c) => stored[c] # 0
         /\ contentStored[c] = "true" => stored[c] # 0
         /\ contentStored[c] = "false" => ~opts.strict
         /\ (contentStored[c] = "undefined") <=> ~Retained(c)
    /\ pc[c] \in {"row", "returned"} =>
         tx[c] \in accepted /\ (Chained(c) => tx[c] \in heads)
    /\ c \in rows => pc[c] \in {"row", "returned"}
=============================================================================
