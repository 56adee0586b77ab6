------------------------- MODULE BatcherProperties --------------------------
(***************************************************************************)
(* What the batcher of Batcher.tla must guarantee: to its callers (every   *)
(* event is answered, an awaited flush has answered all that came before   *)
(* it), to auditors (receipts, chain and retention trace say the truth).   *)
(***************************************************************************)
EXTENDS Batcher, FiniteSets

Positions == DOMAIN posted

(* The events the uploaded checkpoints commit to, and those of the         *)
(* checkpoints the network accepted                                        *)
Posted == UNION {Range(posted[i].leaves) : i \in Positions}
Anchored == UNION {Range(posted[i].leaves) : i \in accepted}

Settled == {e \in Events : promise[e] \in {"resolved", "retention", "failed"}}

CallerOK ==
  /\ opts \in BatchOptions
  /\ offered \in Seq(Events) /\ buffer \in Seq(Events)
  /\ windowOpen \in BOOLEAN /\ closed \in BOOLEAN
  /\ ageTimer \in BOOLEAN /\ idleTimer \in BOOLEAN
  /\ calls \in Nat
  /\ queue \in Seq(SUBSET Events)

FlushOK ==
  /\ phase \in {"idle", "gate", "seal", "head", "upload", "setHead",
                "checkpointRow", "eventRows", "receipt"}
  /\ job \subseteq Events /\ flushed \subseteq Events
  /\ window \in Seq(Events) /\ leaves \in Seq(Events)
  /\ (phase = "idle") <=> (window = <<>>)
  /\ phase = "idle" => leaves = <<>>
  /\ phase \notin {"idle", "gate"} => leaves # <<>>
  /\ gated \in 0 .. Len(window) /\ (phase = "gate" => gated < Len(window))
  /\ written \in 0 .. Len(leaves)
  /\ IF phase \in {"eventRows", "receipt"} THEN written < Len(leaves) ELSE written = 0

EventsOK ==
  /\ put \in [Events -> {"none", "pending", "ok", "failed"}]
  /\ promise \in [Events -> {"none", "pending", "resolved", "retention", "failed"}]
  /\ receipt \in [Events -> [tx : Nat, leaf : Nat, count : Nat,
                             checkpoint : [prev : Nat, leaves : Seq(Events)],
                             contentStored : {"none", "pending", "ok", "failed"}]]
  /\ row \in [Events -> {"none", "intent", "proof"}]
  /\ late \subseteq Events

ChainOK ==
  /\ posted \in Seq([prev : Nat, leaves : Seq(Events)])
  /\ accepted \subseteq Positions
  /\ head \in 0 .. Len(posted) /\ prev \in 0 .. Len(posted) /\ tx \in 0 .. Len(posted)
  /\ (tx # 0) <=> (phase \in {"setHead", "checkpointRow", "eventRows", "receipt"})
  /\ checkpoints \subseteq Positions

(* The type invariant: the shape of every variable, and how the running    *)
(* flush's registers relate to its phase                                   *)
TypeOK == CallerOK /\ FlushOK /\ EventsOK /\ ChainOK

-----------------------------------------------------------------------------
(* Safety                                                                  *)

(* When flush() or close() returns, every event added before the call has  *)
(* its receipt or its error, also when other flushes were queued ahead,    *)
(* the window was taken by one of them, or it failed halfway: the          *)
(* contract short-lived scripts rely on before they exit                   *)
FlushedSettled == flushed \subseteq Settled

(* No buffered event is forgotten: unless a flush is already queued, every *)
(* configured trigger is still going to fire for the buffer as it stands,  *)
(* whatever flush cleared the timers or emptied the buffer under it        *)
TriggersHold ==
  buffer # <<>> =>
    \/ queue # <<>>
    \/ /\ opts.maxAge => ageTimer
       /\ opts.flushOnIdle => idleTimer
       /\ opts.maxEvents > 0 => Len(buffer) < opts.maxEvents
       /\ ~closed

(* A receipt says the truth: the checkpoint it names was accepted by the   *)
(* network, is the one it carries, and holds the event at the leaf index   *)
(* and in the leaf count it names; contentStored is the answer the event's *)
(* own put() got, whichever other events of its window were kept out       *)
ReceiptSound ==
  \A e \in Events : promise[e] = "resolved" =>
    LET r == receipt[e] IN
    /\ r.tx \in accepted /\ r.checkpoint = posted[r.tx]
    /\ r.count = Len(posted[r.tx].leaves)
    /\ r.leaf \in DOMAIN posted[r.tx].leaves /\ posted[r.tx].leaves[r.leaf] = e
    /\ r.contentStored = put[e]

(* Content first: nothing is uploaded while its put() is under way, in     *)
(* strict mode nothing whose put() failed is uploaded, and a               *)
(* RetentionError is only ever given for an event that was not, so that it *)
(* can never be anchored later                                             *)
RetentionGate ==
  /\ \A e \in Posted : put[e] # "pending" /\ ~Unstored(e)
  /\ \A e \in Events : promise[e] = "retention" => Unstored(e) /\ e \notin Posted

(* Event a was added before event b *)
Follows(a, b) == \E k, l \in DOMAIN offered : k < l /\ offered[k] = a /\ offered[l] = b

InOrder(s) == \A i, j \in DOMAIN s : i < j => Follows(s[i], s[j])

(* The leaf a receipt names comes before that of another receipt *)
Before(r, s) == r.tx < s.tx \/ (r.tx = s.tx /\ r.leaf < s.leaf)

(* Chain and receipts keep the order of the add() calls, whenever the      *)
(* network accepts a checkpoint, however many windows fail between two     *)
(* others and whatever the gate kept out: the leaves of a checkpoint are   *)
(* in order, it only links to a checkpoint of earlier events, and receipts *)
(* are ordered like their events; and no event is in two checkpoints, so   *)
(* that none is anchored twice, not even by one that is accepted late      *)
ChainKeepsOrder ==
  /\ \A n \in Positions :
       /\ InOrder(posted[n].leaves)
       /\ posted[n].prev # 0 =>
            \A a \in Range(posted[posted[n].prev].leaves), b \in Range(posted[n].leaves) :
              Follows(a, b)
       /\ \A m \in Positions \ {n} : Range(posted[n].leaves) \cap Range(posted[m].leaves) = {}
  /\ \A a, b \in Events :
       promise[a] = "resolved" /\ promise[b] = "resolved" /\ Follows(a, b) =>
         Before(receipt[a], receipt[b])

(* With a sink that does not fail, the rows without a proof are the        *)
(* offered events that have no receipt: pending, strict failures and       *)
(* failed windows are enumerable, and nothing else is.  No receipt is      *)
(* given out before its row, and at most one row is ahead of its receipt,  *)
(* that of the leaf whose write is awaited                                 *)
RecoveryIndex ==
  opts.sink = "sync" =>
    \A e \in Events :
      /\ (row[e] = "proof") <=>
           (promise[e] = "resolved" \/ (phase = "receipt" /\ e = leaves[written + 1]))
      /\ (row[e] = "none") <=> (promise[e] = "none")

(* A set of checkpoints that the links do not lead out of *)
Backward(S) == \A n \in S : posted[n].prev \in S \cup {0}

(* The checkpoints the chain head leads back to: those of every such set   *)
(* that has the head                                                       *)
Chain ==
  {n \in Positions : \A S \in SUBSET Positions : head \in S \cup {0} /\ Backward(S) => n \in S}

(* Every receipt's checkpoint can be reached from the chain head, so the   *)
(* published chain never drops a checkpoint some caller holds a receipt    *)
(* for, whatever was lost on the way of other windows; and all it leads    *)
(* back to was accepted, so that a failed upload never burns a link        *)
ReceiptsOnChain ==
  /\ \A e \in Events : promise[e] = "resolved" => receipt[e].tx \in Chain
  /\ Chain \subseteq accepted

-----------------------------------------------------------------------------
(* Action properties                                                       *)

(* The chain head moves only to an accepted checkpoint that links to the   *)
(* head it replaces: a failed upload burns no link and skips none          *)
HeadAdvances ==
  [][head' # head => head' \in accepted /\ posted[head'].prev = head]_vars

-----------------------------------------------------------------------------
(* Liveness                                                                *)

(* With a timer configured, or once the batcher is closed, every event     *)
(* added gets its answer, whatever fails                                   *)
EverySettles ==
  \A e \in Events :
    (promise[e] = "pending" /\ (opts.maxAge \/ opts.flushOnIdle \/ closed))
      ~> promise[e] # "pending"

(* close() returns: every flush asked for before and by it ends *)
CloseReturns == closed ~> (queue = <<>> /\ phase = "idle")

-----------------------------------------------------------------------------
(* The inductive invariants behind these properties, proved in             *)
(* BatcherProofs: first the part each property needs of the batcher        *)

Injective(s) == \A i, j \in DOMAIN s : s[i] = s[j] => i = j

(* The timers guard exactly the window that is open *)
TriggersInv == (windowOpen <=> buffer # <<>>) /\ TriggersHold

(* The uploaded checkpoint is the one the running flush built, the head it *)
(* links to has not moved since it was read, and it was accepted once the  *)
(* head moves to it                                                        *)
LinkInv ==
  /\ phase \in {"setHead", "checkpointRow", "eventRows", "receipt"} => posted[tx] = Checkpoint
  /\ phase \in {"checkpointRow", "eventRows", "receipt"} => tx \in accepted
  /\ phase \in {"upload", "setHead"} => prev = head

(* Where the offered events are: each in the buffer or the window, still   *)
(* unanswered, or settled; a queued flush only covers offered events       *)
PlaceInv ==
  /\ Range(offered) = {e \in Events : promise[e] # "none"}
  /\ Range(offered) \subseteq Settled \cup Range(window) \cup Range(buffer)
  /\ job \subseteq Settled \cup Range(window)
  /\ \A i \in DOMAIN queue : queue[i] \subseteq Range(offered)
  /\ flushed \subseteq Settled
  /\ Injective(buffer) /\ Injective(window) /\ Range(buffer) \cap Range(window) = {}
  /\ \A e \in Range(buffer) : promise[e] = "pending"
  /\ phase = "gate" => \A e \in Range(window) : promise[e] = "pending"

(* What the gate has done: the leaves are distinct events of the window    *)
(* that are stored, and what it kept out is unstored; past the gate, every *)
(* event of the window is settled or a leaf, the leaves after written are  *)
(* unanswered and those up to it are resolved                              *)
GateInv ==
  /\ Injective(leaves)
  /\ \A e \in Range(leaves) : put[e] # "pending" /\ ~Unstored(e)
  /\ \A i \in DOMAIN leaves : \E j \in 1 .. gated : leaves[i] = window[j]
  /\ \A j \in 1 .. gated : window[j] \in Range(leaves) \/ Unstored(window[j])
  /\ phase \notin {"idle", "gate"} =>
       /\ Range(window) \subseteq Settled \cup Range(leaves)
       /\ \A i \in 1 .. written : promise[leaves[i]] = "resolved"
       /\ \A i \in written + 1 .. Len(leaves) : promise[leaves[i]] = "pending"

(* What was uploaded: stored events that were offered, none of them in the *)
(* buffer or in a window that is not uploaded yet                          *)
LedgerInv ==
  /\ \A e \in Posted : put[e] # "pending" /\ ~Unstored(e) /\ promise[e] # "none"
  /\ Posted \cap Range(buffer) = {}
  /\ phase \in {"gate", "seal", "head", "upload"} => Posted \cap Range(window) = {}
  /\ \A e \in Events : promise[e] = "retention" => Unstored(e)

(* Checkpoints are uploaded, and hold their leaves, in the order of add()  *)
PostsInOrder ==
  \A i, j \in Positions :
    \A a \in DOMAIN posted[i].leaves, b \in DOMAIN posted[j].leaves :
      i < j \/ (i = j /\ a < b) => Follows(posted[i].leaves[a], posted[j].leaves[b])

(* The checkpoints, the window while it is not uploaded yet, and the       *)
(* buffer hold events of one order, which the leaves keep                  *)
OrderInv ==
  /\ PostsInOrder
  /\ InOrder(window) /\ InOrder(leaves) /\ InOrder(buffer)
  /\ \A a \in Range(window) \cup Posted, b \in Range(buffer) : Follows(a, b)
  /\ phase \in {"gate", "seal", "head", "upload"} =>
       \A a \in Posted, b \in Range(window) : Follows(a, b)

(* No event is offered twice and no checkpoint is empty, so that there are *)
(* never more checkpoints than events                                      *)
CountInv == Injective(offered) /\ \A i \in Positions : posted[i].leaves # <<>>

(* Links lead back to what was uploaded before and accepted, and a flush   *)
(* that is giving out receipts has made its checkpoint the head            *)
ReachInv ==
  /\ \A n \in Positions : posted[n].prev \in accepted \cup {0} /\ posted[n].prev < n
  /\ head \in accepted \cup {0} /\ prev \in accepted \cup {0}
  /\ phase \in {"checkpointRow", "eventRows", "receipt"} => head = tx
  /\ ReceiptsOnChain

(* The recovery index, and that an in-order sink has no intent on its way  *)
RecoveryInv == RecoveryIndex /\ (opts.sink # "async" => late = {})

-----------------------------------------------------------------------------
(* The batcher implements the notary                                       *)

NotaryStatus ==
  [e \in Events |-> CASE promise[e] = "resolved" -> "receipted"
                      [] promise[e] = "retention" -> "dropped"
                      [] OTHER -> promise[e]]

N == INSTANCE Notary WITH status <- NotaryStatus, proven <- Anchored

(* Each event is answered at most once, a receipt is only given for an     *)
(* event on the ledger, an event dropped for its retention never gets      *)
(* there, also later, and none gets there twice                            *)
ImplementsNotary == N!Spec

-----------------------------------------------------------------------------
(* A window of the batcher is a window as the anchorer sees it             *)

(* One await of the anchorer's writer stands for several phases: nothing   *)
(* before the head is read or after it is set concerns the chain           *)
WriterPc ==
  CASE phase \in {"seal", "head"} -> "head"
    [] phase = "upload" -> "upload"
    [] phase = "setHead" -> "answer"
    [] OTHER -> "idle"

(* What the running flush read and uploaded, as long as the chain needs it *)
WriterPrev == IF phase \in {"upload", "setHead"} THEN prev ELSE 0
WriterTx == IF phase = "setHead" THEN tx ELSE 0

A ==
  INSTANCE Anchorer
  WITH Calls <- {}, Batchers <- {"batcher"}, Chains <- {"chain"}, NoChain <- "none",
       ChainOf <- [w \in {"batcher"} |-> "chain"],
       Kind <- [c \in {} |-> "hash"],
       Options <- [logStore : {TRUE}, strict : BOOLEAN],
       MaxCheckpoints <- Cardinality(Events),
       opts <- [logStore |-> TRUE, strict |-> opts.strict],
       pc <- [w \in {"batcher"} |-> WriterPc],
       version <- [c \in {} |-> 1], hashed <- [c \in {} |-> 0], stored <- [c \in {} |-> 0],
       contentStored <- [c \in {} |-> "undefined"],
       prev <- [w \in {"batcher"} |-> WriterPrev],
       tx <- [w \in {"batcher"} |-> WriterTx],
       head <- [k \in {"chain"} |-> head],
       posted <- [i \in Positions |->
                   [by |-> "batcher", chain |-> "chain", prev |-> posted[i].prev]],
       heads <- Chain, rows <- {}

(* To the chain, the store and the network a batcher is what Anchorer.tla  *)
(* takes it for: one writer at a time that reads the head, uploads a       *)
(* checkpoint that links to it and then sets the head to it, or gives up;  *)
(* and it begins no window once there are as many checkpoints as events; what  *)
(* has been its head is what its head leads back to                        *)
ImplementsAnchorer == A!Spec
=============================================================================
