------------------------------ MODULE Batcher ------------------------------
(***************************************************************************)
(* The Merkle batcher of packages/anchor/src/batch.ts: callers add events  *)
(* synchronously, three triggers (maxEvents, maxAge, flushOnIdle) and two  *)
(* calls (flush, close) queue flushes, and the flushes run one at a time   *)
(* (flushChain), each of them anchoring the window of buffered events as   *)
(* one checkpoint and settling one receipt promise per event.              *)
(*                                                                         *)
(* An await is a point where anything else may run, so doFlush() is cut    *)
(* into one action per awaited call; phase says which call it waits for.   *)
(* A checkpoint's hash is its position among those that were uploaded, 0   *)
(* is "GENESIS"; whether and when the network accepts it is its own affair.*)
(***************************************************************************)
EXTENDS Naturals, Sequences, Functions

CONSTANTS
  Events,         \* the events callers may add, each a distinct eventId
  Bytes,          \* those for which the log store is asked to keep the bytes
  Malformed,      \* those buildEventRecord() or buildEnvelope() refuses
  Options,        \* the option records a batcher may be constructed with
  MaxFlushCalls   \* bound on the caller's calls of flush()

(* A batcher's options, 0 and FALSE standing for "undefined"; strict is    *)
(* onRetentionError = "skip-anchor"; a "sync" sink has written when the    *)
(* call returns, a "flaky" one may fail, an "async" one lands intents late *)
BatchOptions ==
  [maxEvents : Nat, maxAge : BOOLEAN, flushOnIdle : BOOLEAN,
   strict : BOOLEAN, sink : {"none", "sync", "flaky", "async"}]

ASSUME BatcherAssumption ==
  /\ Bytes \subseteq Events
  /\ Malformed \subseteq Events
  /\ Options \subseteq BatchOptions
  /\ MaxFlushCalls \in Nat

VARIABLES
  opts,        \* the constructor's options
  offered,     \* the events accepted by add(), in order
  buffer,      \* the events waiting for a flush
  windowOpen,  \* windowStart is set
  ageTimer,    \* the maxAge timer is armed
  idleTimer,   \* the flushOnIdle timer is armed
  closed,      \* close() was called
  calls,       \* how many times flush() was called by the caller
  queue,       \* flushes waiting on flushChain, each with what was offered before it
  phase,       \* the await doFlush() stands at, "idle" when none runs
  job,         \* what was offered before the running flush was asked for
  window,      \* the events the running flush took
  gated,       \* how many of them passed the retention gate
  leaves,      \* those that proceed to the checkpoint, in order
  prev,        \* the chain head the running flush read
  tx,          \* the checkpoint the running flush uploaded
  written,     \* how many of its leaves have their row and receipt
  put,         \* the log store's answer for each event
  promise,     \* each event's receipt promise
  receipt,     \* the checkpoint and leaf index a resolved promise carries
  head,        \* the store's chain head for this batcher's chain key
  posted,      \* the checkpoints that were uploaded; the number of one is its hash
  accepted,    \* those of them the network has accepted
  row,         \* the latest sink row of each event
  late,        \* intent rows of an async sink still on their way
  checkpoints, \* the checkpoints that have a sink row
  flushed      \* history: what every flush that returned was asked for

callerVars == <<opts, offered, closed, calls>>
bufferVars == <<buffer, windowOpen, ageTimer, idleTimer>>
jobVars    == <<job, window, gated, leaves, prev, tx, written>>
sinkVars   == <<row, late, checkpoints>>
vars == <<callerVars, bufferVars, queue, phase, jobVars, put, promise, receipt,
          head, posted, accepted, sinkVars, flushed>>

NoReceipt ==
  [tx |-> 0, leaf |-> 0, count |-> 0, checkpoint |-> [prev |-> 0, leaves |-> <<>>],
   contentStored |-> "none"]

(* The constructor refuses a batcher with no trigger *)
Constructible(o) == o.maxEvents > 0 \/ o.maxAge \/ o.flushOnIdle

Init ==
  /\ opts \in {o \in Options : Constructible(o)}
  /\ offered = <<>> /\ buffer = <<>> /\ queue = <<>>
  /\ windowOpen = FALSE /\ ageTimer = FALSE /\ idleTimer = FALSE /\ closed = FALSE
  /\ calls = 0
  /\ phase = "idle"
  /\ job = {} /\ window = <<>> /\ gated = 0 /\ leaves = <<>>
  /\ prev = 0 /\ tx = 0 /\ written = 0
  /\ put = [e \in Events |-> "none"]
  /\ promise = [e \in Events |-> "none"]
  /\ receipt = [e \in Events |-> NoReceipt]
  /\ head = 0 /\ posted = <<>> /\ accepted = {}
  /\ row = [e \in Events |-> "none"] /\ late = {} /\ checkpoints = {}
  /\ flushed = {}

-----------------------------------------------------------------------------
(* The sink                                                                *)

(* writeIntentSafely(): fire and forget, a failure only warns *)
WriteIntent(e) ==
  \/ /\ opts.sink \in {"none", "flaky"}
     /\ UNCHANGED <<row, late>>
  \/ /\ opts.sink \in {"sync", "flaky"}
     /\ row' = [row EXCEPT ![e] = "intent"]
     /\ UNCHANGED late
  \/ /\ opts.sink = "async"
     /\ late' = late \cup {e}
     /\ UNCHANGED row

(* writeEventSafely(): awaited, a failure only warns *)
WriteEvent(e) ==
  \/ /\ opts.sink \in {"none", "flaky"}
     /\ UNCHANGED row
  \/ /\ opts.sink # "none"
     /\ row' = [row EXCEPT ![e] = "proof"]

(* An intent row of an async sink lands; rows are upserted on the eventId *)
IntentLands(e) ==
  /\ e \in late
  /\ late' = late \ {e}
  /\ row' = [row EXCEPT ![e] = "intent"]
  /\ UNCHANGED <<callerVars, bufferVars, queue, phase, jobVars, put, promise,
                 receipt, head, posted, accepted, checkpoints, flushed>>

-----------------------------------------------------------------------------
(* The caller and the timers                                               *)

(* add() of one event: it joins the buffer and its window opens if it is   *)
(* the first; its content is on its way to the log store, its intent to    *)
(* the sink; the idle timer restarts; the event that fills the window      *)
(* queues a flush                                                          *)
Add(e) ==
  /\ ~closed
  /\ e \notin Range(offered)
  /\ offered' = Append(offered, e)
  /\ buffer' = Append(buffer, e)
  /\ promise' = [promise EXCEPT ![e] = "pending"]
  /\ put' = [put EXCEPT ![e] = IF e \in Bytes THEN "pending" ELSE "none"]
  /\ WriteIntent(e)
  /\ windowOpen' = TRUE
  /\ ageTimer' = IF windowOpen THEN ageTimer ELSE opts.maxAge
  /\ idleTimer' = opts.flushOnIdle
  /\ queue' = IF opts.maxEvents > 0 /\ Len(buffer) + 1 >= opts.maxEvents
              THEN Append(queue, Range(offered) \cup {e})
              ELSE queue
  /\ UNCHANGED <<opts, closed, calls, phase, jobVars, receipt, head, posted, accepted,
                 checkpoints, flushed>>

(* flush(): a doFlush() is chained behind those already asked for *)
QueueFlush == queue' = Append(queue, Range(offered))

Flush ==
  /\ calls < MaxFlushCalls
  /\ calls' = calls + 1
  /\ QueueFlush
  /\ UNCHANGED <<opts, offered, closed, bufferVars, phase, jobVars, put,
                 promise, receipt, head, posted, accepted, sinkVars, flushed>>

Close ==
  /\ ~closed
  /\ closed' = TRUE
  /\ QueueFlush
  /\ UNCHANGED <<opts, offered, calls, bufferVars, phase, jobVars, put,
                 promise, receipt, head, posted, accepted, sinkVars, flushed>>

AgeFires ==
  /\ ageTimer
  /\ ageTimer' = FALSE
  /\ QueueFlush
  /\ UNCHANGED <<callerVars, buffer, windowOpen, idleTimer, phase, jobVars, put,
                 promise, receipt, head, posted, accepted, sinkVars, flushed>>

IdleFires ==
  /\ idleTimer
  /\ idleTimer' = FALSE
  /\ QueueFlush
  /\ UNCHANGED <<callerVars, buffer, windowOpen, ageTimer, phase, jobVars, put,
                 promise, receipt, head, posted, accepted, sinkVars, flushed>>

(* runPut() never rejects: the log store's answer is a value *)
PutSettles(e) ==
  /\ put[e] = "pending"
  /\ \E answer \in {"ok", "failed"} : put' = [put EXCEPT ![e] = answer]
  /\ UNCHANGED <<callerVars, bufferVars, queue, phase, jobVars, promise,
                 receipt, head, posted, accepted, sinkVars, flushed>>

-----------------------------------------------------------------------------
(* doFlush()                                                               *)

(* mutant: doFlush() forgets windowStart = null *)
BugClearTimers == ageTimer' = FALSE /\ idleTimer' = FALSE /\ UNCHANGED windowOpen

ClearTimers == ageTimer' = FALSE /\ idleTimer' = FALSE /\ windowOpen' = FALSE

(* mutant: the position in the leaves survives the window *)
BugReturn ==
  /\ phase' = "idle"
  /\ flushed' = flushed \cup job
  /\ job' = {} /\ window' = <<>> /\ gated' = 0 /\ leaves' = <<>>
  /\ prev' = 0 /\ tx' = 0 /\ UNCHANGED written

(* doFlush() returns and the promise flush() gave out resolves *)
Return ==
  /\ phase' = "idle"
  /\ flushed' = flushed \cup job
  /\ job' = {} /\ window' = <<>> /\ gated' = 0 /\ leaves' = <<>>
  /\ prev' = 0 /\ tx' = 0 /\ written' = 0

(* mutant: only the leaves are rejected, not the whole window *)
BugReject(S, reason) ==
  promise' = [e \in Events |-> IF e \in S \cap Range(leaves) /\ promise[e] = "pending"
                               THEN reason ELSE promise[e]]

(* A promise settles once: rejecting a settled one does nothing *)
Reject(S, reason) ==
  promise' = [e \in Events |-> IF e \in S /\ promise[e] = "pending"
                               THEN reason ELSE promise[e]]

FlushEmpty ==
  /\ phase = "idle" /\ queue # <<>> /\ buffer = <<>>
  /\ ClearTimers
  /\ queue' = Tail(queue)
  /\ flushed' = flushed \cup Head(queue)
  /\ UNCHANGED <<callerVars, buffer, phase, jobVars, put, promise, receipt,
                 head, posted, accepted, sinkVars>>

TakeWindow ==
  /\ phase = "idle" /\ queue # <<>> /\ buffer # <<>>
  /\ window' = buffer
  /\ buffer' = <<>>
  /\ ClearTimers
  /\ job' = Head(queue)
  /\ queue' = Tail(queue)
  /\ phase' = "gate"
  /\ UNCHANGED <<callerVars, gated, leaves, prev, tx, written, put, promise,
                 receipt, head, posted, accepted, sinkVars, flushed>>

(* A strict failure of its put() keeps an event out of the checkpoint *)
Unstored(e) == opts.strict /\ put[e] = "failed"

(* mutants: strict mode rejects the receipt and anchors all the same; the  *)
(* leaves are collected newest first                                       *)
BugKeptUnstored(e) == Append(leaves, e)
BugKept(e) == IF Unstored(e) THEN leaves ELSE <<e>> \o leaves

Kept(e) == IF Unstored(e) THEN leaves ELSE Append(leaves, e)

(* Step 0, one event: its put() has answered *)
Gate ==
  LET e == window[gated + 1] IN
  /\ phase = "gate" /\ gated + 1 < Len(window)
  /\ put[e] # "pending"
  /\ gated' = gated + 1
  /\ leaves' = Kept(e)
  /\ UNCHANGED <<callerVars, bufferVars, queue, phase, job, window, prev, tx,
                 written, put, promise, receipt, head, posted, accepted, sinkVars,
                 flushed>>

(* Step 0, the last event: the strict failures' receipts are rejected, and *)
(* when no event is left there is nothing to anchor                        *)
GateLast ==
  LET e == window[gated + 1] IN
  /\ phase = "gate" /\ gated + 1 = Len(window)
  /\ put[e] # "pending"
  /\ Reject({x \in Range(window) : Unstored(x)}, "retention")
  /\ IF Kept(e) = <<>>
     THEN Return
     ELSE /\ phase' = "seal"
          /\ gated' = gated + 1
          /\ leaves' = Kept(e)
          /\ UNCHANGED <<job, window, prev, tx, written, flushed>>
  /\ UNCHANGED <<callerVars, bufferVars, queue, put, receipt, head, posted, accepted,
                 sinkVars>>

(* Step 1: a signed envelope and a leaf hash for every event that proceeds *)
Seal ==
  /\ phase = "seal"
  /\ Range(leaves) \cap Malformed = {}
  /\ phase' = "head"
  /\ UNCHANGED <<callerVars, bufferVars, queue, jobVars, put, promise, receipt,
                 head, posted, accepted, sinkVars, flushed>>

(* Step 2: the checkpoint record links to the chain head the store returns *)
ReadHead ==
  /\ phase = "head"
  /\ prev' = head
  /\ phase' = "upload"
  /\ UNCHANGED <<callerVars, bufferVars, queue, job, window, gated, leaves, tx,
                 written, put, promise, receipt, head, posted, accepted, sinkVars,
                 flushed>>

(* mutant: the chain head is never read *)
BugCheckpointGenesis == [prev |-> 0, leaves |-> leaves]

(* The checkpoint record: its link and the leaves its Merkle root commits to *)
Checkpoint == [prev |-> prev, leaves |-> leaves]

(* Step 3: the checkpoint is posted, once or, by the uploader's retries,   *)
(* more often                                                              *)
Upload ==
  /\ phase = "upload"
  /\ posted' = Append(posted, Checkpoint)
  /\ tx' = Len(posted) + 1
  /\ phase' = "setHead"
  /\ UNCHANGED <<callerVars, bufferVars, queue, job, window, gated, leaves, prev,
                 written, put, promise, receipt, head, accepted, sinkVars, flushed>>

(* The network (external) accepts what was posted, once, at any time: also *)
(* when the upload has given up, and its window was answered long ago      *)
Accept(n) ==
  /\ n \in DOMAIN posted \ accepted
  /\ accepted' = accepted \cup {n}
  /\ UNCHANGED <<callerVars, bufferVars, queue, phase, jobVars, put, promise,
                 receipt, head, posted, sinkVars, flushed>>

(* mutant: the head is set without waiting for the answer *)
BugAnswered == tx \in DOMAIN posted

(* Only an accepted checkpoint is answered with its id *)
Answered == tx \in accepted

(* The answer has come, and the store sets the head *)
SetHead ==
  /\ phase = "setHead"
  /\ Answered
  /\ head' = tx
  /\ phase' = "checkpointRow"
  /\ UNCHANGED <<callerVars, bufferVars, queue, jobVars, put, promise, receipt,
                 posted, accepted, sinkVars, flushed>>

(* Step 4 *)
WriteCheckpoint ==
  /\ phase = "checkpointRow"
  /\ \/ opts.sink \in {"none", "flaky"} /\ UNCHANGED checkpoints
     \/ opts.sink # "none" /\ checkpoints' = checkpoints \cup {tx}
  /\ phase' = "eventRows"
  /\ UNCHANGED <<callerVars, bufferVars, queue, jobVars, put, promise, receipt,
                 head, posted, accepted, row, late, flushed>>

(* Step 5, one leaf: its proof row is written, or its failure warned of    *)
WriteRow ==
  /\ phase = "eventRows"
  /\ WriteEvent(leaves[written + 1])
  /\ phase' = "receipt"
  /\ UNCHANGED <<callerVars, bufferVars, queue, jobVars, put, promise, receipt, head,
                 posted, accepted, late, checkpoints, flushed>>

(* mutant: contentStored is looked up by the leaf's place in the window *)
BugContentStored(n) == put[window[n]]

ContentStored(n) == put[leaves[n]]

(* What the flush has in hand for its n-th leaf *)
ReceiptFor(n) ==
  [tx |-> tx, leaf |-> n, count |-> Len(leaves), checkpoint |-> Checkpoint,
   contentStored |-> ContentStored(n)]

(* mutant: the receipt goes out before its row *)
BugRowWritten == phase \in {"eventRows", "receipt"}

RowWritten == phase = "receipt"

(* The row's write is over: the leaf's receipt resolves *)
Resolve ==
  LET e == leaves[written + 1] IN
  /\ RowWritten
  /\ promise' = [promise EXCEPT ![e] = "resolved"]
  /\ receipt' = [receipt EXCEPT ![e] = ReceiptFor(written + 1)]
  /\ IF written + 1 = Len(leaves)
     THEN Return
     ELSE /\ phase' = "eventRows"
          /\ written' = written + 1
          /\ UNCHANGED <<job, window, gated, leaves, prev, tx, flushed>>
  /\ UNCHANGED <<callerVars, bufferVars, queue, put, head, posted, accepted, sinkVars>>

(* mutant: a failed window is tried again until it succeeds *)
BugThrow ==
  /\ phase \in {"seal", "head", "upload", "setHead"}
  /\ phase' = "seal" /\ tx' = 0
  /\ UNCHANGED <<callerVars, bufferVars, queue, job, window, gated, leaves, prev,
                 written, put, promise, receipt, head, posted, accepted, sinkVars,
                 flushed>>

(* The catch: a malformed event or the signer (seal), the store or the     *)
(* signer (head), the wallet (upload), or the upload failed, its answer    *)
(* was lost or named another id, or the store failed to set the head       *)
(* (setHead); a checkpoint that was posted may still be accepted           *)
Throw ==
  /\ phase \in {"seal", "head", "upload", "setHead"}
  /\ Reject(Range(window), "failed")
  /\ Return
  /\ UNCHANGED <<callerVars, bufferVars, queue, put, receipt, head, posted, accepted,
                 sinkVars>>

(* The store set the head but its call was answered with an error *)
SetHeadThrow ==
  /\ phase = "setHead"
  /\ Answered
  /\ head' = tx
  /\ Reject(Range(window), "failed")
  /\ Return
  /\ UNCHANGED <<callerVars, bufferVars, queue, put, receipt, posted, accepted,
                 sinkVars>>

-----------------------------------------------------------------------------
DoFlush ==
  \/ FlushEmpty \/ TakeWindow \/ Gate \/ GateLast \/ Seal \/ ReadHead
  \/ Upload \/ SetHead \/ WriteCheckpoint \/ WriteRow \/ Resolve \/ Throw \/ SetHeadThrow

Next ==
  \/ \E e \in Events : Add(e) \/ PutSettles(e) \/ IntentLands(e)
  \/ Flush \/ Close \/ AgeFires \/ IdleFires
  \/ \E n \in DOMAIN posted : Accept(n)
  \/ DoFlush

Spec == Init /\ [][Next]_vars

(* The event loop runs what is ready, timers fire, and every call to the   *)
(* log store, the signer, the store, the uploader and the sink answers:    *)
(* doFlush() awaits them without a timeout of its own                      *)
Fairness ==
  /\ WF_vars(DoFlush)
  /\ WF_vars(AgeFires)
  /\ WF_vars(IdleFires)
  /\ \A e \in Events : WF_vars(PutSettles(e))

FairSpec == Spec /\ Fairness
=============================================================================
