# A verification development of ar-io-anchor

TLA+ models of the parts of `packages/*` that keep state across awaits, timers,
answers of the network and crashes; TLC runs on small instances; TLAPS proofs for every value
of the constants. Paths below are relative to the repository's root.

## 1. The system

ar-io-anchor commits application events to Arweave: the hash of each event is signed, wrapped in
an ANS-104 data item and uploaded through Turbo, alone or as a leaf of a Merkle checkpoint. The
content can be retained in a log store and the proofs in a sink.

| Component | State it keeps | Operations | Talks to |
|---|---|---|---|
| Batcher, `packages/anchor/src/batch.ts` | buffer, window start, two timers, `closed`, the chain of queued flushes, one receipt promise per event | `add`, `flush`, `close`, `doFlush`, timers | log store, sink, signer, store, uploader (through the anchorer's context) |
| Anchorer, `anchorer.ts` | its options, its batchers | `anchor`, `batch`, `bundle`, `close` | the same |
| TurboUploader, `turbo.ts` | `maxRetries`, per call the attempt | `upload` | the Turbo endpoint (external) |
| Sinks, `sink.ts` | `FsSink`: one JSONL file per day or anchorer | `writeIntent`, `writeEvent`, `writeCheckpoint`, `read` | the disk |
| Log stores, `logstore.ts` | `FsLogStore`: `content/<hash>` and `events/<id>` files | `put`, `get`, `runPut` | the disk |
| Store, `store.ts` | the head of each chain key | `getHead`, `setHead` | memory |
| Vercel AI middleware, `packages/vercel/src/index.ts` | `#chains`, an LRU map of chain key to sequence number and last event | `wrapGenerate`, `wrapStream`, `emit`, `flush`, `close` | a batcher |
| LangChain callbacks, `packages/langchain/src/index.ts` | run tree maps, chains per root run | 10 callbacks, `flush`, `close` | a batcher |
| S3 wrapper, `packages/s3/src/index.ts` | objects and sidecars | `putObject` | S3, an anchorer |
| Evidence, `evidence.ts` | none | `toEvidenceBundle` | receipts in, a signed bundle out; an auditor reads it |
| Data items, `dataitem.ts`, `tags.ts`, `avro.ts`, `deephash.ts` | none | `buildTags`, `encodeAvroTags`, `buildSignedDataItem`, `txIdFromDataItem` | a wallet; the network and its readers |
| Records, envelopes, signers, errors | none | pure functions | – |

How they interact: everything runs on one event loop, so a step between two awaits is atomic and
everything else may run at an await. A caller adds events to a batcher synchronously and gets a
promise; `maxEvents`, `maxAge`, `flushOnIdle`, `flush()` and `close()` each chain one `doFlush()`
behind the earlier ones; a `doFlush()` awaits, in this order, the content's `put()` answers, the
signatures, the chain head, the upload, `setHead()`, the checkpoint row and the event rows.
Single-shot `anchor()` calls go the same way without any queue, so several writers of one chain
key race between reading and setting its head. The file-backed log store and sink are written
synchronously inside these steps and are what is left after a crash.

What is hard, and what must hold of each component:

* **Batcher** – three triggers and two calls race with a flush that is under way; timers are
  cleared by flushes that did not start them; in a window some puts fail, some events are
  malformed, the upload or its answer may be lost, and a checkpoint whose upload gave up may be
  accepted long after. It must answer every event, keep windows and
  links in order, put nothing on the network before its bytes are stored (in strict mode,
  nothing that failed to be), and give out only receipts that are true.
* **Anchorer** – writers of a chain interleave. A link must stay on its chain, a chain with one
  writer must be linear, and errors, rows and receipts must say what happened.
* **TurboUploader** – answers are lost, late, garbled or those of another item. Retries must stop
  when they should and "anchored" must mean accepted.
* **Retention** – a crash can cut any file write. What a proof row says must stay true, a crash
  must cost at most the row being written, and everything accepted must be found in the trace.
* **Vercel middleware** – interleaved calls share chains, events are opted out, chains are
  evicted, streams end in five ways. Chains must have no gap and calls at most one end.
* **LangChain** – the runs of a tree report in any order and chains are released at the root's
  end, while branches may outlive it. Events must name their root and link on its chain, and the
  maps must be emptied.
* **S3** – object, anchor and sidecar are three writes that interleave with those of another put
  of the key, or of a key that is the other's sidecar, and the bucket may apply a request after the
  client has given up on it. A sidecar must name an anchored record of a stored object, and
  a put that nothing disturbed must leave object and sidecar of one content.
* **Evidence** – receipts of several windows, in any order and repeated, share checkpoints by
  reference. Each event must be provable from the bundle and the network alone, and content that
  is not the event's must not get in.
* **Data items** – lengths, counts and the signature type have different forms in the layout, in
  Avro and in the deep hash. What is uploaded must read back and verify, for either type of wallet,
  and its id must be the one the network gives it.

`PROJECT.json` lists the hazards line by line, with the properties that would catch each.

## 2. Plan

Done, in this order, the most important behaviour first:

1. `Batcher`, `BatcherProperties`; the abstract specification `Notary`; their proofs.
2. `Anchorer` (concurrent writers of shared chains) and its proofs.
3. `TurboUploader` (retries and answers), `FsRetention` (disk and crashes), and their proofs.
4. `VercelMiddleware` and `LangchainRuns`; the abstract `EventChains` that both implement; the
   proofs of all three.
5. `AnchoredS3`, composed with `Anchorer`, and its proofs.
6. `Evidence`, on top of `Batcher`; `DataItem`, under `TurboUploader`.

7. That a batcher is what `Anchorer` takes it for, with the proof.

Left:

8. `record.ts` and `envelope.ts` as operators: what they refuse, and that what is signed is what is sent.

## 3. The modules

### Batcher.tla, BatcherProperties.tla, Notary.tla

`Batcher` is `batch.ts` with one action per synchronous stretch of code. `buffer`, `windowOpen`
(`windowStart !== null`), `ageTimer`, `idleTimer`, `closed` are the class's fields; `queue` is
`flushChain`, each entry remembering what had been offered when it was asked for, so that
`flushed` can say what a flush that returned owes its caller. `phase` names the await at which
`doFlush()` stands and `job`, `window`, `gated`, `leaves`, `prev`, `tx`, `written` are its locals.
`posted` holds the checkpoints that were uploaded, in that order, and `accepted` those of them that are on
the network's ledger: the network (external) accepts a posted one at any time or never, also after
the uploader gave up on it and the window's receipts were rejected, as `TurboUploader` has it.

| Action | Code |
|---|---|
| `Add` | `add()`, from the closed check to the trigger, with its intent row and its `put()` |
| `Flush`, `Close`, `AgeFires`, `IdleFires` | the five ways to queue a flush (the fifth is in `Add`) |
| `PutSettles` | the log store's answer, which `runPut()` turns into a value |
| `FlushEmpty`, `TakeWindow` | `doFlush()` up to its first await |
| `Gate`, `GateLast` | step 0, one awaited put at a time; the strict rejections |
| `Seal`, `ReadHead`, `Upload`, `SetHead`, `WriteCheckpoint` | steps 1 to 4; `SetHead` needs the answer, so an accepted checkpoint |
| `WriteRow`, `Resolve` | step 5 of one leaf: its row's awaited write, then its receipt, made of the flush's locals |
| `Accept` | the network (external) |
| `Throw`, `SetHeadThrow` | the `catch`, from each await that can fail |
| `IntentLands` | an asynchronous sink's intent row, which nobody awaits |

`Notary` is what a batch promises: an event is answered at most once, receipted only when a
checkpoint on the network holds it, never put there twice, and never at all once it was dropped for its
retention. An event that failed may be proven all the same, also after its answer: the
rejection says that the answer was lost, and no more.
`ImplementsNotary` maps the receipt promises to its `status` and the leaves of the accepted checkpoints to
`proven`; the queue, timers and phases disappear.

`ImplementsAnchorer` is the other side: to the store and the network a batcher is one writer of
`Anchorer`. The phases from `seal` to `setHead` are that writer's awaits, everything else is its
idling, and of the events only their number is left, as a bound on the checkpoints. Both sides have the
late acceptance. What has been the head is there what the head leads back to.

Abstractions: a checkpoint's hash is its position among those uploaded, and its Merkle root the sequence
of leaves it commits to; an `eventId` is offered once (reuse is in `FsRetention`);
`Bytes` are the events that come with bytes while a log store is configured; a caller's `warn()`
returns; the events of one `add([...])` are successive `Add`s, which lose nothing as the
actions that could come between are only those that were possible before or after.

### Anchorer.tla

One program counter per writer. A call of `anchor()` is refused before it stores anything (`Refuse`: bad
arguments, or a stream that fails while it is hashed) or goes through `store`, `head`, `upload`,
`answer`, `row`; its row (`WriteRow`) and its return are two steps. Of a batcher's window there is only
the part that touches the chain; a window that is over forgets what it read and uploaded, and the
batcher begins no further one once it has uploaded `MaxCheckpoints` records.

A record is `[by, chain, prev]`; its hash and transaction id are its position in `posted`. `accepted`
is as in `Batcher`, and `heads` remembers which records have been the head of their chain. `NoChain` is an
unchained call. `version`, `hashed`, `stored` say which contents of the caller's buffer were hashed
(before the first await) and which were stored (after it, of a string its own encoded bytes), and
`contentStored` is what the row and the receipt say of it. `Throw` is every failure after the retention
gate; a failure of the answer leaves the head unmoved and the record where it is, accepted, on its way or
lost; a store that sets the head and answers with an error leaves it moved (`SetHead` to `threw`).

### AnchoredS3.tla

`putObject()` on top of `Anchorer`: each put is an unchained `anchor()` call of the same name, which
`S3Spec` lets begin only when the bucket has the object. `bucket` is what each name holds. A
request stays `underway` from its `send()` until its last attempt has landed or is lost: the
bucket (external) may apply it (`Lands`) any number of times in between, also when the put has long been
answered, and `applied` says whether it ever did. `Reject` is every failure of a `send()` or of `anchor()`,
after which nothing is undone. A key may be another key's sidecar name (`SidecarOf`). An object is the
put it is of and the version of the caller's buffer, which `anchor()` hashes only after the first
await. `earlier` is a history: which puts had been answered, with no request on its way, when a put began.

### DataItem.tla, TurboUploader.tla

`DataItem` holds `buildTags()`, `encodeAvroTags()`, `buildSignedDataItem()` and
`txIdFromDataItem()` as operators on bytes, as what must hold of them is about bytes: varints of
one and of two bytes, offsets, widths. A text is a byte repeated; a hash and a signature are told
apart by what they cover. Beside them stands an independent reader of the format (external),
written forwards from the layout as `ReadItem`, against which `Verifies` compares.

`TurboUploader` is `upload()` and `anchorEnvelopeBytes()` around it, one pair per item, with the
retry loop, every class of answer and the final error. `DataItemOf`, `NetworkId` and `Verified` are
tables over the configurations and items, which TLC computes once. The network is external: it may accept an
item any time after a post, also when its answer is lost or the upload has given up, and may
answer with the id of any item it holds. The back-off's length is left out: only `Wake`.

### Evidence.tla

`ToEvidenceBundle` is the function on the receipts of `Batcher`'s state, `Receipt(e)` what a
resolved promise hands out (checkpoint, index and leaf count as the flush had them in hand), and
`Verified` an auditor (external) who believes only the ledger: the
event it is shown must be the leaf with that index of a checkpoint of that transaction and length.
`bundle()` keeps no state, so there is no action for it: `BundlesVerify` asks, in every state in which the
batcher is closed and idle, for the bundles of all sequences of up to `MaxReceipts` receipts with each
possible disclosure.

### FsRetention.tla

One process at a time on one disk. `blob`, `pointer` and `log`/`unended` are the files of
`FsLogStore` and `FsSink`; a file write is an action that completes or is cut by a crash (`Die`),
leaving nothing, a torn or a whole but unended line, a torn blob or pointer. `add()` is three
writes, `doFlush()` one per row. After `Restart` the caller offers again what has no proof row,
as the README's recovery index has it. A window is `posted` from its upload until the network accepts it,
which it may do after the upload failed or the process died. Two offers may share a hash, and so a blob:
`tearer` remembers whose `put()` a crash tore it in. `Get` and `Readable` are `get()` and `read()`. What
`batch.ts` does around the writes is kept as small as the order of the writes needs; its full control is
`Batcher`.

### EventChains.tla

What both adapters promise: `next` is what the next event of each chain will carry, `Emit` appends an
event with it, `Forget` lets chains begin again. `Linked`, that there is no gap and no fork, is a
theorem of it, so both adapters inherit it by refinement, and their own properties say when they may forget.

### VercelMiddleware.tla

`chains` is the `#chains` map: for each tracked key the next number, the last event and `place`, its place
in the map's insertion order, which the code uses as the order of use. `log` holds the events the
batch took. Each call goes through `wrapGenerate()` or `wrapStream()`; `Emit` is `#emit()` up
to the commit, in which the event is refused (opted out, not serialisable, batch closed) with
nothing changed, or committed with the map touched and bounded. The chain key of a call is
resolved once, at its start.

### LangchainRuns.tla

The run tree is chosen at the start (`parent`); `Outer` stands for a run above the point the
handler is attached at, of which it hears nothing. A run starts after its parent and ends in any
order, as parallel branches do when one of them fails their parent. `Root` is the lookup through
the parent, `Released` the deletion in `#endRun()`; `rootOf` and `chains` are the two maps. `Emit`
is committed or left out as above. The field `after` of a logged event is a history of the runs
that had ended by then, in which the properties state their exceptions: they are what the code
leaves wrong once a run outlives its parent.

## 4. The runs

| Run | Instance | What it shows |
|---|---|---|
| `batcher_safety` | 3 events (2 with bytes), 1 `flush()`, 5 option records (one refused by the constructor): each trigger alone, all together, both retention modes, three sinks; bundles of up to 3 receipts | The safety properties and `BundlesVerify` |
| `batcher_live` | 3 events, one malformed, one with bytes; 4 option records, one with an asynchronous sink, under `FairSpec` | `EverySettles`, `CloseReturns`, `ImplementsNotary`, `ImplementsAnchorer` |
| `anchorer` | 2 calls with streams on one chain, 1 unchained call with a `Uint8Array` that may be reused, 1 batcher with 2 checkpoints on another chain, 4 records in all; strict and lenient; the 2 calls symmetric | links, heads, receipts, `SoleWriterLinear` |
| `anchorer_fork` | 2 batchers of one name | `ChainsLinear` fails |
| `anchorer_bytes` | 1 call with a `Uint8Array` | `StoredIsHashed` fails |
| `turbo` | 2 items, one with its content hash disclosed; `maxRetries` 0, 1, 2; a Solana and an Arweave wallet with and without scope, and five configurations that must be refused | retries, settlement, `ItemsVerify`, `UploadsEnd` |
| `s3` | 2 puts, one of a `Uint8Array`, one of a string, each of either of two keys, one of which is the other's sidecar; strict store or none; requests applied again and late | `SidecarsAnchored`, `ObjectsVerify` |
| `retention` | 2 event ids of one content, one of them also reused for other content; 2 crashes; `add()` while the file has fewer than 4 lines; strict and lenient; windows accepted late | rows stay true, one crash costs one row, accepted events are enumerable |
| `retention_trace`, `retention_content` | the same | `TraceReads`, `AnchoredBytes` fail |
| `vercel` | 3 calls, 3 keys, `maxTrackedChains` 0, 1, 2, symmetric | `ImplementsEventChains`, only idle chains forgotten, one end per call |
| `langchain` | 4 runs in 3 forests: a chain of three beside a single run, a tree with two branches, a handler attached inside two trees | `ImplementsEventChains`, restarts, roots, and that the maps are emptied |

**Bounds and why they are enough.** Three events are two windows, one of them with two leaves
(`maxEvents` 2, or a timer), or three windows; that is what it takes for an event to arrive while a
window is in flight, for a window to fail between two that succeed, and for one leaf of a window to be
refused. A bundle of three receipts is what it takes to list a checkpoint again after another; it is
asked for once the batcher is closed and idle, as receipts do not change. One `flush()` besides `close()`
and the timers gives a flush queued behind another and one that finds the buffer empty. In `anchorer` the
two calls on one chain race at every await while the batcher and the unchained call try to disturb their
chain and fail to; any number of the batcher's windows may fail before their upload, besides the two that
get that far, of which either may fail after it and be accepted late. Of the five records that could be
uploaded a behaviour has at most four (`FewRecords`, a constraint of the run), so that two calls meet
both windows, and three calls one. The other kinds of input are in `s3`, and the proofs are for any mix
of them and any number of records. In `turbo` two items are what a misrouted answer needs, `posts` is
counted to one above the budget, so that a post too many shows, and the wallets have lengths on both
sides of one byte (owners of 32 and 512 bytes, tag arrays beyond 255). In `s3` two puts are what
overwrites an object, a sidecar, or either with the late request of the other; `ObjectsVerify` speaks of
pairs of puts. In `retention` two crashes allow one during the recovery from the other; of the three
offers one shares the content and one the `eventId` of the first. In `vercel` three keys exceed both
positive limits in turn. In `langchain` a tree of depth three is what a wrong intermediate root needs,
and a second branch or tree what a chain may be mixed up with. The bounds on `calls`, checkpoints,
`crashes`, lines and `posts` are guards named in the modules; nothing else is unbounded on a finite set
of events or calls. `SYMMETRY` is used in `vercel`, which treats calls and keys alike, and in `anchorer`,
for the two calls that are given the same; neither has a liveness property.

`CHECK_DEADLOCK FALSE` stands in every cfg because each of these systems may really stop: all
events answered and the batcher closed, all calls returned, the crash budget used.

**Fairness.** `Batcher` assumes weak fairness of `doFlush()`'s steps, of the armed timers and of
each `put()` answer; `TurboUploader` of each upload's step. The event loop runs whatever is ready
and fires armed timers, and each flush awaits its calls one after the other. The rest is an
assumption about what the code awaits: it sets no timeout around `put()`, the store, the signer or `fetch()`,
so a call that hangs hangs the batcher, and liveness can only be claimed when every call
answers or fails. Nothing is assumed of which one it is: an answer may be a failure every time. The
callers are not fair (nobody has to add, flush or close), so `EverySettles` claims nothing for an
event waiting for a `maxEvents` that is never reached until `close()`.

Each property has a mutant in `PROJECT.json`: a definition changed the way a bug would change it
(its operator stands before the definition it mutates, named `Bug...`), under which TLC finds the
property violated in the same configuration.

## 5. The proofs

Assumed are only the named `ASSUME`s on the constants (types of the option records and maps,
disjointness of calls and batchers, what the inputs of an upload are); sets of events, calls, chains
and options are arbitrary, infinite ones included, but for `ImplementsAnchorer`, which counts checkpoints
against a finite set of events.

* **DataInduction.** What the proofs about recursive functions rest on, stated with sets where the
  library has predicates: a set of numbers that is not empty has a least one (`LeastNumber`, from the
  library's well-foundedness of `<`), a set that has 0 and hands on up to N has all numbers up to N
  (`Induction`), and for any first value and any steps there is a function that takes them
  (`Recursion`), so that the `CHOOSE` behind a recursive definition is known to have a value.
* **BatcherProofs.** `TypeOK` is inductive: besides types it says how a flush's registers relate to its
  phase (`leaves` is non-empty past the gate, `written` is below its length, `tx` is set exactly
  after the upload). `TriggersHold` needs `windowOpen <=> buffer # <<>>` (`TriggersInv`), since
  only the event that opens a window arms the `maxAge` timer. `HeadAdvances` (every new head links to the
  one it replaces, a theorem without a run) follows from `LinkInv`: the
  uploaded checkpoint is the one the flush built, and the head has not moved since it was read.
  `PlaceInv` says where every offered event is – the buffer, the window, or
  settled – and that a queued flush only covers offered events; `GateInv` what the retention
  gate has let through so far, and how much of the window is resolved; `LedgerInv` that what was
  uploaded is stored, and is not waiting anywhere. Together with `TypeOK` they are inductive, and
  give `FlushedSettled` and `RetentionGate`; `ReceiptSound` needs `LinkInv` too; `RecoveryIndex`
  needs that an in-order sink has no intent on its way, and has the one row that is ahead of its receipt. With
  them, and with the order below, every step of the batcher maps to a step of `Notary` or to a stutter:
  `Accept` is `Prove`, whenever it happens (no event of the checkpoint is in another one, was dropped, or
  has a receipt already), `Resolve` is `Receipt`, `GateLast` is `Drop`, the failures are `Fail`, `Add` is
  `Offer`.
  `ImplementsAnchorer` goes the same way: the last step of the gate begins the writer's window, which
  the anchorer allows while there are fewer checkpoints than events. `FewerCheckpoints` counts them: an event of
  the window is not uploaded, and the first leaves of the checkpoints are distinct others, as no checkpoint
  is empty, no event is offered twice (`CountInv`) and all stand in the order of `add()`.
  `ChainKeepsOrder` needs `OrderInv`: the uploaded checkpoints, the window that is not uploaded yet and the
  buffer hold events of one order, which the gate keeps; acceptance does not come into it, which is why it
  holds however late that is. `ReceiptsOnChain` needs `ReachInv`: links lead to what was accepted before, and a
  flush that gives out receipts has made its checkpoint the head; the chain is defined by the sets that are
  closed under the links, not by recursion, so that no induction is needed.
  `BundlesVerify` is about `Evidence`, whose checkpoints are computed by recursion over the receipts:
  by induction over them, `Listed` says that each transaction of a receipt is there once and nothing
  else. With `ReceiptSound` every event of a bundle is then proven by what was accepted, and a disclosure that
  is not the event's is refused. It holds for any number of receipts, in any order and repeated.
* **AnchorerProofs.** `ChainInv`: heads and links are on their own chain, and so is what each writer read
  and uploaded (`WritersInv`). `SoleWriterLinear` follows from `SoleInv`, that the head a sole
  writer read stands until it sets it; `ReceiptsTrue` from `CallsInv`, what each point of a call
  tells about bytes, `contentStored`, record and head. For `AnchoredS3`, each step of the wrapper is a
  step of the anchorer or leaves it alone
  (`StepsAnchorer`), so `S3Spec => Spec` and all that is proved of the anchorer holds under it.
  `RequestsInv` says which requests a put has made and the bucket has applied at each of its awaits,
  `BucketInv` that a name holds what an applied request carried, `EarlierInv` that what had ended before a put
  began has no request left that could undo what the put wrote. With `ReceiptsTrue` the first two
  give `SidecarsAnchored`; all three give `ObjectsVerify`.
* **EventChainsProofs, VercelMiddlewareProofs, LangchainRunsProofs.** In the abstract chains
  `Continues` says that what is next of a chain follows its last event, and gives `Linked`. A step of either
  adapter is an emission that advances one entry and drops some, or leaves map and log alone, which
  is the refinement. `OnlyIdleForgotten` needs `MapInv`, that an entry's place is its chain's last event,
  so that the entry dropped is the one longest without an event. `OneEnd` is
  inductive with `CallsInv`, what each point of a call has logged. `MapsBounded` and
  `ChainsRestartOnce` need `RunsInv` (a run is looked up to a root that is none of the idle runs) and
  `ChainsInv` (which events of a chain came before its root's end). `RootsTrue` needs `RootsInv`, that
  a run is looked up to the root of its tree unless a run between the two has ended; a run's lineage is
  the least set with it that is closed under parents, which makes it hold for trees of any depth.
* **TurboUploaderProofs.** `IdInv` – ids come only from accepted items, and were built – gives
  `AnchoredAccepted`, as the network gives an item the id that was predicted and no other item that id
  (`IdsArePredicted`: the signatures cover the envelopes, which `UploaderAssumption` says differ);
  `PostInv` counts posts against attempts.
  `ItemsVerify` is proved from the bytes up, for fields, tags and envelopes of any length. The digits
  of a number give it back in either base (`LittleEndianReadsBack`, `GroupsForm`: the encoder's loop
  ends with the only byte below 128). So an Avro long and a string read back wherever they stand
  (`At`), and, by induction along the positions the reader stops at, the whole array (`TagsReadBack`).
  The offsets of the layout then give back every field, over which the signature verifies
  (`ItemReadsBack`), and `buildTags()` yields at most 127 tags, those it was asked for
  (`BuildTagsForm`). `InputAssumption` is used here: texts are bytes, an option is given at
  most once, and the length of the encoded tags fits the eight bytes the layout has for it.
* **FsRetentionProofs.** `KeptInv` (what this process stored stands, and the `put()` it is in was not
  refused) and `RowsInv` (what the rows on file call stored is whole, or was torn by another offer of the
  same content: an offer that is proven is not offered again, a reuse of its `eventId` is refused) give
  `RetainedBytes`, with no condition on the offers. `AcceptInv` relates window, posted and accepted windows and
  stored content; `CleanInv` and `DownInv` say what the sink's file holds before the first crash and until
  the restart after it, of everything that is or may yet be accepted.

Checked by TLC only: the liveness properties (`EverySettles`, `CloseReturns`, `UploadsEnd`), as
`ENABLED` and fairness are out of the prover's reach, and the four properties of section 6, which do
not hold. Every other invariant and action property of a passing run is a theorem for all values of
the constants; for `ImplementsAnchorer` with finitely many
events, for the others without a condition.

## 6. Where the code and its docs disagree

Each is a run TLC ends with a counterexample, with quotes in `PROJECT.json`.

* **ChainsLinear** – two batchers of one name (or both without) share a chain key and fork the checkpoint
  chain, which the profile makes a dropped-window signal, although nothing was dropped.
* **StoredIsHashed** – `anchor()` hashes the caller's `Uint8Array` before its first await and stores it
  after; a buffer that is reused meanwhile is stored under the hash of what it held.
* **TraceReads** – the first row after a crash that tore the sink's last line is glued to it and lost,
  and `read()` throws once another row follows.
* **AnchoredBytes** – stored content is rewritten in place, by a retry or by another event of equal content, and
  a crash meanwhile tears it. `RetainedBytes` names this as the one way in which a row's content is lost.

Seen while modelling, without a run of their own:

* A 2xx answer whose body is no JSON makes `upload()` reject with a `SyntaxError`, which has no `code`
  (`AnswerGarbled`), where `packages/anchor/README.md:124` has every error typed.
* A later put of a key whose anchoring fails leaves its object beside the earlier put's sidecar, and
  two overlapping puts, or a request applied after its put was answered, can leave the object of one and the
  sidecar of the other. `ObjectsVerify` states the first exception as such and calls puts overlapping until
  the bucket is done with them.
* A rejected receipt does not mean that the event is not anchored: its checkpoint may be accepted later,
  off the chain, as the head never moves to it. `Notary` and `ChainKeepsOrder` say what holds all the same.
* A `Uint8Array` disclosed to `bundle()` is hashed before an await and embedded after it
  (`evidence.ts:203`), as in `StoredIsHashed`.

## 7. Not modelled

* Records, envelopes, JSON canonicalisation, the Merkle tree, the mathematics of hashes and signatures: pure
  functions checked by the repository's reference vectors; the models keep what depends on them
  (that a record can be refused, what a signature covers, that an id is known before the upload).
* Of an evidence bundle its signature, issuer, gateway and wording. Single-shot receipts are not
  among its inputs: `bundle()` takes the batcher's only.
* `Store.appendPending`/`takePending`: nothing in the repository calls them.
* `CallbackSink`: it forwards to a function; what that may do is the models' `"async"` and `"flaky"`.
* File writes that fail without a crash (a full disk); a `warn()` that throws; disks that lose what was
written before a crash of the machine (the
  models crash the process); several processes on one directory.
* Examples, scripts, spikes and conformance tools.
