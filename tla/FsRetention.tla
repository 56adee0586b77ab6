---------------------------- MODULE FsRetention -----------------------------
(***************************************************************************)
(* The durable side of a batch: FsLogStore (packages/anchor/src/logstore)  *)
(* and FsSink (sink.ts) on one disk, written by a process that offers      *)
(* events, anchors them in windows, may crash inside any file write, and   *)
(* comes back to the same files; the caller then offers again what has no  *)
(* proof row.  File calls are synchronous, so add() runs its writes        *)
(* through; doFlush() awaits between its rows.                             *)
(***************************************************************************)
EXTENDS Naturals, Sequences

CONSTANTS
  Offers,     \* what callers offer: records [id, hash]
  MaxCrashes, \* bound on the crashes
  MaxLines    \* bound on the lines of the sink's file when add() is called

Ids == {o.id : o \in Offers}
Hashes == {o.hash : o \in Offers}

ASSUME RetentionAssumption ==
  /\ Offers # {} /\ \A o \in Offers : o = [id |-> o.id, hash |-> o.hash]
  /\ Hashes \cap {"none", "torn"} = {}
  /\ MaxCrashes \in Nat /\ MaxLines \in Nat

VARIABLES
  strict,    \* onRetentionError = "skip-anchor"
  up,        \* the process runs
  crashes,   \* how often it crashed
  step,      \* the write add() is about to do, "out" outside of add()
  adding,    \* the offer add() is working on
  kept,      \* the offers of this process whose put() succeeded
  buffer,    \* the offers waiting for a flush
  window,    \* the offers of the running flush that have no row yet
  phase,     \* what the flush does next: "idle", "upload", "answer", "checkpoint", "rows"
  posted,    \* the windows whose checkpoint was posted and may be accepted yet
  accepted,  \* the offers the network holds a checkpoint of
  blob,      \* <base>/content/<hash>: "none", "whole" or "torn"
  tearer,    \* history: the offers in whose put() a crash left it torn
  pointer,   \* <base>/events/<id>: "none", "torn", or the hash it names
  log,       \* the lines of the sink's file, Garbage if they do not parse
  unended,   \* its last line has no newline
  durable    \* history: the rows whose append returned

memory == <<step, adding, kept, buffer, window, phase>>
network == <<posted, accepted>>
disk == <<blob, tearer, pointer, log, unended>>
vars == <<strict, up, crashes, memory, network, disk, durable>>

Garbage == [type |-> "garbage"]
CheckpointRow == [type |-> "checkpoint"]
Intent(o) == [type |-> "intent", offer |-> o]
EventRow(o) == [type |-> "event", offer |-> o, contentStored |-> o \in kept]

AnOffer == CHOOSE o \in Offers : TRUE

(* A process starts with nothing but its files *)
FreshMemory ==
  /\ step' = "out" /\ adding' = AnOffer /\ phase' = "idle"
  /\ kept' = {} /\ buffer' = {} /\ window' = {}

Init ==
  /\ strict \in BOOLEAN /\ up = TRUE /\ crashes = 0
  /\ step = "out" /\ adding = AnOffer /\ phase = "idle"
  /\ kept = {} /\ buffer = {} /\ window = {}
  /\ posted = {} /\ accepted = {}
  /\ blob = [h \in Hashes |-> "none"] /\ tearer = [h \in Hashes |-> {}]
  /\ pointer = [i \in Ids |-> "none"]
  /\ log = <<>> /\ unended = FALSE /\ durable = {}

Whole == {log[n] : n \in DOMAIN log} \ {Garbage}

(* A whole line of the file proves the offer *)
Proven(o) == \E r \in Whole : r.type = "event" /\ r.offer = o

-----------------------------------------------------------------------------
(* Writes.  appendFileSync() puts a line behind whatever the file ends     *)
(* with: behind an unended line it only makes one longer, unparseable line *)

(* mutant: the file is overwritten instead of appended to *)
BugGlued(line) == <<line>>

Glued(line) == IF unended THEN [log EXCEPT ![Len(log)] = Garbage] ELSE Append(log, line)

AppendLine(row) ==
  /\ log' = Glued(row)
  /\ unended' = FALSE
  /\ durable' = durable \cup {row}
  /\ UNCHANGED <<blob, tearer, pointer>>

(* A crash inside the append leaves nothing of it, a part, or all of it    *)
(* but the newline                                                         *)
TearLine(row) ==
  /\ \/ UNCHANGED <<log, unended>>
     \/ log' \in {Glued(Garbage), Glued(row)} /\ unended' = TRUE
  /\ UNCHANGED <<blob, tearer, pointer, durable>>

(* writeFileSync() truncates before it writes *)
WriteBlob(h, what) ==
  /\ blob' = [blob EXCEPT ![h] = what]
  /\ tearer' = [tearer EXCEPT ![h] = IF what = "torn" THEN {adding} ELSE {}]
  /\ UNCHANGED <<pointer, log, unended, durable>>

WritePointer(i, what) ==
  /\ pointer' = [pointer EXCEPT ![i] = what]
  /\ UNCHANGED <<blob, tearer, log, unended, durable>>

Survive == UNCHANGED <<strict, up, crashes, network>>

Die ==
  /\ crashes < MaxCrashes
  /\ crashes' = crashes + 1 /\ up' = FALSE
  /\ FreshMemory
  /\ UNCHANGED <<strict, network>>

-----------------------------------------------------------------------------
(* add(): FsLogStore.put(), then FsSink.writeIntent()                      *)

BugReused(o) == FALSE  \* mutant: no guard against a reused eventId

(* A well-formed pointer that names other content refuses the put *)
Reused(o) == pointer[o.id] \notin {"none", "torn", o.hash}

AddBegins(o) ==
  /\ up /\ step = "out" /\ Len(log) < MaxLines
  /\ o \notin buffer \cup window /\ ~Proven(o)
  /\ adding' = o
  /\ \/ Reused(o) /\ step' = "intent"
     \/ ~Reused(o) /\ step' = "blob"
  /\ UNCHANGED <<strict, up, crashes, kept, buffer, window, phase, network, disk, durable>>

PutBlob ==
  /\ up /\ step = "blob"
  /\ \/ /\ WriteBlob(adding.hash, "whole") /\ Survive
        /\ step' = "pointer"
        /\ UNCHANGED <<adding, kept, buffer, window, phase>>
     \/ WriteBlob(adding.hash, "torn") /\ Die

PutPointer ==
  /\ up /\ step = "pointer"
  /\ \/ /\ WritePointer(adding.id, adding.hash) /\ Survive
        /\ step' = "intent"
        /\ kept' = kept \cup {adding}
        /\ UNCHANGED <<adding, buffer, window, phase>>
     \/ WritePointer(adding.id, "torn") /\ Die

(* mutant: the row add() leaves behind names no event *)
BugIntentOf(o) == CheckpointRow

IntentOf(o) == Intent(o)

WriteIntent ==
  /\ up /\ step = "intent"
  /\ \/ /\ AppendLine(IntentOf(adding)) /\ Survive
        /\ step' = "out"
        /\ buffer' = buffer \cup {adding}
        /\ UNCHANGED <<adding, kept, window, phase>>
     \/ TearLine(IntentOf(adding)) /\ Die

-----------------------------------------------------------------------------
(* doFlush()                                                               *)

Taken == IF strict THEN buffer \cap kept ELSE buffer

TakeWindow ==
  /\ up /\ step = "out" /\ phase = "idle" /\ buffer # {}
  /\ buffer' = {}
  /\ window' = Taken
  /\ phase' = IF Taken = {} THEN "idle" ELSE "upload"
  /\ UNCHANGED <<strict, up, crashes, step, adding, kept, network, disk, durable>>

(* The window's checkpoint is posted *)
Upload ==
  /\ up /\ step = "out" /\ phase = "upload"
  /\ posted' = posted \cup {window}
  /\ phase' = "answer"
  /\ UNCHANGED <<strict, up, crashes, step, adding, kept, buffer, window, accepted, disk,
                 durable>>

(* The network (external) accepts a checkpoint, also when its upload has   *)
(* given up or its process is gone                                         *)
Accept(w) ==
  /\ w \in posted
  /\ posted' = posted \ {w}
  /\ accepted' = accepted \cup w
  /\ UNCHANGED <<strict, up, crashes, memory, disk, durable>>

(* What was accepted is on its way no more *)
Answered == window \notin posted

UploadReturns ==
  /\ up /\ step = "out" /\ phase = "answer"
  /\ Answered
  /\ phase' = "checkpoint"
  /\ UNCHANGED <<strict, up, crashes, step, adding, kept, buffer, window, network, disk,
                 durable>>

(* The upload gives up, or its answer is lost: the receipts reject *)
UploadFails ==
  /\ up /\ step = "out" /\ phase \in {"upload", "answer"}
  /\ window' = {} /\ phase' = "idle"
  /\ UNCHANGED <<strict, up, crashes, step, adding, kept, buffer, network, disk, durable>>

WriteCheckpoint ==
  /\ up /\ step = "out" /\ phase = "checkpoint"
  /\ \/ /\ AppendLine(CheckpointRow) /\ Survive
        /\ phase' = "rows"
        /\ UNCHANGED <<step, adding, kept, buffer, window>>
     \/ TearLine(CheckpointRow) /\ Die

(* mutant: the flush ends with its first row *)
BugAfterRow(o) == "idle"

AfterRow(o) == IF window = {o} THEN "idle" ELSE "rows"

(* One event row, in the order of the leaves *)
WriteEvent(o) ==
  /\ up /\ step = "out" /\ phase = "rows" /\ o \in window
  /\ \/ /\ AppendLine(EventRow(o)) /\ Survive
        /\ window' = window \ {o}
        /\ phase' = AfterRow(o)
        /\ UNCHANGED <<step, adding, kept, buffer>>
     \/ TearLine(EventRow(o)) /\ Die

-----------------------------------------------------------------------------
(* Between two writes the process may crash, and it comes back *)
Crash == up /\ Die /\ UNCHANGED <<disk, durable>>

Restart ==
  /\ ~up
  /\ up' = TRUE
  /\ UNCHANGED <<strict, crashes, memory, network, disk, durable>>

Next ==
  \/ \E o \in Offers : AddBegins(o) \/ WriteEvent(o)
  \/ PutBlob \/ PutPointer \/ WriteIntent
  \/ TakeWindow \/ Upload \/ UploadReturns \/ UploadFails \/ WriteCheckpoint
  \/ \E w \in posted : Accept(w)
  \/ Crash \/ Restart

Spec == Init /\ [][Next]_vars

-----------------------------------------------------------------------------
(* Reading back                                                            *)

(* FsSink.read() drops a garbage last line and throws on one before it *)
Readable == \A n \in DOMAIN log : log[n] = Garbage => n = Len(log)

(* FsLogStore.get(): the bytes of a hash, "none" (null) or "torn" (it      *)
(* throws, or returns other bytes)                                         *)
Get(i) ==
  IF pointer[i] \in {"none", "torn"} THEN pointer[i]
  ELSE IF blob[pointer[i]] = "whole" THEN pointer[i] ELSE blob[pointer[i]]

-----------------------------------------------------------------------------
(* Properties                                                              *)

Rows == {Garbage, CheckpointRow}
        \cup {Intent(o) : o \in Offers}
        \cup {[type |-> "event", offer |-> o, contentStored |-> s] : o \in Offers, s \in BOOLEAN}

TypeOK ==
  /\ strict \in BOOLEAN /\ up \in BOOLEAN /\ unended \in BOOLEAN
  /\ crashes \in 0 .. MaxCrashes
  /\ step \in {"out", "blob", "pointer", "intent"} /\ adding \in Offers
  /\ kept \subseteq Offers /\ buffer \subseteq Offers /\ window \subseteq Offers
  /\ phase \in {"idle", "upload", "answer", "checkpoint", "rows"} /\ (phase = "idle" <=> window = {})
  /\ posted \subseteq SUBSET Offers /\ accepted \subseteq Offers
  /\ blob \in [Hashes -> {"none", "whole", "torn"}] /\ tearer \in [Hashes -> SUBSET Offers]
  /\ pointer \in [Ids -> Hashes \cup {"none", "torn"}]
  /\ log \in Seq(Rows) /\ (unended => log # <<>>)
  /\ durable \subseteq Rows

(* A proof row with contentStored: true stays true: its bytes can be       *)
(* fetched under its eventId and are those it committed to, through        *)
(* crashes in any write, retries, late acceptance and reuse of the eventId *)
(* for other content.  One thing can take them away: equal contents share  *)
(* a file, and a crash in the put() of another event of the same content   *)
(* may tear it; never do they give way to other content                    *)
RetainedBytes ==
  \A r \in Whole : r.type = "event" /\ r.contentStored =>
    \/ Get(r.offer.id) = r.offer.hash
    \/ /\ pointer[r.offer.id] = r.offer.hash /\ blob[r.offer.hash] = "torn"
       /\ \E o \in tearer[r.offer.hash] \ {r.offer} : o.hash = r.offer.hash

(* A crash, wherever it hits, costs at most the row being written: the     *)
(* file still reads, and every row whose append returned is in it          *)
CrashKeepsTrace == crashes = 0 \/ (crashes = 1 /\ ~up) => Readable /\ durable \subseteq Whole

(* Every offer the network accepted is found in the trace of the process   *)
(* that anchored it, proven or still open; what is proven there was        *)
(* accepted; what strict mode anchored was stored before                   *)
LedgerEnumerated ==
  /\ crashes = 0 \/ (crashes = 1 /\ ~up) =>
       \A o \in accepted : \E r \in Whole : r.type \in {"intent", "event"} /\ r.offer = o
  /\ \A o \in Offers : Proven(o) => o \in accepted
  /\ strict => \A o \in accepted : pointer[o.id] # "none" /\ blob[o.hash] # "none"

(* FsSink: a torn line "is dropped" and "the rest of the durable trace     *)
(* still reads"                                                            *)
TraceReads == Readable /\ durable \subseteq Whole

(* LogStore: "content-addressing on contentHash makes retries trivially    *)
(* safe", "an overwrite is a no-op": what strict mode anchored stays there *)
AnchoredBytes == strict => \A o \in accepted : Get(o.id) = o.hash
=============================================================================
