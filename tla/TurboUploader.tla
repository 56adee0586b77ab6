--------------------------- MODULE TurboUploader ----------------------------
(***************************************************************************)
(* anchorEnvelopeBytes() of packages/anchor/src/anchorer.ts and the        *)
(* TurboUploader.upload() of turbo.ts it calls: an envelope becomes a      *)
(* signed data item, whose id is known beforehand; the item is posted up   *)
(* to maxRetries + 1 times until an answer settles it, and the id in the   *)
(* answer must be the predicted one.  The network (external) reads the     *)
(* item, accepts it at any time after a post, and may lose, garble or      *)
(* misroute an answer.                                                     *)
(***************************************************************************)
EXTENDS Integers, DataItem

CONSTANTS
  Items,    \* the uploads
  Content,  \* the envelope of each and, for a disclosing anchor(), its content hash
  Configs,  \* the anchorers there may be: environment, scope and wallet
  Retries   \* the values of maxRetries the uploader may be constructed with

(* All of them are bytes, an option has one value at most, and the tags are *)
(* no longer than a field of eight bytes can say                            *)
ASSUME InputAssumption ==
  /\ \A c \in DOMAIN Configs :
       /\ Configs[c].environment \in Seq(Nat) /\ IsOption(Configs[c].scope)
       /\ Configs[c].wallet.owner \in Seq(Nat) /\ Configs[c].wallet.signs \in Nat
  /\ \A i \in Items : Content[i].envelope \in Seq(Nat) /\ IsOption(Content[i].hash)
  /\ \A c \in DOMAIN Configs : \A i \in Items :
       Fits(Len(EncodeAvroTags(BuildTags(Configs[c].environment, Configs[c].scope, Content[i].hash))), 8)

(* What anchorEnvelopeBytes() makes of each upload under each configuration *)
BuildUpload(c, i) ==
  LET tags == BuildTags(c.environment, c.scope, Content[i].hash)
  IN IF tags = Refused THEN Refused ELSE BuildSignedDataItem(c.wallet, Content[i].envelope, tags)

DataItemOf == [c \in DOMAIN Configs |-> [i \in Items |-> BuildUpload(Configs[c], i)]]

(* The id the network gives an item (external) *)
NetworkId ==
  [c \in DOMAIN Configs |-> [i \in Items |->
    IF DataItemOf[c][i] = Refused THEN Refused ELSE ReadItem(DataItemOf[c][i]).signature]]

(* What a reader checks who knows the format, the wallet's owner, and what *)
(* the tags should say (external): the hash of the scope, never the scope, *)
(* the content hash only where it is disclosed, and a signature of the     *)
(* wallet over all that was read                                           *)
Verifies(read, c, i) ==
  /\ SignatureVerifies(read)
  /\ read.owner = c.wallet.owner
  /\ read.data = Content[i].envelope
  /\ read.tagCount = Len(read.tags)
  /\ Range(read.tags) =
       Range(Fixed) \cup {Tag("environment", c.environment)}
         \cup {Tag("scope", Sha256Hex(s)) : s \in c.scope}
         \cup {Tag("contentHash", h) : h \in Content[i].hash}

Verified ==
  [c \in DOMAIN Configs |-> [i \in Items |->
    DataItemOf[c][i] # Refused /\ Verifies(ReadItem(DataItemOf[c][i]), Configs[c], i)]]

(* No two uploads are of one envelope: each signs an event of its own *)
ASSUME UploaderAssumption ==
  /\ Retries \subseteq Nat
  /\ \A i, j \in Items : Content[i].envelope = Content[j].envelope => i = j

VARIABLES
  config,      \* the anchorer's options and wallet
  maxRetries,  \* the uploader's option
  phase,       \* where each upload stands
  attempt,     \* the loop variable
  got,         \* the upload whose id the answer had, itself until one came
  result,      \* what anchorEnvelopeBytes() ended with
  posts,       \* history: how often each was posted, counted to one beyond the budget
  seen,        \* history: the answers each upload met
  accepted,    \* the items the network accepted
  verified     \* those of them that their readers could verify

options == <<config, maxRetries>>
upload == <<phase, attempt, got, result>>
network == <<accepted, verified>>
vars == <<options, upload, posts, seen, network>>

(* HTTP statuses other than 2xx, "429" and "5xx" among them being transient *)
Statuses == {"402", "4xx", "429", "5xx"}

(* What a post may meet: no answer, an id, a body without one or that is none, a status *)
Answers == Statuses \cup {"fault", "id", "no id", "garbled"}

Init ==
  /\ config \in DOMAIN Configs
  /\ maxRetries \in Retries
  /\ phase = [i \in Items |-> "idle"]
  /\ attempt = [i \in Items |-> 0]
  /\ got = [i \in Items |-> i]
  /\ result = [i \in Items |-> "none"]
  /\ posts = [i \in Items |-> 0]
  /\ seen = [i \in Items |-> {}]
  /\ accepted = {}
  /\ verified = {}

-----------------------------------------------------------------------------
(* The network                                                             *)

(* An item is accepted once, however often it is posted, even when its     *)
(* upload has given up                                                     *)
Accept(i) ==
  /\ posts[i] > 0 /\ i \notin accepted
  /\ accepted' = accepted \cup {i}
  /\ verified' = IF Verified[config][i] THEN verified \cup {i} ELSE verified
  /\ UNCHANGED <<options, upload, posts, seen>>

Sees(i, answer) ==
  /\ phase[i] = "sent"
  /\ seen' = [seen EXCEPT ![i] = @ \cup {answer}]
  /\ UNCHANGED <<options, posts, network>>

-----------------------------------------------------------------------------
(* upload()                                                                *)

End(i, outcome) ==
  /\ phase' = [phase EXCEPT ![i] = "done"]
  /\ result' = [result EXCEPT ![i] = outcome]
  /\ UNCHANGED <<attempt, got>>

(* anchorEnvelopeBytes() builds the item and predicts its id *)
Start(i) ==
  /\ phase[i] = "idle"
  /\ \/ /\ DataItemOf[config][i] # Refused
        /\ phase' = [phase EXCEPT ![i] = "ready"]
        /\ UNCHANGED <<attempt, got, result>>
     \/ DataItemOf[config][i] = Refused /\ End(i, "Error")
  /\ UNCHANGED <<options, posts, seen, network>>

Post(i) ==
  /\ phase[i] = "ready"
  /\ phase' = [phase EXCEPT ![i] = "sent"]
  /\ posts' = [posts EXCEPT ![i] = IF @ <= maxRetries + 1 THEN @ + 1 ELSE @]
  /\ UNCHANGED <<options, attempt, got, result, seen, network>>

(* mutants: the loop runs once too often; a retry is not counted *)
BugLastAttempt(i) == attempt[i] > maxRetries
BugNextAttempt(i) == attempt[i]

LastAttempt(i) == attempt[i] + 1 > maxRetries
NextAttempt(i) == attempt[i] + 1

(* continue: sleep before the next attempt, or UploadFailedError *)
Retry(i) ==
  \/ LastAttempt(i) /\ End(i, "UPLOAD_FAILED")
  \/ /\ ~LastAttempt(i)
     /\ attempt' = [attempt EXCEPT ![i] = NextAttempt(i)]
     /\ phase' = [phase EXCEPT ![i] = "sleep"]
     /\ UNCHANGED <<got, result>>

Wake(i) ==
  /\ phase[i] = "sleep"
  /\ phase' = [phase EXCEPT ![i] = "ready"]
  /\ UNCHANGED <<options, attempt, got, result, posts, seen, network>>

(* fetch rejects: the post or its answer is lost *)
NetworkFault(i) == Sees(i, "fault") /\ Retry(i)

(* 2xx with an id, of this item or of another accepted one *)
AnswerId(i) ==
  /\ Sees(i, "id")
  /\ \E j \in accepted : got' = [got EXCEPT ![i] = j]
  /\ phase' = [phase EXCEPT ![i] = "compare"]
  /\ UNCHANGED <<attempt, result>>

(* 2xx whose JSON has no id *)
AnswerNoId(i) == Sees(i, "no id") /\ End(i, "UPLOAD_REJECTED")

(* 2xx whose body cannot be read as JSON: the error is none of the SDK's *)
AnswerGarbled(i) == Sees(i, "garbled") /\ End(i, "SyntaxError")

(* mutant: every client error is retried *)
BugTransient(s) == s # "402"

Transient(s) == s \in {"429", "5xx"}

AnswerStatus(i) ==
  \E s \in Statuses :
    /\ Sees(i, s)
    /\ \/ s = "402" /\ End(i, "FUNDING_EXHAUSTED")
       \/ Transient(s) /\ Retry(i)
       \/ s # "402" /\ ~Transient(s) /\ End(i, "UPLOAD_REJECTED")

-----------------------------------------------------------------------------
(* anchorEnvelopeBytes(): the answer must name the predicted id            *)

BugPredicted(i) == got[i] \in Items  \* mutant: any id will do

Predicted(i) == NetworkId[config][got[i]] = TxIdFromDataItem(DataItemOf[config][i])

Compare(i) ==
  /\ phase[i] = "compare"
  /\ End(i, IF Predicted(i) THEN "anchored" ELSE "TXID_MISMATCH")
  /\ UNCHANGED <<options, posts, seen, network>>

-----------------------------------------------------------------------------
Answer(i) == NetworkFault(i) \/ AnswerId(i) \/ AnswerNoId(i) \/ AnswerGarbled(i) \/ AnswerStatus(i)

Step(i) == Post(i) \/ Wake(i) \/ Answer(i) \/ Compare(i)

Next == \E i \in Items : Start(i) \/ Accept(i) \/ Step(i)

(* Every fetch is answered or fails: upload() sets no timeout of its own *)
Fairness == \A i \in Items : WF_vars(Step(i))

Spec == Init /\ [][Next]_vars /\ Fairness

-----------------------------------------------------------------------------
(* Properties                                                              *)

Temporary == {"fault", "429", "5xx"}

TypeOK ==
  /\ config \in DOMAIN Configs
  /\ maxRetries \in Nat
  /\ phase \in [Items -> {"idle", "ready", "sent", "sleep", "compare", "done"}]
  /\ attempt \in [Items -> 0 .. maxRetries]
  /\ got \in [Items -> Items]
  /\ result \in [Items -> {"none", "anchored", "UPLOAD_FAILED", "UPLOAD_REJECTED",
                           "FUNDING_EXHAUSTED", "TXID_MISMATCH", "SyntaxError", "Error"}]
  /\ posts \in [Items -> Nat]
  /\ seen \in [Items -> SUBSET Answers]
  /\ accepted \subseteq Items
  /\ verified \subseteq accepted

(* What is reported anchored was accepted by the network under its own id, *)
(* whatever answers were lost, repeated or taken for those of other items  *)
AnchoredAccepted == \A i \in Items : result[i] = "anchored" => i \in accepted

(* An answer that settles an upload is its last: nothing is posted again   *)
(* after a terminal rejection, an exhausted balance or a success           *)
SettledOnce ==
  \A i \in Items : seen[i] \subseteq Temporary \/ phase[i] \in {"compare", "done"}

(* UPLOAD_FAILED is only reported after maxRetries + 1 posts that all met  *)
(* a temporary fault, and no upload posts more often                       *)
RetriesExhausted ==
  \A i \in Items :
    /\ posts[i] <= maxRetries + 1
    /\ result[i] = "UPLOAD_FAILED" => posts[i] = maxRetries + 1 /\ seen[i] \subseteq Temporary

(* Every upload ends, however long the network keeps failing *)
UploadsEnd == \A i \in Items : phase[i] = "ready" ~> phase[i] = "done"

(* Whatever the network accepts, its readers can verify: envelope, tags and *)
(* signature read back, for wallets of either type and with lengths beyond *)
(* one byte of a varint                                                    *)
ItemsVerify == accepted \subseteq verified
=============================================================================
