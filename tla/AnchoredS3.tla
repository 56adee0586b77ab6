----------------------------- MODULE AnchoredS3 -----------------------------
(***************************************************************************)
(* putObject() of packages/s3/src/index.ts on top of the anchorer: the     *)
(* object is stored, its content anchored by an unchained anchor() call,   *)
(* and the receipt's record written beside it as <key>.provenance.json.    *)
(* Nothing orders puts of one key, a failed step leaves the earlier ones   *)
(* done, and the caller keeps the buffer it passed.  The bucket (external) *)
(* may apply a request several times, when the client retried it, and long *)
(* after the client was answered or told that it failed.                   *)
(***************************************************************************)
EXTENDS Anchorer

CONSTANTS
  Puts,      \* the calls of putObject(), each named as the anchor() call it makes
  Names,     \* the names of objects
  NoName,    \* a missing Bucket or Key
  SidecarOf  \* <key>.provenance.json of each name that may be given as a key

Keys == DOMAIN SidecarOf

ASSUME S3Assumption ==
  /\ Puts \subseteq Calls
  /\ \A p \in Puts : ChainOf[p] = NoChain /\ Kind[p] \in {"text", "bytes"}
  /\ NoName \notin Names /\ Keys \subseteq Names
  /\ SidecarOf \in [Keys -> Names]
  /\ \A n \in Keys : SidecarOf[n] # n
  /\ \A m, n \in Keys : SidecarOf[m] = SidecarOf[n] => m = n

VARIABLES
  put,      \* where each putObject() stands
  key,      \* the key it was given
  underway, \* the requests on their way to the bucket, in one or more attempts
  applied,  \* those the bucket has applied at least once
  bucket,   \* what each name holds: the object of a put, or its sidecar
  earlier   \* history: the puts that had ended in every respect when each put began

s3 == <<put, key, underway, applied, bucket, earlier>>
s3vars == <<vars, s3>>

Nothing == [kind |-> "nothing"]
Object(p, v) == [kind |-> "object", by |-> p, version |-> v]
Sidecar(p) == [kind |-> "sidecar", by |-> p]

(* The two requests of a put, and the names they write *)
ObjectOf(p) == <<p, "object">>
SidecarBy(p) == <<p, "sidecar">>
Requests == {ObjectOf(p) : p \in Puts} \cup {SidecarBy(p) : p \in Puts}
NameOf(r) == IF r[2] = "object" THEN key[r[1]] ELSE SidecarOf[key[r[1]]]

(* What a request makes its name hold; of a buffer that is being reused,   *)
(* the old or the new content                                              *)
Carries(r) ==
  IF r[2] = "object" THEN {Object(r[1], v) : v \in 1 .. version[r[1]]} ELSE {Sidecar(r[1])}

(* The puts that are answered and have no request on its way *)
Ended ==
  {p \in Puts : /\ put[p] \in {"resolved", "rejected"}
                /\ ObjectOf(p) \notin underway /\ SidecarBy(p) \notin underway}

S3Init ==
  /\ Init
  /\ put = [p \in Puts |-> "idle"] /\ key = [p \in Puts |-> NoName]
  /\ underway = {} /\ applied = {}
  /\ bucket = [n \in Names |-> Nothing]
  /\ earlier = [p \in Puts |-> {}]

Move(p, from, to) == put[p] \in from /\ put' = [put EXCEPT ![p] = to]

-----------------------------------------------------------------------------
(* The bucket (external)                                                   *)

(* It applies a request, of which other attempts may still be on their way *)
Lands(r) ==
  /\ r \in underway
  /\ \E what \in Carries(r) : bucket' = [bucket EXCEPT ![NameOf(r)] = what]
  /\ applied' = applied \cup {r}
  /\ underway' \in {underway, underway \ {r}}
  /\ UNCHANGED <<vars, put, key, earlier>>

(* The last attempt of a request is lost *)
Lost(r) ==
  /\ r \in underway
  /\ underway' = underway \ {r}
  /\ UNCHANGED <<vars, put, key, applied, bucket, earlier>>

-----------------------------------------------------------------------------
(* putObject()                                                             *)

(* Without a Bucket or a Key the call throws at once *)
Refused(p) ==
  /\ Move(p, {"idle"}, "rejected")
  /\ UNCHANGED <<vars, key, underway, applied, bucket, earlier>>

PutObject(p, n) ==
  /\ Move(p, {"idle"}, "object")
  /\ key' = [key EXCEPT ![p] = n]
  /\ underway' = underway \cup {ObjectOf(p)}
  /\ earlier' = [earlier EXCEPT ![p] = Ended]
  /\ UNCHANGED <<vars, applied, bucket>>

(* mutant: the object and its provenance are written side by side *)
BugReadyToAnchor(p) == ObjectOf(p) \in underway \cup applied

(* The first await ends well only if the bucket has the object *)
ReadyToAnchor(p) == ObjectOf(p) \in applied

(* The first await is over: anchor() is called in the same turn *)
ObjectStored(p) ==
  /\ ReadyToAnchor(p)
  /\ Move(p, {"object"}, "anchoring")
  /\ Call(p)
  /\ UNCHANGED <<key, underway, applied, bucket, earlier>>

(* anchor() moves on for all callers; only a put that stored calls it *)
Anchor ==
  /\ Next
  /\ \A p \in Puts : pc[p] = "idle" => pc'[p] = "idle"
  /\ UNCHANGED s3

(* mutant: the sidecar is written whatever became of anchor() *)
BugAnchored(p) == pc[p] \in {"returned", "threw", "refused", "retentionError"}

(* The second await is over with a receipt *)
Anchored(p) == pc[p] = "returned"

AnchorReturns(p) ==
  /\ Anchored(p)
  /\ Move(p, {"anchoring"}, "sidecar")
  /\ underway' = underway \cup {SidecarBy(p)}
  /\ UNCHANGED <<vars, key, applied, bucket, earlier>>

(* mutant: the sidecar's request is not awaited *)
BugSidecarStored(p) == SidecarBy(p) \in underway \cup applied

SidecarStored(p) == SidecarBy(p) \in applied

(* The third await is over: putObject() resolves *)
Resolve(p) ==
  /\ SidecarStored(p)
  /\ Move(p, {"sidecar"}, "resolved")
  /\ UNCHANGED <<vars, key, underway, applied, bucket, earlier>>

(* A send() fails or times out, applied, on its way or lost, or anchor()   *)
(* threw: putObject() rejects and undoes nothing                           *)
Reject(p) ==
  /\ \/ Move(p, {"object", "sidecar"}, "rejected")
     \/ /\ pc[p] \in {"threw", "refused", "retentionError"}
        /\ Move(p, {"anchoring"}, "rejected")
  /\ UNCHANGED <<vars, key, underway, applied, bucket, earlier>>

S3Next ==
  \/ Anchor
  \/ \E r \in Requests : Lands(r) \/ Lost(r)
  \/ \E p \in Puts :
       \/ \E n \in Keys : PutObject(p, n)
       \/ Refused(p) \/ ObjectStored(p) \/ AnchorReturns(p) \/ Resolve(p) \/ Reject(p)

S3Spec == S3Init /\ [][S3Next]_s3vars

-----------------------------------------------------------------------------
(* Properties                                                              *)

Contents == {Nothing} \cup {Object(p, v) : p \in Puts, v \in 1 .. 2} \cup {Sidecar(p) : p \in Puts}

(* The types, and how far anchor() is while putObject() waits for it *)
S3TypeOK ==
  /\ put \in [Puts -> {"idle", "object", "anchoring", "sidecar", "resolved", "rejected"}]
  /\ key \in [Puts -> Keys \cup {NoName}]
  /\ underway \subseteq Requests /\ applied \subseteq Requests
  /\ bucket \in [Names -> Contents]
  /\ earlier \in [Puts -> SUBSET Puts]
  /\ \A p \in Puts : /\ put[p] \in {"idle", "object"} => pc[p] = "idle"
                     /\ put[p] \in {"sidecar", "resolved"} => pc[p] = "returned"
                     /\ put[p] \notin {"idle", "rejected"} => key[p] # NoName

(* The bucket "carries its own offline-verifiable audit trail": a sidecar, *)
(* also one whose put was rejected, retried, raced by another or applied   *)
(* late, names an accepted record, of a call whose object the bucket had   *)
(* applied before                                                          *)
SidecarsAnchored ==
  \A n \in Names : bucket[n].kind = "sidecar" =>
    LET p == bucket[n].by IN
    /\ n = NameOf(SidecarBy(p))
    /\ tx[p] \in accepted /\ posted[tx[p]].by = p
    /\ ObjectOf(p) \in applied

(* The names a put writes *)
Written(p) == IF key[p] = NoName THEN {} ELSE {NameOf(ObjectOf(p)), NameOf(SidecarBy(p))}

(* All other puts of its names have not begun, or had ended before p began *)
Undisturbed(p) ==
  \A q \in Puts \ {p} : Written(p) \cap Written(q) # {} =>
    put[q] = "idle" \/ q \in earlier[p]

(* "The object bytes are what was anchored", as long as the caller does    *)
(* not reuse its buffer: an undisturbed put that resolved left its object  *)
(* and a sidecar of the very same content; and whatever puts race, fail    *)
(* halfway or are applied late, when an object lies beside the sidecar of  *)
(* another put, then neither put had wholly ended before the other began,  *)
(* unless it is the object of a later put that did not resolve             *)
ObjectsVerify ==
  /\ \A p \in Puts : put[p] = "resolved" /\ Undisturbed(p) /\ version[p] = 1 =>
       /\ bucket[SidecarOf[key[p]]] = Sidecar(p)
       /\ bucket[key[p]] = Object(p, hashed[p])
  /\ \A n \in Keys :
       bucket[n].kind = "object" /\ bucket[SidecarOf[n]].kind = "sidecar" =>
         LET p == bucket[n].by
             q == bucket[SidecarOf[n]].by
         IN  IF p = q THEN version[p] = 1 => bucket[n].version = hashed[p]
             ELSE p \notin earlier[q] /\ (q \in earlier[p] => put[p] # "resolved")
=============================================================================
