------------------------- MODULE FsRetentionProofs --------------------------
(***************************************************************************)
(* Theorems about the files of a batch, for any offers, number of crashes  *)
(* and length of the sink's file: what its rows say stays true, a crash    *)
(* costs one row at most, and what was accepted is enumerable.             *)
(***************************************************************************)
EXTENDS FsRetention, TLAPS

(***************************************************************************)
(* Type correctness, and what a write does to the lines of the file        *)
(***************************************************************************)

(* A line that is put behind the file's end *)
LEMMA GluedShape ==
  ASSUME TypeOK, NEW row \in Rows
  PROVE  /\ Glued(row) \in Seq(Rows) /\ Glued(row) # <<>>
         /\ \A n \in DOMAIN Glued(row) :
              Glued(row)[n] \in {log[m] : m \in DOMAIN log} \cup {row, Garbage}
         /\ ~unended => Glued(row) = Append(log, row)
<1>1. log \in Seq(Rows) /\ Garbage \in Rows
  BY DEF TypeOK, Rows
<1>2. CASE unended
  <2>1. Len(log) \in Nat /\ DOMAIN log = 1 .. Len(log) /\ log # <<>>
    BY <1>1, <1>2 DEF TypeOK
  <2>2. Len(log) \in 1 .. Len(log)
    BY <1>1, <2>1
  <2>3. Glued(row) = [log EXCEPT ![Len(log)] = Garbage]
    BY <1>2 DEF Glued
  <2>4. Glued(row) \in Seq(Rows) /\ Len(Glued(row)) = Len(log)
    BY <1>1, <2>1, <2>2, <2>3
  <2>5. Glued(row) # <<>>
    BY <2>1, <2>2, <2>4
  <2>6. \A n \in DOMAIN Glued(row) : n \in DOMAIN log /\ Glued(row)[n] \in {log[n], Garbage}
    BY <2>1, <2>2, <2>3
  <2> QED
    BY <1>2, <2>4, <2>5, <2>6
<1>3. CASE ~unended
  <2>1. Glued(row) = Append(log, row)
    BY <1>3 DEF Glued
  <2> QED
    BY <1>1, <2>1
<1> QED
  BY <1>2, <1>3

(* The types of a line that add() or a flush writes *)
LEMMA RowTypes ==
  /\ Garbage \in Rows /\ CheckpointRow \in Rows
  /\ \A o \in Offers : IntentOf(o) \in Rows /\ EventRow(o) \in Rows
<1>1. Garbage \in Rows /\ CheckpointRow \in Rows
  BY DEF Rows
<1>2. ASSUME NEW o \in Offers PROVE IntentOf(o) \in Rows
  BY DEF Rows, IntentOf, Intent
<1>3. ASSUME NEW o \in Offers PROVE EventRow(o) \in Rows
  <2>1. ASSUME NEW s \in BOOLEAN
        PROVE  [type |-> "event", offer |-> o, contentStored |-> s] \in Rows
    BY DEF Rows
  <2>2. (o \in kept) \in BOOLEAN
    BY SMT
  <2> QED
    BY <2>1, <2>2, Zenon DEF EventRow
<1> QED
  BY <1>1, <1>2, <1>3

(* The files stay well typed under any write of a row *)
LEMMA WriteTypes ==
  ASSUME TypeOK, NEW row \in Rows, AppendLine(row) \/ TearLine(row)
  PROVE  /\ log' \in Seq(Rows) /\ (unended' => log' # <<>>) /\ unended' \in BOOLEAN
         /\ durable' \subseteq Rows /\ UNCHANGED <<blob, tearer, pointer>>
<1>1. CASE AppendLine(row)
  BY <1>1, GluedShape DEF AppendLine, TypeOK
<1>2. CASE TearLine(row)
  <2>1. Garbage \in Rows
    BY RowTypes
  <2>2. /\ Glued(Garbage) \in Seq(Rows) /\ Glued(Garbage) # <<>>
        /\ Glued(row) \in Seq(Rows) /\ Glued(row) # <<>>
    BY <2>1, GluedShape
  <2>3. CASE UNCHANGED <<log, unended>>
    BY <1>2, <2>3 DEF TearLine, TypeOK
  <2>4. CASE log' \in {Glued(Garbage), Glued(row)} /\ unended' = TRUE
    BY <1>2, <2>2, <2>4 DEF TearLine, TypeOK
  <2> QED
    BY <1>2, <2>3, <2>4 DEF TearLine
<1> QED
  BY <1>1, <1>2

(* An offer has an event id and a content hash *)
LEMMA OfferFields == \A o \in Offers : o.id \in Ids /\ o.hash \in Hashes
BY DEF Ids, Hashes

(* A crash empties the memory and leaves it well typed *)
LEMMA DieTypes == TypeOK /\ Die =>
  /\ crashes' \in 0 .. MaxCrashes /\ up' = FALSE /\ UNCHANGED <<strict, network>>
  /\ step' = "out" /\ adding' \in Offers /\ phase' = "idle"
  /\ kept' = {} /\ buffer' = {} /\ window' = {}
<1>1. AnOffer \in Offers
  BY RetentionAssumption DEF AnOffer
<1> QED
  BY <1>1, RetentionAssumption DEF Die, FreshMemory, TypeOK

(* The types hold at first *)
LEMMA TypeInit == Init => TypeOK
<1> SUFFICES ASSUME Init PROVE TypeOK
  OBVIOUS
<1>1. AnOffer \in Offers
  BY RetentionAssumption DEF AnOffer
<1>2. /\ crashes \in 0 .. MaxCrashes
      /\ blob \in [Hashes -> {"none", "whole", "torn"}] /\ tearer \in [Hashes -> SUBSET Offers]
      /\ pointer \in [Ids -> Hashes \cup {"none", "torn"}]
  BY RetentionAssumption DEF Init
<1>3. log \in Seq(Rows) /\ unended = FALSE
  BY DEF Init
<1>4. strict \in BOOLEAN /\ up = TRUE
  BY DEF Init
<1>5. /\ step \in {"out", "blob", "pointer", "intent"} /\ adding \in Offers
      /\ kept = {} /\ buffer = {} /\ window = {} /\ phase = "idle"
      /\ posted = {} /\ accepted = {} /\ durable = {}
  BY <1>1 DEF Init
<1> QED
  BY <1>2, <1>3, <1>4, <1>5 DEF TypeOK

(* ... and every step keeps them *)
LEMMA TypeNext == TypeOK /\ [Next]_vars => TypeOK'
<1> SUFFICES ASSUME TypeOK, [Next]_vars PROVE TypeOK'
  OBVIOUS
<1>1. ASSUME NEW o \in Offers, AddBegins(o) PROVE TypeOK'
  BY <1>1 DEF AddBegins, network, disk, TypeOK
<1>2. ASSUME NEW o \in Offers, WriteEvent(o) PROVE TypeOK'
  <2>1. EventRow(o) \in Rows
    BY RowTypes
  <2>2. CASE AppendLine(EventRow(o)) /\ Survive /\ o \in window /\ window' = window \ {o}
             /\ phase' = AfterRow(o) /\ UNCHANGED <<step, adding, kept, buffer>>
    <3>1. phase' \in {"idle", "rows"} /\ (phase' = "idle" <=> window' = {})
      BY <2>2 DEF AfterRow
    <3> QED
      BY <2>1, <2>2, <3>1, WriteTypes DEF Survive, network, TypeOK
  <2>3. CASE TearLine(EventRow(o)) /\ Die
    BY <2>1, <2>3, WriteTypes, DieTypes DEF network, TypeOK
  <2> QED
    BY <1>2, <2>2, <2>3 DEF WriteEvent
<1>3. CASE PutBlob
  <2>1. adding.hash \in Hashes
    BY OfferFields DEF TypeOK
  <2>2. CASE WriteBlob(adding.hash, "whole") /\ Survive /\ step' = "pointer"
             /\ UNCHANGED <<adding, kept, buffer, window, phase>>
    BY <2>1, <2>2 DEF WriteBlob, Survive, network, TypeOK
  <2>3. CASE WriteBlob(adding.hash, "torn") /\ Die
    BY <2>1, <2>3, DieTypes DEF WriteBlob, network, TypeOK
  <2> QED
    BY <1>3, <2>2, <2>3 DEF PutBlob
<1>4. CASE PutPointer
  <2>1. adding.id \in Ids /\ adding.hash \in Hashes
    BY OfferFields DEF TypeOK
  <2>2. CASE WritePointer(adding.id, adding.hash) /\ Survive /\ step' = "intent"
             /\ kept' = kept \cup {adding} /\ UNCHANGED <<adding, buffer, window, phase>>
    BY <2>1, <2>2 DEF WritePointer, Survive, network, TypeOK
  <2>3. CASE WritePointer(adding.id, "torn") /\ Die
    BY <2>1, <2>3, DieTypes DEF WritePointer, network, TypeOK
  <2> QED
    BY <1>4, <2>2, <2>3 DEF PutPointer
<1>5. CASE WriteIntent
  <2>1. IntentOf(adding) \in Rows
    BY RowTypes DEF TypeOK
  <2>2. CASE AppendLine(IntentOf(adding)) /\ Survive /\ step' = "out"
             /\ buffer' = buffer \cup {adding} /\ UNCHANGED <<adding, kept, window, phase>>
    BY <2>1, <2>2, WriteTypes DEF Survive, network, TypeOK
  <2>3. CASE TearLine(IntentOf(adding)) /\ Die
    BY <2>1, <2>3, WriteTypes, DieTypes DEF network, TypeOK
  <2> QED
    BY <1>5, <2>2, <2>3 DEF WriteIntent
<1>6. CASE TakeWindow
  BY <1>6 DEF TakeWindow, Taken, network, disk, TypeOK
<1>7. CASE Upload \/ UploadReturns \/ UploadFails
  BY <1>7 DEF Upload, UploadReturns, UploadFails, network, disk, TypeOK
<1>8. CASE WriteCheckpoint
  <2>1. CASE AppendLine(CheckpointRow) /\ Survive /\ phase = "checkpoint" /\ phase' = "rows"
             /\ UNCHANGED <<step, adding, kept, buffer, window>>
    BY <2>1, RowTypes, WriteTypes DEF Survive, network, TypeOK
  <2>2. CASE TearLine(CheckpointRow) /\ Die
    BY <2>2, RowTypes, WriteTypes, DieTypes DEF network, TypeOK
  <2> QED
    BY <1>8, <2>1, <2>2 DEF WriteCheckpoint
<1>9. CASE Crash
  BY <1>9, DieTypes DEF Crash, network, disk, TypeOK
<1>10. CASE Restart
  BY <1>10 DEF Restart, memory, network, disk, TypeOK
<1>11. CASE UNCHANGED vars
  BY <1>11 DEF vars, memory, network, disk, TypeOK
<1>12. ASSUME NEW w \in posted, Accept(w) PROVE TypeOK'
  BY <1>12 DEF Accept, memory, disk, TypeOK
<1> QED
  BY <1>1, <1>2, <1>3, <1>4, <1>5, <1>6, <1>7, <1>8, <1>9, <1>10, <1>11, <1>12 DEF Next

(* Every reachable state of process and files is well typed *)
THEOREM TypeCorrect == Spec => []TypeOK
BY TypeInit, TypeNext, PTL DEF Spec

(***************************************************************************)
(* What is stored, accepted and proven                                     *)
(***************************************************************************)

(* The pointer and the blob of an offer are whole *)
Stored(o) == pointer[o.id] = o.hash /\ blob[o.hash] = "whole"

(* put() has stored what this process holds for kept, and the write it is  *)
(* in was not refused                                                      *)
KeptInv ==
  /\ \A o \in kept : Stored(o)
  /\ step \in {"blob", "pointer"} => ~Reused(adding)
  /\ step = "pointer" => blob[adding.hash] = "whole"

(* A write of the file leaves only lines of before, the row, and garbage *)
LEMMA WrittenLines ==
  ASSUME TypeOK, NEW row \in Rows, AppendLine(row) \/ TearLine(row)
  PROVE  Whole' \subseteq Whole \cup {row}
<1> DEFINE Lines == {log[m] : m \in DOMAIN log}
<1>1. Garbage \in Rows
  BY RowTypes
<1>2. /\ \A n \in DOMAIN Glued(row) : Glued(row)[n] \in Lines \cup {row, Garbage}
      /\ \A n \in DOMAIN Glued(Garbage) : Glued(Garbage)[n] \in Lines \cup {Garbage}
  BY <1>1, GluedShape
<1>3. log' \in {log, Glued(row), Glued(Garbage)}
  BY DEF AppendLine, TearLine
<1>4. \A n \in DOMAIN log' : log'[n] \in Lines \cup {row, Garbage}
  BY <1>2, <1>3
<1> QED
  BY <1>4 DEF Whole

(* Which of the registers a step changes: a row is written, or the file    *)
(* stays as it is                                                          *)
LEMMA FileSteps ==
  ASSUME TypeOK, [Next]_vars
  PROVE  \/ UNCHANGED <<log, unended, durable>>
         \/ \E row \in Rows : AppendLine(row) \/ TearLine(row)
<1>1. ASSUME NEW o \in Offers, WriteEvent(o)
      PROVE  \E row \in Rows : AppendLine(row) \/ TearLine(row)
  BY <1>1, RowTypes DEF WriteEvent
<1>2. CASE WriteIntent
  BY <1>2, RowTypes DEF WriteIntent, TypeOK
<1>3. CASE WriteCheckpoint
  BY <1>3, RowTypes DEF WriteCheckpoint
<1>4. CASE PutBlob
  BY <1>4 DEF PutBlob, WriteBlob
<1>5. CASE PutPointer
  BY <1>5 DEF PutPointer, WritePointer
<1>6. ASSUME \/ \E o \in Offers : AddBegins(o)
             \/ TakeWindow \/ Upload \/ UploadReturns \/ UploadFails
             \/ Crash \/ Restart \/ UNCHANGED vars \/ \E w \in posted : Accept(w)
      PROVE  UNCHANGED <<log, unended, durable>>
  BY <1>6 DEF AddBegins, TakeWindow, Upload, UploadReturns, UploadFails, Crash, Restart,
              Accept, vars, disk
<1> QED
  BY <1>1, <1>2, <1>3, <1>4, <1>5, <1>6 DEF Next

(* Every step keeps what is known of the stored contents *)
LEMMA KeptNext == TypeOK /\ KeptInv /\ [Next]_vars => KeptInv'
<1> SUFFICES ASSUME TypeOK, KeptInv, [Next]_vars PROVE KeptInv'
  OBVIOUS
<1>1. adding \in Offers /\ kept \subseteq Offers
  BY DEF TypeOK
<1>2. ASSUME Die PROVE KeptInv'
  BY <1>2 DEF Die, FreshMemory, KeptInv
<1>3. ASSUME UNCHANGED <<blob, pointer, kept, adding>>, step' \in {step, "intent", "out"}
      PROVE  KeptInv'
  BY <1>3 DEF KeptInv, Stored, Reused
<1>4. ASSUME NEW o \in Offers, AddBegins(o) PROVE KeptInv'
  BY <1>4 DEF AddBegins, disk, KeptInv, Stored, Reused
<1>5. ASSUME NEW o \in Offers, WriteEvent(o) PROVE KeptInv'
  BY <1>2, <1>3, <1>5 DEF WriteEvent, AppendLine
<1>6. CASE PutBlob
  <2>1. CASE WriteBlob(adding.hash, "whole") /\ step = "blob" /\ step' = "pointer"
             /\ UNCHANGED <<adding, kept>>
    <3>1. /\ blob' = [blob EXCEPT ![adding.hash] = "whole"] /\ pointer' = pointer
          /\ blob'[adding.hash] = "whole"
      BY <1>1, <2>1, OfferFields DEF WriteBlob, TypeOK
    <3>2. \A o \in kept : Stored(o)'
      BY <1>1, <3>1, OfferFields DEF KeptInv, Stored, TypeOK
    <3> QED
      BY <2>1, <3>1, <3>2 DEF KeptInv, Reused
  <2> QED
    BY <1>2, <1>6, <2>1 DEF PutBlob
<1>7. CASE PutPointer
  <2>1. CASE WritePointer(adding.id, adding.hash) /\ step = "pointer" /\ step' = "intent"
             /\ adding' = adding /\ kept' = kept \cup {adding}
    <3>1. /\ pointer' = [pointer EXCEPT ![adding.id] = adding.hash] /\ blob' = blob
          /\ pointer'[adding.id] = adding.hash /\ blob[adding.hash] = "whole"
      BY <1>1, <2>1, OfferFields DEF WritePointer, KeptInv, TypeOK
    <3>2. ASSUME NEW o \in kept PROVE Stored(o)'
      <4>1. pointer[o.id] = o.hash /\ blob[o.hash] = "whole" /\ o.id \in Ids /\ o.hash \in Hashes
        BY <1>1, OfferFields DEF KeptInv, Stored
      <4>2. o.id = adding.id => o.hash = adding.hash
        BY <2>1, <4>1, RetentionAssumption DEF KeptInv, Reused
      <4> QED
        BY <3>1, <4>1, <4>2 DEF Stored, TypeOK
    <3> QED
      BY <2>1, <3>1, <3>2 DEF KeptInv, Stored
  <2> QED
    BY <1>2, <1>7, <2>1 DEF PutPointer
<1>8. CASE WriteIntent
  BY <1>2, <1>3, <1>8 DEF WriteIntent, AppendLine
<1>9. CASE \/ TakeWindow \/ Upload \/ UploadReturns \/ UploadFails \/ Restart
         \/ UNCHANGED vars \/ \E w \in posted : Accept(w)
  BY <1>3, <1>9 DEF TakeWindow, Upload, UploadReturns, UploadFails, Restart, Accept, vars,
                    memory, disk
<1>10. CASE WriteCheckpoint
  BY <1>2, <1>3, <1>10 DEF WriteCheckpoint, AppendLine
<1>11. CASE Crash
  BY <1>2, <1>11 DEF Crash
<1> QED
  BY <1>4, <1>5, <1>6, <1>7, <1>8, <1>9, <1>10, <1>11 DEF Next

(* The pointer of an offer is right and its blob whole, or torn by the     *)
(* put() of another offer of the same content                              *)
Safe(o) ==
  /\ pointer[o.id] = o.hash
  /\ \/ blob[o.hash] = "whole"
     \/ blob[o.hash] = "torn" /\ \E p \in tearer[o.hash] \ {o} : p.hash = o.hash

(* What the rows of the file say is safe; put() works on no proven offer *)
RowsInv ==
  /\ \A r \in Whole : r.type = "event" /\ r.contentStored => Safe(r.offer)
  /\ step \in {"blob", "pointer"} => ~Proven(adding)

(* The rows of the file are rows, and an offer is proven by one of them *)
LEMMA WholeRows ==
  ASSUME TypeOK
  PROVE  /\ Whole \subseteq Rows
         /\ \A r \in Whole : r.type = "event" => r.offer \in Offers /\ Proven(r.offer)
<1>1. \A n \in DOMAIN log : log[n] \in Rows
  BY DEF TypeOK
<1>2. Whole \subseteq Rows
  BY <1>1 DEF Whole
<1>3. \A r \in Rows : r.type = "event" => r.offer \in Offers
  BY DEF Rows, Garbage, CheckpointRow, Intent
<1> QED
  BY <1>2, <1>3 DEF Proven

(* A row of another type leaves what is proven and what is stored alone *)
LEMMA OtherRow ==
  ASSUME TypeOK, NEW row \in Rows, row.type # "event", AppendLine(row) \/ TearLine(row)
  PROVE  /\ \A r \in Whole' : r.type = "event" => r \in Whole
         /\ \A o \in Offers : Proven(o)' => Proven(o)
<1>1. Whole' \subseteq Whole \cup {row}
  BY WrittenLines
<1> QED
  BY <1>1 DEF Proven

(* Every step keeps the rows true *)
LEMMA RowsNext ==
  TypeOK /\ KeptInv /\ RowsInv /\ [Next]_vars => RowsInv'
<1> SUFFICES ASSUME TypeOK, KeptInv, RowsInv, [Next]_vars PROVE RowsInv'
  OBVIOUS
<1>1. adding \in Offers /\ kept \subseteq Offers
  BY DEF TypeOK
<1>2. ASSUME UNCHANGED <<log, blob, tearer, pointer, adding>>, step' \in {step, "out"} PROVE RowsInv'
  BY <1>2 DEF RowsInv, Whole, Proven, Safe
<1>3. step' = "out" => step' \notin {"blob", "pointer"}
  OBVIOUS
<1>4. ASSUME NEW row \in Rows, row.type # "event", AppendLine(row) \/ TearLine(row),
             step' = "out"
      PROVE  RowsInv'
  <2>1. UNCHANGED <<blob, tearer, pointer>>
    BY <1>4 DEF AppendLine, TearLine
  <2> QED
    BY <1>3, <1>4, <2>1, OtherRow DEF RowsInv, Safe
<1>5. ASSUME NEW o \in Offers, AddBegins(o) PROVE RowsInv'
  <2>1. Whole' = Whole /\ ~Proven(o) /\ adding' = o /\ UNCHANGED <<blob, tearer, pointer>>
    BY <1>5 DEF AddBegins, disk, Whole
  <2> QED
    BY <2>1 DEF RowsInv, Proven, Safe
<1>6. ASSUME NEW o \in Offers, WriteEvent(o) PROVE RowsInv'
  <2>1. EventRow(o) \in Rows /\ (AppendLine(EventRow(o)) \/ TearLine(EventRow(o)))
    BY <1>6, RowTypes DEF WriteEvent
  <2>2. Whole' \subseteq Whole \cup {EventRow(o)} /\ UNCHANGED <<blob, tearer, pointer>>
    BY <2>1, WrittenLines DEF AppendLine, TearLine
  <2>3. EventRow(o).offer = o /\ (EventRow(o).contentStored => o \in kept)
    BY DEF EventRow
  <2>4. step' = "out"
    BY <1>6 DEF WriteEvent, Die, FreshMemory
  <2>5. \A r \in Whole' : r.type = "event" /\ r.contentStored => Safe(r.offer)
    BY <2>2, <2>3 DEF RowsInv, KeptInv, Stored, Safe
  <2> QED
    BY <2>2, <2>4, <2>5 DEF RowsInv, Safe
<1>7. CASE PutBlob
  <2>1. adding.hash \in Hashes /\ ~Proven(adding) /\ Whole' = Whole
    BY <1>1, <1>7, OfferFields DEF PutBlob, WriteBlob, RowsInv, Whole
  <2>2. PICK what \in {"whole", "torn"} :
          /\ pointer' = pointer /\ blob' = [blob EXCEPT ![adding.hash] = what]
          /\ tearer' = [tearer EXCEPT ![adding.hash] = IF what = "torn" THEN {adding} ELSE {}]
    BY <1>7 DEF PutBlob, WriteBlob
  <2>3. ASSUME NEW r \in Whole, r.type = "event", r.contentStored PROVE Safe(r.offer)'
    <3>1. /\ r.offer \in Offers /\ Proven(r.offer) /\ Safe(r.offer) /\ r.offer.hash \in Hashes
          /\ r.offer # adding
      BY <2>1, <2>3, WholeRows, OfferFields DEF RowsInv
    <3>2. CASE r.offer.hash = adding.hash
      <4>1. blob'[r.offer.hash] = what
        BY <2>1, <2>2, <3>2 DEF TypeOK
      <4>2. tearer'[r.offer.hash] = IF what = "torn" THEN {adding} ELSE {}
        BY <2>1, <2>2, <3>2 DEF TypeOK
      <4> QED
        BY <2>2, <3>1, <3>2, <4>1, <4>2 DEF Safe
    <3>3. CASE r.offer.hash # adding.hash
      BY <2>2, <3>1, <3>3 DEF Safe, TypeOK
    <3> QED
      BY <3>2, <3>3
  <2>4. step' = "out" \/ (step' = "pointer" /\ adding' = adding)
    BY <1>7 DEF PutBlob, Die, FreshMemory
  <2> QED
    BY <2>1, <2>3, <2>4 DEF RowsInv, Proven
<1>8. CASE PutPointer
  <2>1. adding.id \in Ids /\ ~Proven(adding) /\ ~Reused(adding) /\ Whole' = Whole
    BY <1>1, <1>8, OfferFields DEF PutPointer, WritePointer, RowsInv, KeptInv, Whole
  <2>2. UNCHANGED <<blob, tearer>> /\ \E what \in {adding.hash, "torn"} :
                                      pointer' = [pointer EXCEPT ![adding.id] = what]
    BY <1>8 DEF PutPointer, WritePointer
  <2>3. ASSUME NEW r \in Whole, r.type = "event", r.contentStored PROVE Safe(r.offer)'
    <3>1. /\ r.offer \in Offers /\ Proven(r.offer) /\ Safe(r.offer)
          /\ r.offer.hash \in Hashes /\ r.offer.id \in Ids
      BY <2>3, WholeRows, OfferFields DEF RowsInv
    <3>2. r.offer.id = adding.id => r.offer.hash = adding.hash
      BY <2>1, <3>1, RetentionAssumption DEF Safe, Reused
    <3>3. r.offer = adding \/ r.offer.id # adding.id
      BY <1>1, <3>1, <3>2, RetentionAssumption
    <3>4. pointer'[r.offer.id] = pointer[r.offer.id]
      BY <2>1, <2>2, <3>1, <3>3 DEF TypeOK
    <3> QED
      BY <2>2, <3>1, <3>4 DEF Safe
  <2>4. step' \in {"out", "intent"}
    BY <1>8 DEF PutPointer, Die, FreshMemory
  <2> QED
    BY <2>1, <2>3, <2>4 DEF RowsInv
<1>9. CASE WriteIntent
  <2>1. /\ IntentOf(adding) \in Rows /\ IntentOf(adding).type # "event"
        /\ AppendLine(IntentOf(adding)) \/ TearLine(IntentOf(adding))
    BY <1>1, <1>9, RowTypes DEF WriteIntent, IntentOf, Intent
  <2>2. step' = "out"
    BY <1>9 DEF WriteIntent, Die, FreshMemory
  <2> QED
    BY <1>4, <2>1, <2>2
<1>10. CASE WriteCheckpoint
  <2>1. /\ CheckpointRow \in Rows /\ CheckpointRow.type # "event"
        /\ AppendLine(CheckpointRow) \/ TearLine(CheckpointRow)
    BY <1>10, RowTypes DEF WriteCheckpoint, CheckpointRow
  <2>2. step' = "out"
    BY <1>10 DEF WriteCheckpoint, Die, FreshMemory
  <2> QED
    BY <1>4, <2>1, <2>2
<1>11. CASE Crash
  <2>1. Whole' = Whole /\ UNCHANGED <<blob, tearer, pointer>> /\ step' = "out"
    BY <1>11 DEF Crash, disk, Die, FreshMemory, Whole
  <2> QED
    BY <2>1 DEF RowsInv, Safe
<1>12. CASE \/ TakeWindow \/ Upload \/ UploadReturns \/ UploadFails \/ Restart
          \/ UNCHANGED vars \/ \E w \in posted : Accept(w)
  BY <1>2, <1>12 DEF TakeWindow, Upload, UploadReturns, UploadFails, Restart, Accept, vars,
                     memory, disk
<1> QED
  BY <1>5, <1>6, <1>7, <1>8, <1>9, <1>10, <1>11, <1>12 DEF Next

(* A proof row that says its content is stored tells the truth for good:   *)
(* the bytes are found under the eventId after any crash, retry and        *)
(* refused reuse of the eventId, unless a crash in the put() of another    *)
(* event of the same content has torn them                                 *)
THEOREM RowsTellTruth == Spec => []RetainedBytes
<1>1. Init => KeptInv /\ RowsInv
  BY DEF Init, KeptInv, RowsInv, Whole
<1>2. TypeOK /\ RowsInv => RetainedBytes
  <2> SUFFICES ASSUME TypeOK, RowsInv, NEW r \in Whole, r.type = "event", r.contentStored
               PROVE  \/ Get(r.offer.id) = r.offer.hash
                      \/ /\ pointer[r.offer.id] = r.offer.hash /\ blob[r.offer.hash] = "torn"
                         /\ \E o \in tearer[r.offer.hash] \ {r.offer} : o.hash = r.offer.hash
    BY DEF RetainedBytes
  <2>1. Safe(r.offer) /\ r.offer.hash \in Hashes
    BY WholeRows, OfferFields DEF RowsInv
  <2> QED
    BY <2>1, RetentionAssumption DEF Safe, Get
<1>3. TypeOK /\ KeptInv /\ RowsInv /\ [Next]_vars => RowsInv'
  BY RowsNext
<1> QED
  BY <1>1, <1>2, <1>3, KeptNext, TypeCorrect, PTL DEF Spec

(* What the network has accepted or may accept *)
Acceptable == accepted \cup UNION posted

(* What is proven was accepted, and strict mode has stored what it anchors *)
AcceptInv ==
  /\ phase = "answer" => window \in posted \/ window \subseteq accepted
  /\ phase \in {"checkpoint", "rows"} => window \subseteq accepted
  /\ \A o \in Offers : Proven(o) => o \in accepted
  /\ strict => window \subseteq kept
  /\ strict => \A o \in Acceptable : pointer[o.id] # "none" /\ blob[o.hash] # "none"

(* Nothing of the sink's file is missing or garbage before the first       *)
(* crash, and until the restart after it the file still reads and traces   *)
(* what waits and what was accepted                                        *)
Traced(o) == \E r \in Whole : r.type \in {"intent", "event"} /\ r.offer = o
Down == crashes = 1 /\ ~up
CleanInv ==
  crashes = 0 => /\ up /\ ~unended /\ \A n \in DOMAIN log : log[n] # Garbage
                 /\ buffer \cup window \cup Acceptable \subseteq {o \in Offers : Traced(o)}
                 /\ durable \subseteq Whole
DownInv ==
  Down => /\ Readable /\ durable \subseteq Whole
          /\ Acceptable \subseteq {o \in Offers : Traced(o)}

(* Every step keeps what is known of the accepted events *)
LEMMA AcceptNext == TypeOK /\ KeptInv /\ AcceptInv /\ [Next]_vars => AcceptInv'
<1> SUFFICES ASSUME TypeOK, KeptInv, AcceptInv, [Next]_vars PROVE AcceptInv'
  OBVIOUS
<1>1. adding \in Offers /\ window \subseteq Offers /\ Acceptable \subseteq Offers
  BY DEF TypeOK, Acceptable
(* The files of content, in the steps that do not write them *)
<1>2. ASSUME NEW row \in Rows, row.type # "event", AppendLine(row) \/ TearLine(row),
             strict' = strict, UNCHANGED network, kept \subseteq kept' \/ window' = {},
             window' \in {window, {}}, phase' = "answer" => phase = "answer",
             phase' \in {"checkpoint", "rows"} =>
               window' = {} \/ phase \in {"checkpoint", "rows"}
      PROVE  AcceptInv'
  <2>1. UNCHANGED <<blob, pointer>>
    BY <1>2 DEF AppendLine, TearLine
  <2>2. \A o \in Offers : Proven(o)' => Proven(o)
    BY <1>2, OtherRow
  <2> QED
    BY <1>2, <2>1, <2>2 DEF AcceptInv, Acceptable, network
<1>3. ASSUME NEW o \in Offers, AddBegins(o) PROVE AcceptInv'
  BY <1>3 DEF AddBegins, network, disk, AcceptInv, Acceptable, Proven, Whole
<1>4. ASSUME NEW o \in Offers, WriteEvent(o) PROVE AcceptInv'
  <2>1. EventRow(o) \in Rows /\ (AppendLine(EventRow(o)) \/ TearLine(EventRow(o)))
    BY <1>4, RowTypes DEF WriteEvent
  <2>2. Whole' \subseteq Whole \cup {EventRow(o)} /\ UNCHANGED <<blob, pointer>>
    BY <2>1, WrittenLines DEF AppendLine, TearLine
  <2>3. o \in accepted /\ EventRow(o).offer = o /\ window \subseteq accepted
    BY <1>4 DEF WriteEvent, AcceptInv, EventRow
  <2>4. \A p \in Offers : Proven(p)' => Proven(p) \/ p = o
    BY <2>2, <2>3 DEF Proven
  <2>5. /\ UNCHANGED network /\ strict' = strict /\ phase' # "answer"
        /\ window' \subseteq window /\ (window' = {} \/ kept' = kept)
    BY <1>4 DEF WriteEvent, AfterRow, Survive, Die, FreshMemory
  <2> QED
    BY <2>2, <2>3, <2>4, <2>5 DEF AcceptInv, Acceptable, network
<1>5. CASE PutBlob
  <2>1. adding.hash \in Hashes /\ Whole' = Whole
    BY <1>1, <1>5, OfferFields DEF PutBlob, WriteBlob, Whole
  <2>2. /\ pointer' = pointer
        /\ \E what \in {"whole", "torn"} : blob' = [blob EXCEPT ![adding.hash] = what]
    BY <1>5 DEF PutBlob, WriteBlob
  <2>3. \A o \in Offers : blob[o.hash] # "none" => blob'[o.hash] # "none"
    BY <2>1, <2>2, OfferFields DEF TypeOK
  <2>4. /\ UNCHANGED network /\ strict' = strict
        /\ \/ window' = {} /\ phase' = "idle"
           \/ window' = window /\ kept' = kept /\ phase' = phase
    BY <1>5 DEF PutBlob, Survive, Die, FreshMemory
  <2> QED
    BY <1>1, <2>1, <2>2, <2>3, <2>4 DEF AcceptInv, Acceptable, network, Proven
<1>6. CASE PutPointer
  <2>1. adding.id \in Ids /\ adding.hash \in Hashes /\ Whole' = Whole
    BY <1>1, <1>6, OfferFields DEF PutPointer, WritePointer, Whole
  <2>2. /\ blob' = blob
        /\ \E what \in {adding.hash, "torn"} : pointer' = [pointer EXCEPT ![adding.id] = what]
    BY <1>6 DEF PutPointer, WritePointer
  <2>3. \A o \in Offers : pointer[o.id] # "none" => pointer'[o.id] # "none"
    BY <2>1, <2>2, OfferFields, RetentionAssumption DEF TypeOK
  <2>4. /\ UNCHANGED network /\ strict' = strict
        /\ \/ window' = {} /\ phase' = "idle"
           \/ window' = window /\ kept \subseteq kept' /\ phase' = phase
    BY <1>6 DEF PutPointer, Survive, Die, FreshMemory
  <2> QED
    BY <1>1, <2>1, <2>2, <2>3, <2>4 DEF AcceptInv, Acceptable, network, Proven
<1>7. CASE WriteIntent
  <2>1. /\ IntentOf(adding) \in Rows /\ IntentOf(adding).type # "event"
        /\ AppendLine(IntentOf(adding)) \/ TearLine(IntentOf(adding))
    BY <1>1, <1>7, RowTypes DEF WriteIntent, IntentOf, Intent
  <2>2. /\ UNCHANGED network /\ strict' = strict
        /\ \/ window' = {} /\ phase' = "idle"
           \/ window' = window /\ kept' = kept /\ phase' = phase
    BY <1>7 DEF WriteIntent, Survive, Die, FreshMemory
  <2> QED
    BY <1>2, <2>1, <2>2
<1>8. CASE TakeWindow
  <2>1. /\ strict => window' \subseteq kept
        /\ phase' \notin {"answer", "checkpoint", "rows"} /\ Whole' = Whole
        /\ UNCHANGED <<strict, kept, posted, accepted, blob, pointer>>
    BY <1>8 DEF TakeWindow, Taken, network, disk, Whole
  <2> QED
    BY <2>1 DEF AcceptInv, Acceptable, Proven
<1>9. CASE Upload
  <2>1. /\ posted' = posted \cup {window} /\ accepted' = accepted /\ phase' = "answer"
        /\ window' = window /\ Whole' = Whole /\ UNCHANGED <<strict, kept, blob, pointer>>
    BY <1>9 DEF Upload, disk, Whole
  <2>2. strict => \A o \in window : pointer[o.id] # "none" /\ blob[o.hash] # "none"
    BY <1>1, OfferFields, RetentionAssumption DEF AcceptInv, KeptInv, Stored
  <2>3. Acceptable' = Acceptable \cup window
    BY <2>1 DEF Acceptable
  <2> QED
    BY <2>1, <2>2, <2>3 DEF AcceptInv, Proven
<1>12. CASE UploadReturns \/ UploadFails
  <2>1. /\ UNCHANGED <<posted, accepted, strict, kept, blob, pointer>> /\ Whole' = Whole
        /\ window' \subseteq window /\ phase' # "answer"
        /\ phase' \in {"checkpoint", "rows"} => phase = "answer" /\ window \notin posted
    BY <1>12 DEF UploadReturns, Answered, UploadFails, network, disk, Whole
  <2> QED
    BY <2>1 DEF AcceptInv, Acceptable, Proven
<1>13. ASSUME NEW w \in posted, Accept(w) PROVE AcceptInv'
  <2>1. /\ posted' = posted \ {w} /\ accepted' = accepted \cup w /\ Whole' = Whole
        /\ UNCHANGED <<strict, kept, window, phase, blob, pointer>>
    BY <1>13 DEF Accept, memory, disk, Whole
  <2>2. Acceptable' = Acceptable
    BY <2>1 DEF Acceptable
  <2> QED
    BY <2>1, <2>2 DEF AcceptInv, Proven
<1>10. CASE WriteCheckpoint
  <2>1. /\ CheckpointRow \in Rows /\ CheckpointRow.type # "event"
        /\ AppendLine(CheckpointRow) \/ TearLine(CheckpointRow)
    BY <1>10, RowTypes DEF WriteCheckpoint, CheckpointRow
  <2>2. /\ UNCHANGED network /\ strict' = strict /\ phase = "checkpoint"
        /\ phase' # "answer" /\ (window' = {} \/ (window' = window /\ kept' = kept))
    BY <1>10 DEF WriteCheckpoint, Survive, Die, FreshMemory
  <2> QED
    BY <1>2, <2>1, <2>2
<1>11. CASE Crash \/ Restart \/ UNCHANGED vars
  BY <1>11 DEF Crash, Die, FreshMemory, Restart, vars, memory, network, disk, AcceptInv,
               Acceptable, Proven, Whole
<1> QED
  BY <1>3, <1>4, <1>5, <1>6, <1>7, <1>8, <1>9, <1>10, <1>11, <1>12, <1>13 DEF Next

(* A row behind an intact file, written whole or torn *)
LEMMA CleanWrite ==
  ASSUME TypeOK, ~unended, \A n \in DOMAIN log : log[n] # Garbage,
         NEW row \in Rows, row # Garbage
  PROVE  /\ AppendLine(row) =>
              /\ ~unended' /\ \A n \in DOMAIN log' : log'[n] # Garbage
              /\ Whole' = Whole \cup {row} /\ durable' = durable \cup {row}
         /\ TearLine(row) => Readable' /\ Whole \subseteq Whole' /\ durable' = durable
<1>1. log \in Seq(Rows) /\ Garbage \in Rows
  BY RowTypes DEF TypeOK
<1>2. ASSUME NEW line \in Rows, log' = Append(log, line)
      PROVE  /\ DOMAIN log = 1 .. Len(log) /\ Len(log) \in Nat
             /\ DOMAIN log' = 1 .. Len(log) + 1 /\ Len(log') = Len(log) + 1
             /\ \A n \in DOMAIN log : log'[n] = log[n]
             /\ log'[Len(log) + 1] = line
             /\ \A n \in DOMAIN log' : n \in DOMAIN log \/ n = Len(log) + 1
             /\ Len(log) + 1 \in DOMAIN log'
  BY <1>1, <1>2
<1>3. Glued(row) = Append(log, row) /\ Glued(Garbage) = Append(log, Garbage)
  BY DEF Glued
<1>4. ASSUME AppendLine(row)
      PROVE  /\ ~unended' /\ \A n \in DOMAIN log' : log'[n] # Garbage
             /\ Whole' = Whole \cup {row} /\ durable' = durable \cup {row}
  BY <1>2, <1>3, <1>4 DEF AppendLine, Whole
<1>5. ASSUME TearLine(row) PROVE Readable' /\ Whole \subseteq Whole' /\ durable' = durable
  <2>1. CASE log' = log
    BY <1>5, <2>1 DEF TearLine, Readable, Whole
  <2>2. CASE log' = Append(log, Garbage) \/ log' = Append(log, row)
    BY <1>1, <1>2, <1>5, <2>2 DEF TearLine, Readable, Whole
  <2> QED
    BY <1>3, <1>5, <2>1, <2>2 DEF TearLine
<1> QED
  BY <1>4, <1>5

(* Every step keeps what is known of the sink until the first restart *)
LEMMA CleanNext == TypeOK /\ CleanInv /\ DownInv /\ [Next]_vars => CleanInv' /\ DownInv'
<1> SUFFICES ASSUME TypeOK, CleanInv, DownInv, [Next]_vars PROVE CleanInv' /\ DownInv'
  OBVIOUS
<1>1. adding \in Offers /\ crashes \in Nat
      /\ buffer \subseteq Offers /\ window \subseteq Offers /\ Acceptable \subseteq Offers
  BY RetentionAssumption DEF TypeOK, Acceptable
(* A crash ends the clean time, and leaves what the file traced *)
<1>2. ASSUME NEW row \in Rows, row # Garbage, Die,
             TearLine(row) \/ UNCHANGED <<log, unended, durable>>
      PROVE  CleanInv' /\ DownInv'
  <2>1. crashes' = crashes + 1 /\ Acceptable' = Acceptable
    BY <1>2 DEF Die, network, Acceptable
  <2>2. CASE crashes = 0
    <3>1. Readable' /\ Whole \subseteq Whole' /\ durable' = durable
      BY <1>2, <2>2, CleanWrite DEF CleanInv, Readable, Whole
    <3>2. durable \subseteq Whole /\ \A o \in Acceptable : Traced(o)
      BY <2>2 DEF CleanInv
    <3> QED
      BY <1>1, <2>1, <2>2, <3>1, <3>2 DEF CleanInv, DownInv, Traced
  <2>3. CASE crashes # 0
    BY <1>1, <2>1, <2>3 DEF CleanInv, DownInv, Down
  <2> QED
    BY <2>2, <2>3
(* A row that is written whole *)
<1>3. ASSUME NEW row \in Rows, row # Garbage, up, Survive, AppendLine(row),
             NEW o \in Offers, row.type \in {"intent", "event"} => row.offer = o,
             buffer' \cup window' \subseteq buffer \cup window
             \/ (row.type \in {"intent", "event"}
                 /\ buffer' \cup window' \subseteq buffer \cup window \cup {o})
      PROVE  CleanInv' /\ DownInv'
  <2>1. UNCHANGED <<up, crashes>> /\ Acceptable' = Acceptable
    BY <1>3 DEF Survive, network, Acceptable
  <2>2. CASE crashes = 0
    <3>1. /\ ~unended' /\ \A n \in DOMAIN log' : log'[n] # Garbage
          /\ Whole' = Whole \cup {row} /\ durable' = durable \cup {row}
      BY <1>3, <2>2, CleanWrite DEF CleanInv
    <3>2. \A p \in buffer \cup window \cup Acceptable : Traced(p)'
      BY <2>2, <3>1 DEF CleanInv, Traced
    <3>3. row.type \in {"intent", "event"} => Traced(o)'
      BY <1>3, <3>1 DEF Traced
    <3>4. buffer' \cup window' \cup Acceptable' \subseteq {p \in Offers : Traced(p)'}
      BY <1>1, <1>3, <2>1, <3>2, <3>3
    <3> QED
      BY <1>3, <2>1, <2>2, <3>1, <3>4 DEF CleanInv, DownInv, Down
  <2>3. CASE crashes # 0
    BY <1>3, <2>1, <2>3 DEF CleanInv, DownInv, Down
  <2> QED
    BY <2>2, <2>3
(* A step that leaves the sink's file alone *)
<1>4. ASSUME up, UNCHANGED <<up, crashes, log, unended, durable>>,
             buffer' \cup window' \cup Acceptable' \subseteq buffer \cup window \cup Acceptable
      PROVE  CleanInv' /\ DownInv'
  BY <1>4 DEF CleanInv, DownInv, Down, Traced, Whole
<1>5. ASSUME NEW o \in Offers, AddBegins(o) PROVE CleanInv' /\ DownInv'
  BY <1>4, <1>5 DEF AddBegins, network, disk, Acceptable
<1>6. ASSUME NEW o \in Offers, WriteEvent(o) PROVE CleanInv' /\ DownInv'
  <2>1. /\ EventRow(o) \in Rows /\ EventRow(o) # Garbage
        /\ EventRow(o).type = "event" /\ EventRow(o).offer = o
    BY RowTypes DEF EventRow, Garbage
  <2>2. CASE /\ up /\ AppendLine(EventRow(o)) /\ Survive
             /\ window' = window \ {o} /\ buffer' = buffer
    BY <1>3, <2>1, <2>2
  <2>3. CASE TearLine(EventRow(o)) /\ Die
    BY <1>2, <2>1, <2>3
  <2> QED
    BY <1>6, <2>2, <2>3 DEF WriteEvent
<1>7. CASE PutBlob \/ PutPointer
  <2>1. UNCHANGED <<log, unended, durable>> /\ up
    BY <1>7 DEF PutBlob, PutPointer, WriteBlob, WritePointer
  <2>2. Die \/ UNCHANGED <<up, crashes, buffer, window, posted, accepted>>
    BY <1>7 DEF PutBlob, PutPointer, Survive, network
  <2>3. CheckpointRow \in Rows /\ CheckpointRow # Garbage
    BY RowTypes DEF CheckpointRow, Garbage
  <2> QED
    BY <1>2, <1>4, <2>1, <2>2, <2>3 DEF Acceptable
<1>8. CASE WriteIntent
  <2>1. /\ IntentOf(adding) \in Rows /\ IntentOf(adding) # Garbage
        /\ IntentOf(adding).type = "intent" /\ IntentOf(adding).offer = adding
    BY <1>1, RowTypes DEF IntentOf, Intent, Garbage
  <2>2. CASE /\ up /\ AppendLine(IntentOf(adding)) /\ Survive
             /\ buffer' = buffer \cup {adding} /\ window' = window
    BY <1>1, <1>3, <2>1, <2>2
  <2>3. CASE TearLine(IntentOf(adding)) /\ Die
    BY <1>2, <2>1, <2>3
  <2> QED
    BY <1>8, <2>2, <2>3 DEF WriteIntent
<1>9. CASE WriteCheckpoint
  <2>1. /\ CheckpointRow \in Rows /\ CheckpointRow # Garbage
        /\ CheckpointRow.type \notin {"intent", "event"}
    BY RowTypes DEF CheckpointRow, Garbage
  <2>2. CASE /\ up /\ AppendLine(CheckpointRow) /\ Survive
             /\ buffer' = buffer /\ window' = window
    BY <1>1, <1>3, <2>1, <2>2
  <2>3. CASE TearLine(CheckpointRow) /\ Die
    BY <1>2, <2>1, <2>3
  <2> QED
    BY <1>9, <2>2, <2>3 DEF WriteCheckpoint
<1>10. CASE TakeWindow \/ Upload \/ UploadReturns \/ UploadFails
  <2>1. /\ up /\ UNCHANGED <<up, crashes, log, unended, durable>>
        /\ buffer' \cup window' \subseteq buffer \cup window
        /\ posted' \subseteq posted \cup {window} /\ accepted' = accepted
    BY <1>10 DEF TakeWindow, Taken, Upload, UploadReturns, UploadFails, network, disk
  <2> QED
    BY <1>4, <2>1 DEF Acceptable
<1>14. ASSUME NEW w \in posted, Accept(w) PROVE CleanInv' /\ DownInv'
  <2>1. /\ UNCHANGED <<up, crashes, log, unended, durable, buffer, window>>
        /\ Acceptable' = Acceptable
    BY <1>14 DEF Accept, memory, disk, Acceptable
  <2> QED
    BY <2>1 DEF CleanInv, DownInv, Down, Traced, Whole, Readable
<1>11. CASE Crash
  <2>1. CheckpointRow \in Rows /\ CheckpointRow # Garbage
    BY RowTypes DEF CheckpointRow, Garbage
  <2> QED
    BY <1>2, <1>11, <2>1 DEF Crash, disk
<1>12. CASE Restart
  BY <1>12 DEF Restart, CleanInv, DownInv, Down
<1>13. CASE UNCHANGED vars
  BY <1>13 DEF vars, memory, network, disk, CleanInv, DownInv, Down, Traced, Whole,
               Readable, Acceptable
<1> QED
  BY <1>5, <1>6, <1>7, <1>8, <1>9, <1>10, <1>11, <1>12, <1>13, <1>14 DEF Next

(* All of them hold at first *)
LEMMA CleanInit == Init => KeptInv /\ AcceptInv /\ CleanInv /\ DownInv
BY DEF Init, KeptInv, AcceptInv, Acceptable, Proven, Whole, CleanInv, DownInv, Down

(* A crash costs at most the row it tears: until the restart after it the  *)
(* sink's file reads and holds every row whose append returned             *)
THEOREM CrashCostsOneRow == Spec => []CrashKeepsTrace
<1>1. CleanInv /\ DownInv => CrashKeepsTrace
  BY DEF CleanInv, DownInv, Down, CrashKeepsTrace, Readable
<1> QED
  BY <1>1, CleanInit, CleanNext, TypeCorrect, PTL DEF Spec

(* What was accepted is traced until the restart after a crash, what is    *)
(* proven was accepted, and strict mode anchors only what it stored        *)
THEOREM AcceptedIsTraced == Spec => []LedgerEnumerated
<1>1. AcceptInv /\ CleanInv /\ DownInv => LedgerEnumerated
  BY DEF AcceptInv, Acceptable, CleanInv, DownInv, Down, Traced, LedgerEnumerated
<1> QED
  BY <1>1, CleanInit, CleanNext, AcceptNext, KeptNext, TypeCorrect, PTL DEF Spec
=============================================================================
