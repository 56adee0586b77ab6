--------------------------- MODULE BatcherProofs ----------------------------
(***************************************************************************)
(* Theorems about the batcher and the bundles of its receipts, for every   *)
(* set of events, every option record and any number of flush() calls.     *)
(***************************************************************************)
EXTENDS Evidence, DataInduction, FiniteSetTheorems, SequenceTheorems, TLAPS

(***************************************************************************)
(* Lemmas on sequences                                                     *)
(***************************************************************************)

(* Appending adds one element to the set of a sequence's elements *)
LEMMA RangeAppend ==
  ASSUME NEW S, NEW s \in Seq(S), NEW e \in S
  PROVE  Range(Append(s, e)) = Range(s) \cup {e}
<1> DEFINE t == Append(s, e)
<1>1. /\ Len(s) \in Nat /\ DOMAIN s = 1 .. Len(s) /\ DOMAIN t = 1 .. Len(s) + 1
      /\ \A i \in 1 .. Len(s) : t[i] = s[i]
      /\ t[Len(s) + 1] = e
  OBVIOUS
<1> HIDE DEF t
<1>2. ASSUME NEW x \in Range(t) PROVE x \in Range(s) \cup {e}
  <2>1. PICK i \in 1 .. Len(s) + 1 : x = t[i]
    BY <1>1, <1>2 DEF Range
  <2>2. CASE i = Len(s) + 1
    BY <1>1, <2>1, <2>2
  <2>3. CASE i # Len(s) + 1
    <3>1. i \in 1 .. Len(s)
      BY <1>1, <2>3
    <3> QED
      BY <1>1, <2>1, <3>1 DEF Range
  <2> QED
    BY <2>2, <2>3
<1>3. ASSUME NEW x \in Range(s) PROVE x \in Range(t)
  <2>1. PICK i \in 1 .. Len(s) : x = s[i]
    BY <1>1, <1>3 DEF Range
  <2>2. i \in 1 .. Len(s) + 1 /\ x = t[i]
    BY <1>1, <2>1
  <2> QED
    BY <1>1, <2>2 DEF Range
<1>4. e \in Range(t)
  <2>1. Len(s) + 1 \in DOMAIN t
    BY <1>1
  <2> QED
    BY <1>1, <2>1 DEF Range
<1> QED
  BY <1>2, <1>3, <1>4 DEF t

(* The elements of a sequence over S are in S *)
LEMMA RangeSubset ==
  ASSUME NEW S, NEW s \in Seq(S)
  PROVE  Range(s) \subseteq S
BY DEF Range

(* The empty sequence has no elements *)
LEMMA RangeEmpty == Range(<<>>) = {}
BY DEF Range

(***************************************************************************)
(* Type correctness                                                        *)
(***************************************************************************)

(* A constructed batcher is well typed *)
LEMMA TypeInit == Init => TypeOK
<1> SUFFICES ASSUME Init PROVE TypeOK
  OBVIOUS
<1> USE BatcherAssumption DEF Init
<1>1. CallerOK
  <2>1. opts \in BatchOptions
    BY Zenon
  <2>2. queue \in Seq(SUBSET Events) /\ offered \in Seq(Events) /\ buffer \in Seq(Events)
    BY SMT
  <2> QED BY <2>1, <2>2 DEF CallerOK
<1>2. FlushOK
  BY DEF FlushOK
<1>3. EventsOK
  BY DEF EventsOK, NoReceipt
<1>4. ChainOK
  BY DEF ChainOK, Positions
<1> QED
  BY <1>1, <1>2, <1>3, <1>4 DEF TypeOK

Receipts ==
  [tx : Nat, leaf : Nat, count : Nat, checkpoint : [prev : Nat, leaves : Seq(Events)],
   contentStored : {"none", "pending", "ok", "failed"}]

(* What the running flush has in hand for a leaf is a receipt *)
LEMMA ReceiptTyped ==
  ASSUME TypeOK, phase = "receipt" PROVE ReceiptFor(written + 1) \in Receipts
<1>1. /\ tx \in Nat /\ prev \in Nat /\ written + 1 \in Nat /\ Len(leaves) \in Nat
      /\ leaves \in Seq(Events) /\ leaves[written + 1] \in Events
  BY DEF TypeOK, FlushOK, ChainOK
<1>2. Checkpoint \in [prev : Nat, leaves : Seq(Events)]
  BY <1>1 DEF Checkpoint
<1>3. ContentStored(written + 1) \in {"none", "pending", "ok", "failed"}
  BY <1>1 DEF ContentStored, TypeOK, EventsOK
<1> QED
  BY <1>1, <1>2, <1>3 DEF ReceiptFor, Receipts

(* Every step of the callers, the timers and the flush keeps the types and *)
(* the registers of the flush in shape                                     *)
LEMMA TypeNext == TypeOK /\ [Next]_vars => TypeOK'
<1> SUFFICES ASSUME TypeOK, [Next]_vars PROVE TypeOK'
  OBVIOUS
<1> USE DEF TypeOK
<1>q. ASSUME queue # <<>>
      PROVE  Head(queue) \in SUBSET Events /\ Tail(queue) \in Seq(SUBSET Events)
  BY <1>q, HeadTailProperties DEF CallerOK
<1>r. Range(offered) \in SUBSET Events
  BY RangeSubset DEF CallerOK
<1>o. /\ opts.maxEvents \in Nat /\ opts.maxAge \in BOOLEAN /\ opts.flushOnIdle \in BOOLEAN
  BY DEF CallerOK, BatchOptions
<1> USE DEF callerVars, bufferVars, jobVars, sinkVars, Positions
<1>1. ASSUME NEW e \in Events, Add(e) PROVE TypeOK'
  <2> USE <1>1 DEF Add
  <2>1. CallerOK'
    <3>1. Range(offered) \cup {e} \in SUBSET Events
      BY <1>r
    <3>2. queue' \in Seq(SUBSET Events)
      BY <3>1, <1>o DEF CallerOK
    <3>3. windowOpen' \in BOOLEAN /\ ageTimer' \in BOOLEAN /\ idleTimer' \in BOOLEAN
      BY <1>o DEF CallerOK
    <3>4. offered' \in Seq(Events) /\ buffer' \in Seq(Events)
      BY DEF CallerOK
    <3> QED
      BY <3>2, <3>3, <3>4 DEF CallerOK
  <2>2. FlushOK'
    BY DEF FlushOK
  <2>3. EventsOK'
    BY DEF EventsOK, WriteIntent
  <2>4. ChainOK'
    BY DEF ChainOK
  <2> QED BY <2>1, <2>2, <2>3, <2>4
<1>2. ASSUME NEW e \in Events, PutSettles(e) PROVE TypeOK'
  <2> USE <1>2 DEF PutSettles
  <2>1. CallerOK'
    BY DEF CallerOK
  <2>2. FlushOK'
    BY DEF FlushOK
  <2>3. EventsOK'
    BY DEF EventsOK
  <2>4. ChainOK'
    BY DEF ChainOK
  <2> QED BY <2>1, <2>2, <2>3, <2>4
<1>3. ASSUME NEW e \in Events, IntentLands(e) PROVE TypeOK'
  <2> USE <1>3 DEF IntentLands
  <2>1. CallerOK'
    BY DEF CallerOK
  <2>2. FlushOK'
    BY DEF FlushOK
  <2>3. EventsOK'
    BY DEF EventsOK
  <2>4. ChainOK'
    BY DEF ChainOK
  <2> QED BY <2>1, <2>2, <2>3, <2>4
<1>4. CASE Flush
  <2> USE <1>4 DEF Flush
  <2>1. CallerOK'
    <3>1. /\ windowOpen' \in BOOLEAN /\ closed' \in BOOLEAN
          /\ ageTimer' \in BOOLEAN /\ idleTimer' \in BOOLEAN
      BY Zenon DEF CallerOK, QueueFlush
    <3>2. /\ queue' \in Seq(SUBSET Events) /\ buffer' \in Seq(Events)
          /\ offered' \in Seq(Events) /\ calls' \in Nat /\ opts' \in BatchOptions
      BY <1>r DEF CallerOK, QueueFlush
    <3> QED
      BY <3>1, <3>2 DEF CallerOK
  <2>2. FlushOK'
    BY DEF FlushOK
  <2>3. EventsOK'
    BY DEF EventsOK
  <2>4. ChainOK'
    BY DEF ChainOK
  <2> QED BY <2>1, <2>2, <2>3, <2>4
<1>5. CASE Close
  <2> USE <1>5 DEF Close
  <2>1. CallerOK'
    <3>1. /\ windowOpen' \in BOOLEAN /\ closed' \in BOOLEAN
          /\ ageTimer' \in BOOLEAN /\ idleTimer' \in BOOLEAN
      BY Zenon DEF CallerOK, QueueFlush
    <3>2. /\ queue' \in Seq(SUBSET Events) /\ buffer' \in Seq(Events)
          /\ offered' \in Seq(Events) /\ calls' \in Nat /\ opts' \in BatchOptions
      BY <1>r DEF CallerOK, QueueFlush
    <3> QED
      BY <3>1, <3>2 DEF CallerOK
  <2>2. FlushOK'
    BY DEF FlushOK
  <2>3. EventsOK'
    BY DEF EventsOK
  <2>4. ChainOK'
    BY DEF ChainOK
  <2> QED BY <2>1, <2>2, <2>3, <2>4
<1>6. CASE AgeFires
  <2> USE <1>6 DEF AgeFires
  <2>1. CallerOK'
    <3>1. /\ windowOpen' \in BOOLEAN /\ closed' \in BOOLEAN
          /\ ageTimer' \in BOOLEAN /\ idleTimer' \in BOOLEAN
      BY Zenon DEF CallerOK, QueueFlush
    <3>2. /\ queue' \in Seq(SUBSET Events) /\ buffer' \in Seq(Events)
          /\ offered' \in Seq(Events) /\ calls' \in Nat /\ opts' \in BatchOptions
      BY <1>r DEF CallerOK, QueueFlush
    <3> QED
      BY <3>1, <3>2 DEF CallerOK
  <2>2. FlushOK'
    BY DEF FlushOK
  <2>3. EventsOK'
    BY DEF EventsOK
  <2>4. ChainOK'
    BY DEF ChainOK
  <2> QED BY <2>1, <2>2, <2>3, <2>4
<1>7. CASE IdleFires
  <2> USE <1>7 DEF IdleFires
  <2>1. CallerOK'
    <3>1. /\ windowOpen' \in BOOLEAN /\ closed' \in BOOLEAN
          /\ ageTimer' \in BOOLEAN /\ idleTimer' \in BOOLEAN
      BY Zenon DEF CallerOK, QueueFlush
    <3>2. /\ queue' \in Seq(SUBSET Events) /\ buffer' \in Seq(Events)
          /\ offered' \in Seq(Events) /\ calls' \in Nat /\ opts' \in BatchOptions
      BY <1>r DEF CallerOK, QueueFlush
    <3> QED
      BY <3>1, <3>2 DEF CallerOK
  <2>2. FlushOK'
    BY DEF FlushOK
  <2>3. EventsOK'
    BY DEF EventsOK
  <2>4. ChainOK'
    BY DEF ChainOK
  <2> QED BY <2>1, <2>2, <2>3, <2>4
<1>8. CASE FlushEmpty
  <2> USE <1>8 DEF FlushEmpty
  <2>1. CallerOK'
    <3>1. /\ windowOpen' \in BOOLEAN /\ closed' \in BOOLEAN
          /\ ageTimer' \in BOOLEAN /\ idleTimer' \in BOOLEAN
      BY Zenon DEF CallerOK, ClearTimers
    <3>2. /\ queue' \in Seq(SUBSET Events) /\ buffer' \in Seq(Events)
          /\ offered' \in Seq(Events) /\ calls' \in Nat /\ opts' \in BatchOptions
      BY <1>q DEF CallerOK, ClearTimers
    <3> QED
      BY <3>1, <3>2 DEF CallerOK
  <2>2. FlushOK'
    BY <1>q DEF FlushOK, CallerOK, ClearTimers
  <2>3. EventsOK'
    BY DEF EventsOK
  <2>4. ChainOK'
    BY DEF ChainOK
  <2> QED BY <2>1, <2>2, <2>3, <2>4
<1>9. CASE TakeWindow
  <2> USE <1>9 DEF TakeWindow
  <2>1. CallerOK'
    <3>1. /\ windowOpen' \in BOOLEAN /\ closed' \in BOOLEAN
          /\ ageTimer' \in BOOLEAN /\ idleTimer' \in BOOLEAN
      BY Zenon DEF CallerOK, ClearTimers
    <3>2. /\ queue' \in Seq(SUBSET Events) /\ buffer' \in Seq(Events)
          /\ offered' \in Seq(Events) /\ calls' \in Nat /\ opts' \in BatchOptions
      BY <1>q DEF CallerOK, ClearTimers
    <3> QED
      BY <3>1, <3>2 DEF CallerOK
  <2>2. FlushOK'
    BY <1>q DEF FlushOK, CallerOK, ClearTimers
  <2>3. EventsOK'
    BY DEF EventsOK
  <2>4. ChainOK'
    BY DEF ChainOK, ClearTimers
  <2> QED BY <2>1, <2>2, <2>3, <2>4
<1>10. CASE Gate
  <2> USE <1>10 DEF Gate
  <2>1. CallerOK'
    BY DEF CallerOK
  <2>2. FlushOK'
    BY DEF FlushOK, Kept
  <2>3. EventsOK'
    BY DEF EventsOK
  <2>4. ChainOK'
    BY DEF ChainOK, Kept
  <2> QED BY <2>1, <2>2, <2>3, <2>4
<1>11. CASE GateLast
  <2> USE <1>11 DEF GateLast
  <2>1. CallerOK'
    BY DEF CallerOK
  <2>2. FlushOK'
    <3>1. window[gated + 1] \in Events
      BY DEF FlushOK
    <3>2. CASE Kept(window[gated + 1]) = <<>>
      BY <3>2 DEF FlushOK, Return
    <3>3. CASE Kept(window[gated + 1]) # <<>>
      <4>1. Kept(window[gated + 1]) \in Seq(Events)
        BY <3>1 DEF FlushOK, Kept
      <4> QED
        BY <3>3, <4>1 DEF FlushOK
    <3> QED
      BY <3>2, <3>3
  <2>3. EventsOK'
    BY DEF EventsOK, Kept, Reject, Return
  <2>4. ChainOK'
    BY DEF ChainOK, Kept, Reject, Return
  <2> QED BY <2>1, <2>2, <2>3, <2>4
<1>12. CASE Seal
  <2> USE <1>12 DEF Seal
  <2>1. CallerOK'
    BY DEF CallerOK
  <2>2. FlushOK'
    BY DEF FlushOK
  <2>3. EventsOK'
    BY DEF EventsOK
  <2>4. ChainOK'
    BY DEF ChainOK
  <2> QED BY <2>1, <2>2, <2>3, <2>4
<1>13. CASE ReadHead
  <2> USE <1>13 DEF ReadHead
  <2>1. CallerOK'
    BY DEF CallerOK
  <2>2. FlushOK'
    BY DEF FlushOK
  <2>3. EventsOK'
    BY DEF EventsOK
  <2>4. ChainOK'
    BY DEF ChainOK
  <2> QED BY <2>1, <2>2, <2>3, <2>4
<1>14. CASE Upload
  <2> USE <1>14 DEF Upload
  <2>1. CallerOK'
    BY DEF CallerOK
  <2>2. FlushOK'
    BY DEF FlushOK, Checkpoint
  <2>3. EventsOK'
    BY DEF EventsOK
  <2>4. ChainOK'
    <3>1. Checkpoint \in [prev : Nat, leaves : Seq(Events)]
      BY DEF ChainOK, FlushOK, Checkpoint
    <3>2. /\ posted' \in Seq([prev : Nat, leaves : Seq(Events)])
          /\ Len(posted') = Len(posted) + 1 /\ Len(posted) \in Nat
      BY <3>1 DEF ChainOK
    <3>3. DOMAIN posted = 1 .. Len(posted) /\ DOMAIN posted' = 1 .. Len(posted')
      BY <3>2 DEF ChainOK
    <3> QED
      BY <3>2, <3>3 DEF ChainOK
  <2> QED BY <2>1, <2>2, <2>3, <2>4
<1>15. CASE SetHead
  <2> USE <1>15 DEF SetHead
  <2>1. CallerOK'
    BY DEF CallerOK
  <2>2. FlushOK'
    BY DEF FlushOK
  <2>3. EventsOK'
    BY DEF EventsOK
  <2>4. ChainOK'
    BY DEF ChainOK
  <2> QED BY <2>1, <2>2, <2>3, <2>4
<1>16. CASE WriteCheckpoint
  <2> USE <1>16 DEF WriteCheckpoint
  <2>1. CallerOK'
    BY DEF CallerOK
  <2>2. FlushOK'
    BY DEF FlushOK
  <2>3. EventsOK'
    BY DEF EventsOK
  <2>4. ChainOK'
    BY DEF ChainOK
  <2> QED BY <2>1, <2>2, <2>3, <2>4
<1>17. CASE WriteRow
  <2> USE <1>17 DEF WriteRow
  <2>1. CallerOK'
    BY DEF CallerOK
  <2>2. FlushOK'
    BY DEF FlushOK
  <2>3. EventsOK'
    <3>1. leaves[written + 1] \in Events
      BY DEF FlushOK
    <3>2. row' \in [Events -> {"none", "intent", "proof"}]
      BY <3>1 DEF EventsOK, WriteEvent
    <3> QED
      BY <3>2 DEF EventsOK
  <2>4. ChainOK'
    BY DEF ChainOK
  <2> QED BY <2>1, <2>2, <2>3, <2>4
<1>18. CASE Resolve
  <2> USE <1>18 DEF Resolve, RowWritten
  <2>1. CallerOK'
    BY DEF CallerOK
  <2>2. FlushOK'
    <3>1. CASE written + 1 = Len(leaves)
      BY <3>1 DEF FlushOK, Return
    <3>2. CASE written + 1 # Len(leaves)
      BY <3>2 DEF FlushOK
    <3> QED
      BY <3>1, <3>2
  <2>3. EventsOK'
    <3>1. leaves[written + 1] \in Events
      BY DEF FlushOK
    <3>3. promise' \in [Events -> {"none", "pending", "resolved", "retention", "failed"}]
      BY <3>1 DEF EventsOK
    <3>4. receipt' \in [Events -> Receipts]
      BY <3>1, ReceiptTyped DEF EventsOK, Receipts
    <3> QED
      BY <3>3, <3>4 DEF EventsOK, Receipts
  <2>4. ChainOK'
    BY DEF ChainOK, Return
  <2> QED BY <2>1, <2>2, <2>3, <2>4
<1>19. CASE Throw
  <2> USE <1>19 DEF Throw
  <2>1. CallerOK'
    BY DEF CallerOK
  <2>2. FlushOK'
    BY DEF FlushOK, Reject, Return
  <2>3. EventsOK'
    BY DEF EventsOK, Reject, Return
  <2>4. ChainOK'
    BY DEF ChainOK, Reject, Return
  <2> QED BY <2>1, <2>2, <2>3, <2>4
<1>20. CASE SetHeadThrow
  <2> USE <1>20 DEF SetHeadThrow
  <2>1. CallerOK'
    BY DEF CallerOK
  <2>2. FlushOK'
    BY DEF FlushOK, Reject, Return
  <2>3. EventsOK'
    BY DEF EventsOK, Reject, Return
  <2>4. ChainOK'
    BY DEF ChainOK, Reject, Return
  <2> QED BY <2>1, <2>2, <2>3, <2>4
<1>21. CASE UNCHANGED vars
  <2> USE <1>21 DEF vars
  <2>1. CallerOK'
    BY DEF CallerOK, callerVars, bufferVars
  <2>2. FlushOK'
    BY DEF FlushOK, jobVars
  <2>3. EventsOK'
    BY DEF EventsOK, sinkVars
  <2>4. ChainOK'
    BY DEF ChainOK, jobVars, sinkVars, Positions
  <2> QED
    BY <2>1, <2>2, <2>3, <2>4
<1>22. ASSUME NEW n \in DOMAIN posted, Accept(n) PROVE TypeOK'
  <2> USE <1>22 DEF Accept
  <2>1. CallerOK'
    BY DEF CallerOK
  <2>2. FlushOK'
    BY DEF FlushOK
  <2>3. EventsOK'
    BY DEF EventsOK
  <2>4. ChainOK'
    BY DEF ChainOK
  <2> QED BY <2>1, <2>2, <2>3, <2>4
<1> QED
  BY <1>1, <1>2, <1>3, <1>4, <1>5, <1>6, <1>7, <1>8, <1>9, <1>10, <1>11, <1>12, <1>13, <1>14,
     <1>15, <1>16, <1>17, <1>18, <1>19, <1>20, <1>21, <1>22
     DEF Next, DoFlush

(* Every reachable state is well typed, and the registers of the running   *)
(* flush agree with the await it stands at                                 *)
THEOREM TypeCorrect == Spec => []TypeOK
BY TypeInit, TypeNext, PTL DEF Spec

(***************************************************************************)
(* No buffered event is forgotten                                          *)
(***************************************************************************)

(* No step leaves a buffered event without a trigger or an open window     *)
(* without events                                                          *)
LEMMA TriggersNext == TypeOK /\ TriggersInv /\ [Next]_vars => TriggersInv'
<1> SUFFICES ASSUME TypeOK, TriggersInv, [Next]_vars PROVE TriggersInv'
  OBVIOUS
<1> USE DEF TriggersInv, TriggersHold, callerVars, bufferVars
<1>t. /\ opts.maxEvents \in Nat /\ opts.maxAge \in BOOLEAN /\ opts.flushOnIdle \in BOOLEAN
      /\ buffer \in Seq(Events) /\ offered \in Seq(Events) /\ queue \in Seq(SUBSET Events)
      /\ windowOpen \in BOOLEAN /\ closed \in BOOLEAN
      /\ ageTimer \in BOOLEAN /\ idleTimer \in BOOLEAN
  BY DEF TypeOK, CallerOK, BatchOptions
<1>q. ASSUME NEW S PROVE Append(queue, S) # <<>>
  BY <1>t
<1>1. ASSUME NEW e \in Events, Add(e) PROVE TriggersInv'
  <2> USE <1>1 DEF Add
  <2>1. windowOpen' /\ buffer' # <<>> /\ Len(buffer') = Len(buffer) + 1
    BY <1>t
  <2>2. CASE opts.maxEvents > 0 /\ Len(buffer) + 1 >= opts.maxEvents
    <3>1. queue' # <<>>
      BY <2>2, <1>q
    <3> QED
      BY <2>1, <3>1
  <2>3. CASE ~(opts.maxEvents > 0 /\ Len(buffer) + 1 >= opts.maxEvents)
    <3>1. queue' = queue /\ (opts.maxEvents > 0 => Len(buffer') < opts.maxEvents)
      BY <2>1, <2>3, <1>t
    <3>2. queue # <<>> \/ (opts.maxAge => ageTimer')
      BY Zenon, <1>t
    <3>3. (opts.flushOnIdle => idleTimer') /\ ~closed' /\ opts' = opts
      BY Zenon
    <3> QED
      BY Zenon, <2>1, <3>1, <3>2, <3>3
  <2> QED
    BY <2>2, <2>3
<1>2. CASE Flush \/ Close \/ AgeFires \/ IdleFires
  <2>1. queue' # <<>> /\ UNCHANGED <<buffer, windowOpen>>
    BY <1>2, <1>q DEF Flush, Close, AgeFires, IdleFires, QueueFlush
  <2> QED
    BY Zenon, <2>1
<1>3. CASE FlushEmpty \/ TakeWindow
  <2>1. buffer' = <<>> /\ windowOpen' = FALSE
    BY Zenon, <1>3 DEF FlushEmpty, TakeWindow, ClearTimers
  <2> QED
    BY Zenon, <2>1
<1>4. CASE UNCHANGED <<opts, buffer, windowOpen, ageTimer, idleTimer, closed, queue>>
  BY Zenon, <1>4
<1>5. ASSUME NEW e \in Events, PutSettles(e) \/ IntentLands(e) PROVE TriggersInv'
  BY Zenon, <1>4, <1>5 DEF PutSettles, IntentLands
<1>6. CASE Gate \/ GateLast \/ Seal \/ ReadHead \/ Upload \/ SetHead \/ WriteCheckpoint
           \/ WriteRow \/ Resolve \/ Throw \/ SetHeadThrow
  <2>1. UNCHANGED <<opts, buffer, windowOpen, ageTimer, idleTimer, closed, queue>>
    BY Zenon, <1>6 DEF Gate, GateLast, Seal, ReadHead, Upload, SetHead, WriteCheckpoint,
       WriteRow, Resolve, Throw, SetHeadThrow
  <2> QED
    BY <1>4, <2>1
<1>7. ASSUME NEW n \in DOMAIN posted, Accept(n) PROVE TriggersInv'
  BY Zenon, <1>4, <1>7 DEF Accept
<1>8. CASE UNCHANGED vars
  BY Zenon, <1>4, <1>8 DEF vars
<1> QED
  BY Zenon, <1>1, <1>2, <1>3, <1>5, <1>6, <1>7, <1>8 DEF Next, DoFlush

(* Whatever interleaving of adds, timers, flushes and close(): a buffered  *)
(* event has a flush queued for it or every configured trigger armed       *)
THEOREM TriggersAlwaysHold == Spec => []TriggersHold
<1>1. Init => TriggersInv
  BY DEF Init, TriggersInv, TriggersHold
<1>2. TriggersInv => TriggersHold
  BY DEF TriggersInv
<1> QED
  BY TypeCorrect, TriggersNext, <1>1, <1>2, PTL DEF Spec

(***************************************************************************)
(* The chain of one batcher is linear                                      *)
(***************************************************************************)

(* Between reading the head and setting it no step moves the head, and the *)
(* uploaded checkpoint is the one that was built                           *)
LEMMA LinkNext == TypeOK /\ LinkInv /\ [Next]_vars => LinkInv'
<1> SUFFICES ASSUME TypeOK, LinkInv, [Next]_vars PROVE LinkInv'
  OBVIOUS
<1> USE DEF LinkInv
<1>1. CASE UNCHANGED <<phase, posted, accepted, tx, prev, leaves, head>>
  BY <1>1 DEF Checkpoint
<1>2. ASSUME NEW e \in Events, Add(e) \/ PutSettles(e) \/ IntentLands(e) PROVE LinkInv'
  BY <1>1, <1>2 DEF Add, PutSettles, IntentLands, jobVars
<1>3. CASE Flush \/ Close \/ AgeFires \/ IdleFires \/ FlushEmpty
  BY <1>1, <1>3 DEF Flush, Close, AgeFires, IdleFires, FlushEmpty, jobVars
<1>4. CASE TakeWindow \/ Gate \/ GateLast \/ Seal \/ ReadHead \/ Throw \/ SetHeadThrow
  BY <1>4 DEF TakeWindow, Gate, GateLast, Seal, ReadHead, Throw, SetHeadThrow, Return,
     jobVars
<1>5. CASE Upload
  <2>1. /\ posted \in Seq([prev : Nat, leaves : Seq(Events)])
        /\ Checkpoint \in [prev : Nat, leaves : Seq(Events)]
    BY DEF TypeOK, ChainOK, FlushOK, Checkpoint
  <2>2. posted'[tx'] = Checkpoint
    BY <1>5, <2>1 DEF Upload
  <2> QED
    BY <1>5, <2>2 DEF Upload, Checkpoint
<1>6. CASE SetHead \/ WriteCheckpoint \/ WriteRow
  BY <1>6 DEF SetHead, Answered, WriteCheckpoint, WriteRow, jobVars, Checkpoint
<1>7. CASE Resolve
  BY <1>7 DEF Resolve, RowWritten, Return, Checkpoint
<1>8. ASSUME NEW n \in DOMAIN posted, Accept(n) PROVE LinkInv'
  BY <1>8 DEF Accept, jobVars, Checkpoint
<1>9. CASE UNCHANGED vars
  BY <1>1, <1>9 DEF vars, jobVars
<1> QED
  BY <1>2, <1>3, <1>4, <1>5, <1>6, <1>7, <1>8, <1>9 DEF Next, DoFlush

(* The uploaded checkpoint and the head it was built on stay as the        *)
(* running flush left them                                                 *)
LEMMA LinkCorrect == Spec => []LinkInv
<1>1. Init => LinkInv
  BY DEF Init, LinkInv
<1> QED
  BY TypeCorrect, LinkNext, <1>1, PTL DEF Spec

(* Every checkpoint that becomes the chain head links to the head it       *)
(* replaces, whatever failed in the windows before it                      *)
THEOREM ChainIsLinear == Spec => HeadAdvances
<1> DEFINE Advance == head' # head => head' \in accepted /\ posted[head'].prev = head
<1>1. TypeOK /\ LinkInv /\ [Next]_vars => [Advance]_vars
  <2> SUFFICES ASSUME TypeOK, LinkInv, [Next]_vars, head' # head PROVE Advance
    BY DEF vars
  <2>1. phase = "setHead" /\ tx \in accepted /\ head' = tx
    BY DEF Next, DoFlush, vars, Add, PutSettles, IntentLands, Flush, Close, AgeFires,
       IdleFires, FlushEmpty, TakeWindow, Gate, GateLast, Seal, ReadHead, Upload, SetHead,
       Answered, WriteCheckpoint, WriteRow, Resolve, Throw, SetHeadThrow, Accept
  <2>2. posted[tx].prev = head
    BY <2>1 DEF LinkInv, Checkpoint
  <2> QED
    BY <2>1, <2>2
<1> QED
  BY TypeCorrect, LinkCorrect, <1>1, PTL DEF Spec, HeadAdvances

(***************************************************************************)
(* Answers, truth and order: every event a flush covers is answered,       *)
(* unstored content is not uploaded, and receipts are true                 *)
(***************************************************************************)

Answers == {"none", "pending", "resolved", "retention", "failed"}

(* Appending a new element keeps a sequence free of repetitions *)
LEMMA InjectiveAppend ==
  ASSUME NEW S, NEW s \in Seq(S), NEW e \in S, Injective(s), e \notin Range(s)
  PROVE  Injective(Append(s, e))
BY DEF Injective, Range

(* Facts about the well-typed registers that the steps below share *)
LEMMA Shapes ==
  ASSUME TypeOK
  PROVE  /\ offered \in Seq(Events) /\ buffer \in Seq(Events) /\ queue \in Seq(SUBSET Events)
         /\ window \in Seq(Events) /\ leaves \in Seq(Events)
         /\ Range(offered) \subseteq Events /\ Range(buffer) \subseteq Events
         /\ Range(window) \subseteq Events /\ Range(leaves) \subseteq Events
         /\ gated \in Nat /\ written \in Nat
         /\ DOMAIN leaves = 1 .. Len(leaves) /\ DOMAIN window = 1 .. Len(window)
         /\ Len(leaves) \in Nat /\ Len(window) \in Nat
<1>1. /\ offered \in Seq(Events) /\ buffer \in Seq(Events) /\ queue \in Seq(SUBSET Events)
      /\ window \in Seq(Events) /\ leaves \in Seq(Events)
  BY DEF TypeOK, CallerOK, FlushOK
<1>2. gated \in Nat /\ written \in Nat
  BY <1>1 DEF TypeOK, FlushOK
<1> QED
  BY <1>1, <1>2, RangeSubset

(* The leaves are events of the running window *)
LEMMA LeavesOfWindow == TypeOK /\ GateInv => Range(leaves) \subseteq Range(window)
<1> SUFFICES ASSUME TypeOK, GateInv, NEW e \in Range(leaves) PROVE e \in Range(window)
  OBVIOUS
<1>1. PICK i \in DOMAIN leaves : e = leaves[i]
  BY DEF Range
<1>2. PICK j \in 1 .. gated : e = window[j]
  BY <1>1 DEF GateInv
<1>3. gated \in 0 .. Len(window) /\ DOMAIN window = 1 .. Len(window) /\ Len(window) \in Nat
  BY Shapes DEF TypeOK, FlushOK
<1>4. j \in DOMAIN window
  BY <1>3
<1> QED
  BY <1>2, <1>4 DEF Range

(* An event in the running window was offered *)
LEMMA WindowOffered ==
  ASSUME TypeOK, PlaceInv, GateInv
  PROVE  \A e \in Range(window) : promise[e] # "none"
<1> SUFFICES ASSUME NEW e \in Range(window) PROVE promise[e] # "none"
  OBVIOUS
<1>1. CASE phase = "idle"
  BY <1>1, RangeEmpty DEF TypeOK, FlushOK
<1>2. CASE phase = "gate"
  BY <1>2 DEF PlaceInv
<1>3. CASE phase \notin {"idle", "gate"}
  <2>1. CASE e \in Settled
    BY <2>1 DEF Settled
  <2>2. CASE e \in Range(leaves)
    <3>1. PICK i \in 1 .. Len(leaves) : e = leaves[i]
      BY <2>2, Shapes DEF Range
    <3>2. i \in 1 .. written \/ i \in written + 1 .. Len(leaves)
      BY Shapes
    <3> QED
      BY <1>3, <3>1, <3>2 DEF GateInv
  <2> QED
    BY <1>3, <2>1, <2>2 DEF GateInv
<1> QED
  BY <1>1, <1>2, <1>3

(* What rejecting does to the promises: nothing settled moves, and what    *)
(* was pending in S is settled with the reason                             *)
LEMMA RejectSettles ==
  ASSUME TypeOK, NEW S, NEW reason \in {"retention", "failed"}, Reject(S, reason)
  PROVE  /\ \A e \in Events : promise'[e] = IF e \in S /\ promise[e] = "pending"
                                           THEN reason ELSE promise[e]
         /\ Settled \subseteq Settled'
         /\ \A e \in Events \cap S : promise[e] # "none" => e \in Settled'
         /\ \A e \in Events : promise'[e] = "none" <=> promise[e] = "none"
<1>1. \A e \in Events : promise'[e] = IF e \in S /\ promise[e] = "pending"
                                      THEN reason ELSE promise[e]
  BY DEF Reject
<1>2. \A e \in Events : promise[e] \in {"none", "pending", "resolved", "retention", "failed"}
  BY DEF TypeOK, EventsOK
<1> QED
  BY <1>1, <1>2 DEF Settled

(***************************************************************************)
(* PlaceInv                                                                *)
(***************************************************************************)

(* At the catch every event of the window becomes settled *)
LEMMA ThrowSettles ==
  ASSUME TypeOK, PlaceInv, GateInv, Reject(Range(window), "failed")
  PROVE  Range(window) \subseteq Settled'
BY RejectSettles, WindowOffered, Shapes

(* Returning with the whole window settled keeps every event accounted for *)
LEMMA ReturnPlace ==
  ASSUME TypeOK, PlaceInv, Return, UNCHANGED <<offered, buffer, queue>>,
         Settled \subseteq Settled', Range(window) \subseteq Settled',
         \A e \in Events : promise'[e] = "none" <=> promise[e] = "none",
         \A e \in Range(buffer) : promise'[e] = promise[e]
  PROVE  PlaceInv'
<1>1. window' = <<>> /\ Range(window') = {} /\ job' = {} /\ flushed' = flushed \cup job
      /\ phase' = "idle"
  BY RangeEmpty DEF Return
<1>2. Range(offered') = {e \in Events : promise'[e] # "none"}
  BY DEF PlaceInv
<1>3. Range(offered') \subseteq Settled' \cup Range(window') \cup Range(buffer')
  BY <1>1 DEF PlaceInv
<1>4. flushed' \subseteq Settled'
  BY <1>1 DEF PlaceInv
<1>5. Injective(window')
  BY <1>1 DEF Injective
<1> QED
  BY <1>1, <1>2, <1>3, <1>4, <1>5 DEF PlaceInv, Injective

(* No step loses an offered event: it is buffered, in the window or        *)
(* settled                                                                 *)
LEMMA PlaceNext == TypeOK /\ PlaceInv /\ GateInv /\ [Next]_vars => PlaceInv'
<1> SUFFICES ASSUME TypeOK, PlaceInv, GateInv, [Next]_vars PROVE PlaceInv'
  OBVIOUS
<1>0. CASE UNCHANGED <<offered, promise, window, buffer, job, queue, flushed, phase>>
  BY <1>0 DEF PlaceInv, Settled, Injective
<1>1. ASSUME NEW e \in Events, Add(e) PROVE PlaceInv'
  <2>1. promise[e] = "none" /\ e \notin Range(offered)
    BY <1>1 DEF Add, PlaceInv
  <2>2. /\ Range(offered') = Range(offered) \cup {e}
        /\ Range(buffer') = Range(buffer) \cup {e}
    BY <1>1, RangeAppend, Shapes DEF Add
  <2>3. promise' = [promise EXCEPT ![e] = "pending"] /\ promise \in [Events -> Answers]
    BY <1>1 DEF Add, TypeOK, EventsOK, Answers
  <2>4. Settled' = Settled
    BY <2>1, <2>3 DEF Settled
  <2>5. Range(offered') = {x \in Events : promise'[x] # "none"}
    BY <2>2, <2>3 DEF PlaceInv
  <2>6. UNCHANGED <<window, job, flushed, phase>>
    BY <1>1 DEF Add, jobVars
  <2>7. \A i \in DOMAIN queue' : queue'[i] \subseteq Range(offered')
    BY <1>1, <2>2, Shapes DEF Add, PlaceInv
  <2>8. e \notin Range(buffer) /\ e \notin Range(window)
    BY <2>1, WindowOffered DEF PlaceInv
  <2>9. Injective(buffer')
    BY <1>1, <2>8, InjectiveAppend, Shapes DEF Add, PlaceInv
  <2>10. \A x \in Range(buffer') : promise'[x] = "pending"
    BY <2>2, <2>3, Shapes DEF PlaceInv
  <2>11. phase = "gate" => \A x \in Range(window) : promise'[x] = "pending"
    BY <2>3, <2>8, Shapes DEF PlaceInv
  <2> QED
    BY <2>2, <2>4, <2>5, <2>6, <2>7, <2>8, <2>9, <2>10, <2>11 DEF PlaceInv, Injective
<1>2. ASSUME NEW e \in Events, PutSettles(e) \/ IntentLands(e) PROVE PlaceInv'
  BY <1>0, <1>2 DEF PutSettles, IntentLands, callerVars, bufferVars, jobVars
<1>3. CASE Flush \/ Close \/ AgeFires \/ IdleFires
  <2>1. /\ queue' = Append(queue, Range(offered))
        /\ UNCHANGED <<offered, promise, window, buffer, job, flushed, phase>>
    BY <1>3 DEF Flush, Close, AgeFires, IdleFires, QueueFlush, callerVars, bufferVars, jobVars
  <2>2. \A i \in DOMAIN queue' : queue'[i] \subseteq Range(offered')
    BY <2>1, Shapes DEF PlaceInv
  <2> QED
    BY <2>1, <2>2 DEF PlaceInv, Settled, Injective
<1>4. CASE FlushEmpty \/ TakeWindow
  <2>1. /\ Head(queue) \subseteq Range(offered)
        /\ \A i \in DOMAIN Tail(queue) : Tail(queue)[i] \subseteq Range(offered)
        /\ window = <<>>
    BY <1>4, Shapes DEF FlushEmpty, TakeWindow, PlaceInv, TypeOK, FlushOK
  <2>2. Range(window) = {}
    BY <2>1, RangeEmpty
  <2>3. UNCHANGED <<offered, promise>> /\ queue' = Tail(queue) /\ Settled' = Settled
    BY <1>4 DEF FlushEmpty, TakeWindow, callerVars, Settled
  <2>4. CASE FlushEmpty
    <3>1. Range(buffer) = {} /\ UNCHANGED <<buffer, window, job, phase>>
          /\ flushed' = flushed \cup Head(queue)
      BY <2>4, RangeEmpty DEF FlushEmpty, jobVars
    <3>2. flushed' \subseteq Settled
      BY <2>1, <2>2, <3>1 DEF PlaceInv
    <3> QED
      BY <2>1, <2>3, <3>1, <3>2 DEF PlaceInv, Injective
  <2>5. CASE TakeWindow
    <3>1. window' = buffer /\ buffer' = <<>> /\ Range(buffer') = {} /\ job' = Head(queue)
          /\ UNCHANGED flushed
      BY <2>5, RangeEmpty DEF TakeWindow
    <3>2. Injective(buffer')
      BY <3>1 DEF Injective
    <3>3. job' \subseteq Settled \cup Range(buffer)
      BY <2>1, <2>2, <3>1 DEF PlaceInv
    <3> QED
      BY <2>1, <2>2, <2>3, <3>1, <3>2, <3>3 DEF PlaceInv, Injective
  <2> QED
    BY <1>4, <2>4, <2>5
<1>5. CASE Gate
  BY <1>0, <1>5 DEF Gate, callerVars, bufferVars
<1>6. CASE GateLast
  <2> DEFINE e == window[gated + 1]
             out == {x \in Range(window) : Unstored(x)}
  <2>1. /\ Reject(out, "retention") /\ phase = "gate" /\ gated + 1 = Len(window)
        /\ UNCHANGED <<offered, buffer, queue>>
    BY <1>6 DEF GateLast, callerVars, bufferVars
  <2>2. /\ Settled \subseteq Settled'
        /\ \A x \in Events \cap out : promise[x] # "none" => x \in Settled'
        /\ \A x \in Events : promise'[x] = "none" <=> promise[x] = "none"
        /\ \A x \in Events \ out : promise'[x] = promise[x]
    <3> HIDE DEF out
    <3> QED
      BY <2>1, RejectSettles
  <2>3. \A x \in Range(buffer) : promise'[x] = promise[x]
    BY <2>2, Shapes DEF PlaceInv
  <2>4. CASE Kept(e) = <<>>
    <3>1. Return
      BY <1>6, <2>4 DEF GateLast
    <3>2. leaves = <<>> /\ Unstored(e)
      BY <2>4, Shapes DEF Kept
    <3>3. \A j \in 1 .. Len(window) : Unstored(window[j])
      <4>1. \A j \in 1 .. gated : Unstored(window[j])
        BY <3>2, RangeEmpty DEF GateInv
      <4>2. \A j \in 1 .. Len(window) : j \in 1 .. gated \/ j = Len(window)
        BY <2>1, Shapes
      <4> QED
        BY <2>1, <3>2, <4>1, <4>2
    <3>4. Range(window) \subseteq out
      BY <3>3, Shapes DEF Range
    <3>5. Range(window) \subseteq Settled'
      BY <2>1, <2>2, <3>4, Shapes DEF PlaceInv
    <3> QED
      BY <2>1, <2>2, <2>3, <3>1, <3>5, ReturnPlace
  <2>5. CASE Kept(e) # <<>>
    <3>1. UNCHANGED <<job, window, flushed>> /\ phase' = "seal"
      BY <1>6, <2>5 DEF GateLast
    <3>2. Range(offered') = {x \in Events : promise'[x] # "none"}
      BY <2>1, <2>2 DEF PlaceInv
    <3> QED
      BY <2>1, <2>2, <2>3, <3>1, <3>2 DEF PlaceInv, Injective
  <2> QED
    BY <2>4, <2>5
<1>7. CASE Seal \/ ReadHead \/ Upload \/ SetHead \/ WriteCheckpoint \/ WriteRow
  <2>1. UNCHANGED <<offered, promise, window, buffer, job, queue, flushed>> /\ phase' # "gate"
    BY <1>7 DEF Seal, ReadHead, Upload, SetHead, WriteCheckpoint, WriteRow, callerVars, bufferVars, jobVars
  <2> QED
    BY <2>1 DEF PlaceInv, Settled, Injective
<1>8. CASE Resolve
  <2> DEFINE e == leaves[written + 1]
  <2>1. /\ e \in Range(leaves) /\ e \in Events /\ e \in Range(window) /\ promise[e] = "pending"
        /\ phase = "receipt"
    <3>1. phase = "receipt" /\ written + 1 \in 1 .. Len(leaves)
      BY <1>8, Shapes DEF Resolve, RowWritten, TypeOK, FlushOK
    <3>2. promise[e] = "pending"
      <4>1. \A i \in written + 1 .. Len(leaves) : promise[leaves[i]] = "pending"
        BY <3>1 DEF GateInv
      <4>2. written + 1 \in written + 1 .. Len(leaves)
        BY <3>1, Shapes
      <4> QED
        BY <4>1, <4>2
    <3>3. e \in Range(leaves) /\ e \in Events
      BY <3>1, Shapes DEF Range
    <3>4. PICK j \in 1 .. gated : e = window[j]
      BY <3>1, Shapes DEF GateInv
    <3>5. j \in DOMAIN window
      BY <3>4, Shapes DEF TypeOK, FlushOK
    <3> QED
      BY <3>1, <3>2, <3>3, <3>4, <3>5 DEF Range
  <2>2. promise' = [promise EXCEPT ![e] = "resolved"] /\ promise \in [Events -> Answers]
        /\ UNCHANGED <<offered, buffer, queue>>
    BY <1>8 DEF Resolve, TypeOK, EventsOK, Answers, callerVars, bufferVars
  <2>3. Settled' = Settled \cup {e}
    BY <2>1, <2>2 DEF Settled
  <2>4. \A x \in Events : promise'[x] = "none" <=> promise[x] = "none"
    BY <2>1, <2>2
  <2>5. \A x \in Range(buffer) : promise'[x] = promise[x]
    BY <2>1, <2>2, Shapes DEF PlaceInv
  <2>6. CASE written + 1 = Len(leaves)
    <3>1. Return
      BY <1>8, <2>6 DEF Resolve
    <3>2. Range(leaves) \subseteq Settled'
      <4>1. \A i \in 1 .. Len(leaves) : i \in 1 .. written \/ leaves[i] = e
        BY <2>6, Shapes
      <4>2. \A i \in 1 .. written : leaves[i] \in Settled
        BY <2>1, <2>6, Shapes DEF GateInv, Settled
      <4> QED
        BY <2>3, <4>1, <4>2, Shapes DEF Range
    <3>3. Range(window) \subseteq Settled'
      BY <2>1, <2>3, <3>2 DEF GateInv
    <3> QED
      BY <2>2, <2>3, <2>4, <2>5, <3>1, <3>3, ReturnPlace
  <2>7. CASE written + 1 # Len(leaves)
    <3>1. UNCHANGED <<job, window, flushed>> /\ phase' = "eventRows"
      BY <1>8, <2>7 DEF Resolve
    <3>2. Range(offered') = {x \in Events : promise'[x] # "none"}
      BY <2>2, <2>4 DEF PlaceInv
    <3> QED
      BY <2>1, <2>2, <2>3, <2>5, <3>1, <3>2 DEF PlaceInv, Injective
  <2> QED
    BY <2>6, <2>7
<1>9. CASE Throw \/ SetHeadThrow
  <2>1. /\ Reject(Range(window), "failed") /\ Return
        /\ UNCHANGED <<offered, buffer, queue>>
    BY <1>9 DEF Throw, SetHeadThrow, callerVars, bufferVars
  <2>2. \A x \in Range(buffer) : promise'[x] = promise[x]
    BY <2>1, RejectSettles, Shapes DEF PlaceInv
  <2> QED
    BY <2>1, <2>2, RejectSettles, ThrowSettles, ReturnPlace
<1>10. CASE UNCHANGED vars
  BY <1>0, <1>10 DEF vars, callerVars, bufferVars, jobVars
<1>11. ASSUME NEW n \in DOMAIN posted, Accept(n) PROVE PlaceInv'
  BY <1>0, <1>11 DEF Accept, callerVars, bufferVars, jobVars
<1> QED
  BY <1>1, <1>2, <1>3, <1>4, <1>5, <1>6, <1>7, <1>8, <1>9, <1>10, <1>11 DEF Next, DoFlush

(***************************************************************************)
(* GateInv                                                                 *)
(***************************************************************************)

(* Returning leaves an empty window and no leaf *)
LEMMA ReturnGate == Return => GateInv'
<1> SUFFICES ASSUME Return PROVE GateInv'
  OBVIOUS
<1>1. phase' = "idle" /\ leaves' = <<>> /\ gated' = 0 /\ Range(leaves') = {}
  BY RangeEmpty DEF Return
<1> QED
  BY <1>1 DEF GateInv, Injective

(* Every step keeps what the retention gate established about the leaves *)
LEMMA GateNext == TypeOK /\ PlaceInv /\ GateInv /\ [Next]_vars => GateInv'
<1> SUFFICES ASSUME TypeOK, PlaceInv, GateInv, [Next]_vars PROVE GateInv'
  OBVIOUS
<1>0. CASE UNCHANGED <<opts, leaves, put, gated, window, phase, promise, written>>
  BY <1>0 DEF GateInv, Unstored, Settled, Injective
<1>l. \A e \in Range(leaves) : e \in Range(window)
  <2> SUFFICES ASSUME NEW e \in Range(leaves) PROVE e \in Range(window)
    OBVIOUS
  <2>1. PICK i \in DOMAIN leaves : e = leaves[i]
    BY DEF Range
  <2>2. PICK j \in 1 .. gated : leaves[i] = window[j]
    BY DEF GateInv
  <2>3. gated \in 0 .. Len(window)
    BY DEF TypeOK, FlushOK
  <2>4. j \in DOMAIN window
    BY <2>2, <2>3, Shapes
  <2> QED
    BY <2>1, <2>2, <2>4 DEF Range
<1>1. ASSUME NEW e \in Events, Add(e) PROVE GateInv'
  <2>1. e \notin Range(window) /\ promise[e] = "none"
    BY <1>1, WindowOffered DEF Add, PlaceInv
  <2>2. UNCHANGED <<opts, leaves, gated, window, phase, written>>
    BY <1>1 DEF Add, jobVars
  <2>3. \A x \in Events \ {e} : put'[x] = put[x] /\ promise'[x] = promise[x]
    BY <1>1 DEF Add, TypeOK, EventsOK
  <2>4. \A x \in Range(window) : put'[x] = put[x] /\ promise'[x] = promise[x]
    BY <2>1, <2>3, Shapes
  <2>5. \A i \in DOMAIN leaves : leaves[i] \in Range(leaves)
    BY DEF Range
  <2>6. Settled \subseteq Settled'
    BY <2>1, <2>3 DEF Settled
  <2>7. \A e1 \in Range(leaves') : put'[e1] # "pending" /\ ~Unstored(e1)'
    BY <1>l, <2>2, <2>4 DEF GateInv, Unstored
  <2>8. \A j \in 1 .. gated' : window'[j] \in Range(leaves') \/ Unstored(window[j])'
    <3>1. \A j \in 1 .. gated : window[j] \in Range(window)
      BY Shapes DEF Range, TypeOK, FlushOK
    <3> QED
      BY <2>2, <2>4, <3>1 DEF GateInv, Unstored
  <2>9. ASSUME phase' \notin {"idle", "gate"}
        PROVE  /\ \A i \in 1 .. written' : promise'[leaves'[i]] = "resolved"
               /\ \A i \in written' + 1 .. Len(leaves') : promise'[leaves'[i]] = "pending"
    <3>1. written \in 0 .. Len(leaves)
      BY DEF TypeOK, FlushOK
    <3>2. \A i \in 1 .. Len(leaves) : promise'[leaves[i]] = promise[leaves[i]]
      BY <1>l, <2>4, <2>5, Shapes
    <3> QED
      <4>1. /\ \A i \in 1 .. written : promise[leaves[i]] = "resolved"
            /\ \A i \in written + 1 .. Len(leaves) : promise[leaves[i]] = "pending"
        BY <2>2, <2>9 DEF GateInv
      <4>2. /\ \A i \in 1 .. written : i \in 1 .. Len(leaves)
            /\ \A i \in written + 1 .. Len(leaves) : i \in 1 .. Len(leaves)
        BY <3>1, Shapes
      <4> QED
        BY <2>2, <3>2, <4>1, <4>2
  <2> QED
    BY <2>2, <2>6, <2>7, <2>8, <2>9 DEF GateInv, Injective
<1>2. ASSUME NEW e \in Events, PutSettles(e) PROVE GateInv'
  <2>1. UNCHANGED <<opts, leaves, gated, window, phase, promise, written>>
    BY <1>2 DEF PutSettles, callerVars, jobVars
  <2>2. /\ put[e] = "pending" /\ put'[e] # "pending"
        /\ \A x \in Events \ {e} : put'[x] = put[x]
    BY <1>2 DEF PutSettles, TypeOK, EventsOK
  <2>3. \A x \in Range(leaves) : put'[x] # "pending" /\ ~Unstored(x)'
    <3> SUFFICES ASSUME NEW x \in Range(leaves)
                 PROVE  put'[x] # "pending" /\ ~Unstored(x)'
      OBVIOUS
    <3>1. put[x] # "pending" /\ ~Unstored(x)
      BY DEF GateInv
    <3>2. x \in Events /\ x # e
      BY <2>2, <3>1, Shapes
    <3>3. put'[x] = put[x] /\ opts' = opts
      BY <2>1, <2>2, <3>2
    <3> QED
      BY <3>1, <3>3 DEF Unstored
  <2>4. \A x \in Events : Unstored(x) => Unstored(x)'
    BY <2>1, <2>2 DEF Unstored
  <2>5. \A j \in 1 .. gated : window[j] \in Events
    BY Shapes DEF TypeOK, FlushOK
  <2>6. Settled' = Settled
    BY <2>1 DEF Settled
  <2> QED
    BY <2>1, <2>3, <2>4, <2>5, <2>6 DEF GateInv, Injective
<1>3. ASSUME NEW e \in Events, IntentLands(e) PROVE GateInv'
  BY <1>0, <1>3 DEF IntentLands, callerVars, jobVars
<1>4. CASE Flush \/ Close \/ AgeFires \/ IdleFires \/ FlushEmpty
  BY <1>0, <1>4 DEF Flush, Close, AgeFires, IdleFires, FlushEmpty, callerVars, jobVars
<1>5. CASE TakeWindow
  <2>1. phase' = "gate" /\ gated' = 0 /\ leaves' = <<>> /\ Range(leaves') = {}
    BY <1>5, RangeEmpty, Shapes DEF TakeWindow, TypeOK, FlushOK
  <2> QED
    BY <2>1 DEF GateInv, Injective
<1>6. ASSUME NEW e, e = window[gated + 1], phase = "gate", put[e] # "pending",
             UNCHANGED <<opts, put, window>>, gated' = gated + 1, leaves' = Kept(e),
             gated + 1 \in 1 .. Len(window)
      PROVE  /\ Injective(leaves')
             /\ \A x \in Range(leaves') : put'[x] # "pending" /\ ~Unstored(x)'
             /\ \A i \in DOMAIN leaves' : \E j \in 1 .. gated' : leaves'[i] = window'[j]
             /\ \A j \in 1 .. gated' : window'[j] \in Range(leaves') \/ Unstored(window[j])'
  <2>1. e \in Events /\ \A j \in 1 .. gated : window[j] # e
    <3>1. e \in Events
      BY <1>6, Shapes
    <3>2. \A j \in 1 .. gated : j \in DOMAIN window /\ gated + 1 \in DOMAIN window /\ j # gated + 1
      BY <1>6, Shapes
    <3>3. Injective(window)
      BY DEF PlaceInv
    <3> QED
      BY <1>6, <3>1, <3>2, <3>3 DEF Injective
  <2>2. \A x : Unstored(x)' <=> Unstored(x)
    BY <1>6 DEF Unstored
  <2>3. e \notin Range(leaves)
    BY <2>1, Shapes DEF GateInv, Range
  <2>4. CASE Unstored(e)
    BY <1>6, <2>2, <2>4, Shapes DEF GateInv, Kept, Injective
  <2>5. CASE ~Unstored(e)
    <3>1. leaves' = Append(leaves, e) /\ Range(leaves') = Range(leaves) \cup {e}
      BY <1>6, <2>1, <2>5, RangeAppend, Shapes DEF Kept
    <3>2. Injective(leaves')
      BY <2>1, <2>3, <3>1, InjectiveAppend, Shapes DEF GateInv
    <3>3. \A i \in DOMAIN leaves' : \E j \in 1 .. gated' : leaves'[i] = window'[j]
      <4>1. SUFFICES ASSUME NEW i \in DOMAIN leaves'
                     PROVE  \E j \in 1 .. gated' : leaves'[i] = window'[j]
        OBVIOUS
      <4>2. CASE i \in DOMAIN leaves
        <5>1. leaves'[i] = leaves[i] /\ 1 .. gated \subseteq 1 .. gated'
          BY <1>6, <3>1, <4>2, Shapes
        <5> QED
          BY <1>6, <4>2, <5>1 DEF GateInv
      <4>3. CASE i \notin DOMAIN leaves
        <5>1. leaves'[i] = e
          BY <3>1, <4>1, <4>3, <2>1, Shapes
        <5>2. gated' \in 1 .. gated' /\ e = window'[gated']
          BY <1>6, Shapes
        <5> QED
          BY <5>1, <5>2
      <4> QED
        BY <4>2, <4>3
    <3>4. \A j \in 1 .. gated' : window'[j] \in Range(leaves') \/ Unstored(window[j])'
      BY <1>6, <2>2, <3>1, Shapes DEF GateInv
    <3>5. \A x \in Range(leaves') : put'[x] # "pending" /\ ~Unstored(x)'
      BY <1>6, <2>2, <2>5, <3>1 DEF GateInv
    <3> QED
      BY <3>2, <3>3, <3>4, <3>5
  <2> QED
    BY <2>4, <2>5
<1>7. CASE Gate
  <2>1. /\ phase = "gate" /\ phase' = "gate" /\ put[window[gated + 1]] # "pending"
        /\ UNCHANGED <<opts, put, window>> /\ gated' = gated + 1
        /\ leaves' = Kept(window[gated + 1]) /\ gated + 1 \in 1 .. Len(window)
    BY <1>7, Shapes DEF Gate, callerVars, TypeOK, FlushOK
  <2> QED
    BY <1>6, <2>1 DEF GateInv
<1>8. CASE GateLast
  <2> DEFINE e == window[gated + 1]
             out == {x \in Range(window) : Unstored(x)}
  <2>1. /\ phase = "gate" /\ put[e] # "pending" /\ UNCHANGED <<opts, put>>
        /\ gated + 1 = Len(window) /\ Reject(out, "retention")
    BY <1>8 DEF GateLast, callerVars
  <2>2. CASE Kept(e) = <<>>
    BY <1>8, <2>2, ReturnGate DEF GateLast
  <2>3. CASE Kept(e) # <<>>
    <3>1. /\ UNCHANGED <<window, written>> /\ gated' = gated + 1 /\ leaves' = Kept(e)
          /\ phase' = "seal" /\ written = 0
      BY <1>8, <2>3 DEF GateLast, TypeOK, FlushOK
    <3>2. /\ Injective(leaves')
          /\ \A x \in Range(leaves') : put'[x] # "pending" /\ ~Unstored(x)'
          /\ \A i \in DOMAIN leaves' : \E j \in 1 .. gated' : leaves'[i] = window'[j]
          /\ \A j \in 1 .. gated' : window'[j] \in Range(leaves') \/ Unstored(window[j])'
      <4>1. gated + 1 \in 1 .. Len(window)
        BY <2>1, Shapes
      <4> HIDE DEF e
      <4>2. e = window[gated + 1]
        BY DEF e
      <4> QED
        BY <1>6, <2>1, <3>1, <4>1, <4>2
    <3>3. \A x \in Events : promise'[x] = IF x \in out /\ promise[x] = "pending"
                                          THEN "retention" ELSE promise[x]
      <4> HIDE DEF out
      <4> QED
        BY <2>1, RejectSettles
    <3>4. \A x \in Range(window) : promise[x] = "pending" /\ (Unstored(x)' <=> Unstored(x))
      BY <2>1 DEF PlaceInv, Unstored
    <3>5. \A j \in 1 .. Len(window) : window[j] \in Range(window)
      BY Shapes DEF Range
    <3>6. Range(window) \subseteq Settled' \cup Range(leaves')
      <4>1. SUFFICES ASSUME NEW x \in Range(window) PROVE x \in Settled' \cup Range(leaves')
        OBVIOUS
      <4>2. PICK j \in 1 .. Len(window) : x = window[j]
        BY Shapes DEF Range
      <4>3. x \in Range(leaves') \/ Unstored(x)
        BY <2>1, <3>1, <3>2, <3>4, <4>2
      <4>4. Unstored(x) => promise'[x] = "retention"
        BY <3>3, <3>4, Shapes
      <4> QED
        BY <4>3, <4>4, Shapes DEF Settled
    <3>7. \A i \in DOMAIN leaves' : promise'[leaves'[i]] = "pending"
      <4>1. SUFFICES ASSUME NEW i \in DOMAIN leaves' PROVE promise'[leaves'[i]] = "pending"
        OBVIOUS
      <4>2. leaves'[i] \in Range(leaves') /\ leaves'[i] \in Range(window)
        BY <2>1, <3>1, <3>2, <3>5 DEF Range
      <4>3. ~Unstored(leaves'[i])
        BY <3>2, <3>4, <4>2
      <4> QED
        BY <3>3, <3>4, <4>2, <4>3, Shapes
    <3>8. leaves' \in Seq(Events)
      BY <3>1, <2>1, Shapes DEF Kept
    <3> QED
      BY <3>1, <3>2, <3>6, <3>7, <3>8 DEF GateInv
  <2> QED
    BY <2>2, <2>3
<1>9. CASE Seal \/ ReadHead \/ Upload \/ SetHead \/ WriteCheckpoint \/ WriteRow
  <2>1. /\ UNCHANGED <<opts, leaves, put, gated, window, promise, written>>
        /\ phase \notin {"idle", "gate"}
    BY <1>9 DEF Seal, ReadHead, Upload, SetHead, WriteCheckpoint, WriteRow, callerVars, jobVars
  <2> QED
    BY <2>1 DEF GateInv, Unstored, Settled, Injective
<1>10. CASE Resolve
  <2> DEFINE e == leaves[written + 1]
  <2>1. CASE written + 1 = Len(leaves)
    BY <1>10, <2>1, ReturnGate DEF Resolve
  <2>2. CASE written + 1 # Len(leaves)
    <3>1. /\ UNCHANGED <<opts, put, window, gated, leaves>> /\ written' = written + 1
          /\ promise' = [promise EXCEPT ![e] = "resolved"]
          /\ phase = "receipt" /\ phase' = "eventRows"
          /\ written + 1 \in 1 .. Len(leaves)
      BY <1>10, <2>2, Shapes DEF Resolve, RowWritten, callerVars, TypeOK, FlushOK
    <3>2. promise \in [Events -> Answers]
      BY DEF TypeOK, EventsOK, Answers
    <3>3. \A i \in 1 .. Len(leaves) : leaves[i] \in Events /\ (leaves[i] = e => i = written + 1)
      <4>1. \A i \in 1 .. Len(leaves) : leaves[i] \in Events
        BY Shapes
      <4>2. \A i, j \in 1 .. Len(leaves) : leaves[i] = leaves[j] => i = j
        BY Shapes DEF GateInv, Injective
      <4> QED
        BY <3>1, <4>1, <4>2
    <3>4. \A i \in 1 .. written' : promise'[leaves'[i]] = "resolved"
      BY <3>1, <3>2, <3>3, Shapes DEF GateInv
    <3>5. \A i \in written' + 1 .. Len(leaves') : promise'[leaves'[i]] = "pending"
      BY <3>1, <3>2, <3>3, Shapes DEF GateInv
    <3>6. Settled \subseteq Settled'
      BY <3>1, <3>2 DEF Settled
    <3> QED
      BY <3>1, <3>4, <3>5, <3>6 DEF GateInv, Unstored, Injective
  <2> QED
    BY <2>1, <2>2
<1>11. CASE Throw \/ SetHeadThrow
  BY <1>11, ReturnGate DEF Throw, SetHeadThrow
<1>12. CASE UNCHANGED vars
  BY <1>0, <1>12 DEF vars, callerVars, jobVars
<1>13. ASSUME NEW n \in DOMAIN posted, Accept(n) PROVE GateInv'
  BY <1>0, <1>13 DEF Accept, callerVars, jobVars
<1> QED
  BY <1>1, <1>2, <1>3, <1>4, <1>5, <1>7, <1>8, <1>9, <1>10, <1>11, <1>12, <1>13
     DEF Next, DoFlush

(***************************************************************************)
(* LedgerInv                                                               *)
(***************************************************************************)

(* The upload adds exactly the leaves to what was uploaded before *)
LEMMA UploadPosts ==
  ASSUME TypeOK, Upload
  PROVE  Posted' = Posted \cup Range(leaves)
<1>1. /\ posted \in Seq([prev : Nat, leaves : Seq(Events)])
      /\ Checkpoint \in [prev : Nat, leaves : Seq(Events)]
      /\ Checkpoint.leaves = leaves
  BY DEF TypeOK, ChainOK, FlushOK, Checkpoint
<1>2. /\ DOMAIN posted' = 1 .. Len(posted) + 1 /\ DOMAIN posted = 1 .. Len(posted)
      /\ Len(posted) \in Nat /\ posted'[Len(posted) + 1] = Checkpoint
      /\ \A i \in 1 .. Len(posted) : posted'[i] = posted[i]
  BY <1>1 DEF Upload
<1>3. DOMAIN posted' = DOMAIN posted \cup {Len(posted) + 1}
  BY <1>2
<1>4. \A x : x \in Posted' <=> \E i \in DOMAIN posted' : x \in Range(posted'[i].leaves)
  BY DEF Posted, Positions
<1>5. \A x : x \in Posted <=> \E i \in DOMAIN posted : x \in Range(posted[i].leaves)
  BY DEF Posted, Positions
<1>6. \A x : x \in Posted' <=> x \in Posted \/ x \in Range(leaves)
  BY <1>1, <1>2, <1>3, <1>4, <1>5
<1> QED
  BY <1>6

(* Only events are uploaded *)
LEMMA PostedEvents == TypeOK => Posted \subseteq Events
<1> SUFFICES ASSUME TypeOK PROVE Posted \subseteq Events
  OBVIOUS
<1>1. \A i \in DOMAIN posted : posted[i] \in [prev : Nat, leaves : Seq(Events)]
  BY LenProperties, ElementOfSeq DEF TypeOK, ChainOK
<1>2. \A i \in DOMAIN posted : Range(posted[i].leaves) \subseteq Events
  BY <1>1, RangeSubset
<1> QED
  BY <1>2 DEF Posted, Positions

(* No step uploads an event that is unstored, and what was uploaded is not *)
(* buffered, nor in a window that is still to be uploaded                  *)
LEMMA LedgerNext == TypeOK /\ PlaceInv /\ GateInv /\ LedgerInv /\ [Next]_vars => LedgerInv'
<1> SUFFICES ASSUME TypeOK, PlaceInv, GateInv, LedgerInv, [Next]_vars PROVE LedgerInv'
  OBVIOUS
<1>a. UNCHANGED posted => Posted' = Posted
  BY DEF Posted, Positions
<1>b. Posted \subseteq Events
  BY PostedEvents
<1>c. \A e \in Events : promise[e] \in Answers /\ promise \in [Events -> Answers]
  BY DEF TypeOK, EventsOK, Answers
<1>0. CASE UNCHANGED <<opts, posted, put, promise, buffer, phase, window>>
  BY <1>0, <1>a DEF LedgerInv, Unstored
<1>1. ASSUME NEW e \in Events, Add(e) PROVE LedgerInv'
  <2>1. promise[e] = "none"
    BY <1>1 DEF Add, PlaceInv
  <2>2. e \notin Posted
    BY <2>1 DEF LedgerInv
  <2>3. UNCHANGED <<opts, posted, phase, window>>
    BY <1>1 DEF Add, jobVars
  <2>4. /\ \A x \in Events \ {e} : put'[x] = put[x] /\ promise'[x] = promise[x]
        /\ promise'[e] = "pending"
    BY <1>1 DEF Add, TypeOK, EventsOK
  <2>5. Range(buffer') = Range(buffer) \cup {e}
    BY <1>1, RangeAppend, Shapes DEF Add
  <2> QED
    BY <1>a, <1>b, <2>2, <2>3, <2>4, <2>5 DEF LedgerInv, Unstored
<1>2. ASSUME NEW e \in Events, PutSettles(e) PROVE LedgerInv'
  <2>1. UNCHANGED <<opts, posted, promise, buffer, phase, window>>
    BY <1>2 DEF PutSettles, callerVars, bufferVars, jobVars
  <2>2. /\ put[e] = "pending" /\ put'[e] # "pending"
        /\ \A x \in Events \ {e} : put'[x] = put[x]
    BY <1>2 DEF PutSettles, TypeOK, EventsOK
  <2>3. e \notin Posted
    BY <2>2 DEF LedgerInv
  <2>4. \A x \in Events : Unstored(x) => Unstored(x)'
    BY <2>1, <2>2 DEF Unstored
  <2>5. \A x \in Events \ {e} : Unstored(x) <=> Unstored(x)'
    BY <2>1, <2>2 DEF Unstored
  <2> QED
    BY <1>a, <1>b, <2>1, <2>2, <2>3, <2>4, <2>5 DEF LedgerInv
<1>3. ASSUME NEW e \in Events, IntentLands(e) PROVE LedgerInv'
  BY <1>0, <1>3 DEF IntentLands, callerVars, bufferVars, jobVars
<1>4. CASE Flush \/ Close \/ AgeFires \/ IdleFires \/ FlushEmpty \/ Gate
  BY <1>0, <1>4 DEF Flush, Close, AgeFires, IdleFires, FlushEmpty, Gate, callerVars, bufferVars,
     jobVars
<1>5. CASE TakeWindow
  <2>1. /\ UNCHANGED <<opts, posted, put, promise>> /\ phase' = "gate"
        /\ window' = buffer /\ Range(buffer') = {}
    BY <1>5, RangeEmpty DEF TakeWindow, callerVars
  <2> QED
    BY <1>a, <2>1 DEF LedgerInv, Unstored
<1>6. CASE GateLast
  <2> DEFINE out == {x \in Range(window) : Unstored(x)}
  <2>1. /\ UNCHANGED <<opts, posted, put, buffer>> /\ phase = "gate"
        /\ Reject(out, "retention")
    BY <1>6 DEF GateLast, callerVars, bufferVars
  <2>2. /\ Range(window') \subseteq Range(window)
    BY <1>6, RangeEmpty DEF GateLast, Return
  <2>3. /\ \A x \in Events : promise'[x] = IF x \in out /\ promise[x] = "pending"
                                         THEN "retention" ELSE promise[x]
    <3> HIDE DEF out
    <3> QED
      BY <2>1, RejectSettles
  <2> QED
    BY <1>a, <1>b, <2>1, <2>2, <2>3 DEF LedgerInv, Unstored
<1>7. CASE Seal \/ ReadHead
  BY <1>7, <1>a DEF Seal, ReadHead, callerVars, bufferVars, jobVars, LedgerInv, Unstored
<1>8. CASE Upload
  <2>1. UNCHANGED <<opts, put, promise, buffer, window>> /\ phase' = "setHead"
        /\ phase = "upload"
    BY <1>8 DEF Upload, callerVars, bufferVars
  <2>2. Posted' = Posted \cup Range(leaves)
    BY <1>8, UploadPosts
  <2>3. \A e \in Range(leaves) : e \in Range(window)
    BY LeavesOfWindow
  <2>4. \A e \in Range(leaves) : promise[e] # "none" /\ e \notin Range(buffer)
    BY <2>3, WindowOffered DEF PlaceInv
  <2> QED
    BY <2>1, <2>2, <2>4 DEF LedgerInv, GateInv, Unstored
<1>9. CASE SetHead \/ WriteCheckpoint \/ WriteRow
  BY <1>9, <1>a DEF SetHead, WriteCheckpoint, WriteRow, callerVars, bufferVars, jobVars, LedgerInv,
     Unstored
<1>10. CASE Resolve
  <2>1. /\ UNCHANGED <<opts, posted, put, buffer>>
        /\ phase' \notin {"gate", "seal", "head", "upload"}
        /\ promise' = [promise EXCEPT ![leaves[written + 1]] = "resolved"]
    BY <1>10 DEF Resolve, RowWritten, Return, callerVars, bufferVars
  <2> QED
    BY <1>a, <1>b, <1>c, <2>1 DEF LedgerInv, Unstored
<1>11. CASE Throw \/ SetHeadThrow
  <2>1. /\ UNCHANGED <<opts, posted, put, buffer>> /\ phase' = "idle"
        /\ Reject(Range(window), "failed")
    BY <1>11 DEF Throw, SetHeadThrow, Return, callerVars, bufferVars
  <2>2. \A x \in Events : promise'[x] = promise[x] \/ promise'[x] = "failed"
    BY <2>1, RejectSettles
  <2>3. \A x \in Events : promise'[x] = "none" <=> promise[x] = "none"
    BY <2>1, RejectSettles
  <2> QED
    BY <1>a, <1>b, <2>1, <2>2, <2>3 DEF LedgerInv, Unstored
<1>12. CASE UNCHANGED vars
  BY <1>0, <1>12 DEF vars, callerVars, bufferVars, jobVars
<1>13. ASSUME NEW n \in DOMAIN posted, Accept(n) PROVE LedgerInv'
  BY <1>0, <1>13 DEF Accept, callerVars, bufferVars, jobVars
<1> QED
  BY <1>1, <1>2, <1>3, <1>4, <1>5, <1>6, <1>7, <1>8, <1>9, <1>10, <1>11, <1>12, <1>13
     DEF Next, DoFlush

(***************************************************************************)
(* The theorems                                                            *)
(***************************************************************************)

(* The invariants hold of a constructed batcher *)
LEMMA InvInit == Init => PlaceInv /\ GateInv /\ LedgerInv
<1> SUFFICES ASSUME Init PROVE PlaceInv /\ GateInv /\ LedgerInv
  OBVIOUS
<1>1. /\ Range(offered) = {} /\ Range(buffer) = {} /\ Range(window) = {} /\ Range(leaves) = {}
      /\ Posted = {}
  BY RangeEmpty DEF Init, Posted, Positions
<1> QED
  BY <1>1 DEF Init, PlaceInv, GateInv, LedgerInv, Injective

(* The inductive invariant of the batcher *)
LEMMA Invariance == Spec => [](PlaceInv /\ GateInv /\ LedgerInv)
BY TypeCorrect, InvInit, PlaceNext, GateNext, LedgerNext, PTL DEF Spec

(* Every event added before a flush() or close() is settled when it        *)
(* returns, whichever flush took its window and whatever failed in it      *)
THEOREM FlushesSettle == Spec => []FlushedSettled
<1>1. PlaceInv => FlushedSettled
  BY DEF PlaceInv, FlushedSettled
<1> QED
  BY Invariance, <1>1, PTL

(* No content is uploaded before it is stored, in strict mode never when   *)
(* its storing failed, and RetentionErrors are given for those events only *)
THEOREM RetentionComesFirst == Spec => []RetentionGate
<1>1. LedgerInv => RetentionGate
  BY DEF LedgerInv, RetentionGate
<1> QED
  BY Invariance, <1>1, PTL

(***************************************************************************)
(* Receipts                                                                *)
(***************************************************************************)

(* An event whose receipt resolved has its put()'s answer: it was uploaded *)
LEMMA ResolvedIsStored ==
  ASSUME TypeOK, LedgerInv, ReceiptSound, NEW e \in Events, promise[e] = "resolved"
  PROVE  e \in Posted /\ put[e] # "pending"
<1>1. /\ receipt[e].tx \in Positions
      /\ receipt[e].leaf \in DOMAIN posted[receipt[e].tx].leaves
      /\ posted[receipt[e].tx].leaves[receipt[e].leaf] = e
  BY DEF ReceiptSound, TypeOK, ChainOK
<1>2. e \in Range(posted[receipt[e].tx].leaves)
  BY <1>1 DEF Range
<1>3. e \in Posted
  BY <1>1, <1>2 DEF Posted
<1> QED
  BY <1>3 DEF LedgerInv

(* What a receipt must say of its event *)
True(e) ==
  LET r == receipt[e] IN
  /\ r.tx \in accepted /\ r.checkpoint = posted[r.tx]
  /\ r.count = Len(posted[r.tx].leaves)
  /\ r.leaf \in DOMAIN posted[r.tx].leaves /\ posted[r.tx].leaves[r.leaf] = e
  /\ r.contentStored = put[e]

(* A receipt once given stays sound, also when more is uploaded, accepted  *)
(* or stored, and those of a window are given for its checkpoint           *)
LEMMA ReceiptNext ==
  TypeOK /\ LinkInv /\ PlaceInv /\ GateInv /\ LedgerInv /\ ReceiptSound /\ [Next]_vars
    => ReceiptSound'
<1> SUFFICES ASSUME TypeOK, LinkInv, PlaceInv, GateInv, LedgerInv, ReceiptSound, [Next]_vars
             PROVE  ReceiptSound'
  OBVIOUS
<1>t. \A e \in Events : promise[e] = "resolved" => True(e)
  BY DEF ReceiptSound, True
<1>s. ASSUME \A e \in Events : promise'[e] = "resolved" => True(e)'
      PROVE  ReceiptSound'
  BY <1>s DEF ReceiptSound, True
<1>a. ASSUME UNCHANGED <<posted, receipt>>, accepted \subseteq accepted',
             \A e \in Events : promise'[e] = "resolved" =>
               promise[e] = "resolved" /\ put'[e] = put[e]
      PROVE  ReceiptSound'
  BY <1>a, <1>t, <1>s DEF True
<1>b. promise \in [Events -> Answers] /\ put \in [Events -> {"none", "pending", "ok", "failed"}]
  BY DEF TypeOK, EventsOK, Answers
<1>1. ASSUME NEW e \in Events, Add(e) PROVE ReceiptSound'
  <2>1. \A x \in Events : promise'[x] = "resolved" => x # e
    BY <1>1, <1>b DEF Add
  <2>2. \A x \in Events : promise'[x] = "resolved" =>
          promise[x] = "resolved" /\ put'[x] = put[x]
    BY <1>1, <1>b, <2>1 DEF Add
  <2> QED
    BY <1>a, <1>1, <2>2 DEF Add
<1>2. ASSUME NEW e \in Events, PutSettles(e) PROVE ReceiptSound'
  <2>1. promise[e] # "resolved"
    BY <1>2, ResolvedIsStored DEF PutSettles
  <2>2. \A x \in Events : promise'[x] = "resolved" =>
          promise[x] = "resolved" /\ put'[x] = put[x]
    BY <1>2, <1>b, <2>1 DEF PutSettles
  <2> QED
    BY <1>a, <1>2, <2>2 DEF PutSettles
<1>3. ASSUME NEW e \in Events, IntentLands(e) PROVE ReceiptSound'
  BY <1>a, <1>3 DEF IntentLands
<1>4. CASE Flush \/ Close \/ AgeFires \/ IdleFires \/ FlushEmpty
  BY <1>a, <1>4 DEF Flush, Close, AgeFires, IdleFires, FlushEmpty
<1>5. CASE TakeWindow \/ Gate \/ Seal \/ ReadHead \/ SetHead \/ WriteCheckpoint \/ WriteRow
  BY <1>a, <1>5 DEF TakeWindow, Gate, Seal, ReadHead, SetHead, WriteCheckpoint, WriteRow
<1>6. CASE GateLast \/ Throw \/ SetHeadThrow
  BY <1>a, <1>6 DEF GateLast, Throw, SetHeadThrow, Reject
<1>7. CASE Upload
  <2>1. /\ UNCHANGED <<promise, receipt, accepted, put>> /\ posted' = Append(posted, Checkpoint)
        /\ posted \in Seq([prev : Nat, leaves : Seq(Events)])
        /\ Checkpoint \in [prev : Nat, leaves : Seq(Events)]
    BY <1>7 DEF Upload, TypeOK, ChainOK, FlushOK, Checkpoint
  <2>2. \A i \in DOMAIN posted : posted'[i] = posted[i]
    BY <2>1
  <2>3. accepted \subseteq DOMAIN posted
    BY DEF TypeOK, ChainOK, Positions
  <2> QED
    BY <1>t, <1>s, <2>1, <2>2, <2>3 DEF True
<1>8. CASE Resolve
  <2>1. written + 1 \in DOMAIN leaves /\ leaves[written + 1] \in Events
    BY <1>8, Shapes DEF Resolve, RowWritten, TypeOK, FlushOK
  <2>2. PICK e \in Events : e = leaves[written + 1]
    BY <2>1
  <2>3. /\ UNCHANGED <<posted, accepted, put>>
        /\ promise' = [promise EXCEPT ![e] = "resolved"]
        /\ receipt' = [receipt EXCEPT ![e] = ReceiptFor(written + 1)]
        /\ phase = "receipt"
    BY <1>8, <2>2 DEF Resolve, RowWritten
  <2>4. receipt \in [Events -> Receipts]
    BY DEF TypeOK, EventsOK, Receipts
  <2>5. tx \in accepted /\ posted[tx] = Checkpoint /\ Checkpoint.leaves = leaves
    BY <2>3 DEF LinkInv, Checkpoint
  <2>6. True(e)'
    <3>1. receipt'[e] = ReceiptFor(written + 1)
      BY <2>3, <2>4
    <3>2. /\ receipt'[e].tx = tx /\ receipt'[e].leaf = written + 1
          /\ receipt'[e].count = Len(leaves) /\ receipt'[e].checkpoint = Checkpoint
          /\ receipt'[e].contentStored = put[e]
      BY <2>2, <3>1 DEF ReceiptFor, ContentStored
    <3> QED
      BY <2>1, <2>2, <2>3, <2>5, <3>2 DEF True
  <2>7. \A x \in Events \ {e} : receipt'[x] = receipt[x] /\ promise'[x] = promise[x]
    BY <1>b, <2>3, <2>4
  <2>8. \A x \in Events \ {e} : promise'[x] = "resolved" => True(x)'
    BY <1>t, <2>3, <2>7 DEF True
  <2> QED
    BY <1>s, <2>6, <2>8
<1>9. ASSUME NEW n \in DOMAIN posted, Accept(n) PROVE ReceiptSound'
  BY <1>a, <1>9 DEF Accept
<1>10. CASE UNCHANGED vars
  BY <1>a, <1>10 DEF vars
<1> QED
  BY <1>1, <1>2, <1>3, <1>4, <1>5, <1>6, <1>7, <1>8, <1>9, <1>10 DEF Next, DoFlush

(* A resolved receipt carries the accepted checkpoint that it names, the   *)
(* leaf index at which it holds the event, and the answer of the event's   *)
(* own put()                                                               *)
THEOREM ReceiptsAreSound == Spec => []ReceiptSound
<1>1. Init => ReceiptSound
  BY DEF Init, ReceiptSound
<1> QED
  BY TypeCorrect, LinkCorrect, Invariance, ReceiptNext, <1>1, PTL DEF Spec

(***************************************************************************)
(* The recovery index                                                      *)
(***************************************************************************)

(* The event whose proof row is ahead of its receipt *)
Ahead(e) == phase = "receipt" /\ e = leaves[written + 1]

(* Every step writes to an in-order sink what it does to the promises, and *)
(* a proof row just before                                                 *)
LEMMA RecoveryNext == TypeOK /\ PlaceInv /\ GateInv /\ RecoveryInv /\ [Next]_vars => RecoveryInv'
<1> SUFFICES ASSUME TypeOK, PlaceInv, GateInv, RecoveryInv, [Next]_vars PROVE RecoveryInv'
  OBVIOUS
<1>0. /\ row \in [Events -> {"none", "intent", "proof"}]
      /\ promise \in [Events -> Answers]
  BY DEF TypeOK, EventsOK, Answers
<1>r. opts.sink = "sync" =>
        \A e \in Events : /\ (row[e] = "proof") <=> (promise[e] = "resolved" \/ Ahead(e))
                          /\ (row[e] = "none") <=> (promise[e] = "none")
  BY DEF RecoveryInv, RecoveryIndex, Ahead
<1>s. ASSUME opts' = opts, opts.sink # "async" => late' = {},
             opts.sink = "sync" =>
               \A e \in Events : /\ (row'[e] = "proof") <=> (promise'[e] = "resolved" \/ Ahead(e)')
                                 /\ (row'[e] = "none") <=> (promise'[e] = "none")
      PROVE  RecoveryInv'
  BY <1>s DEF RecoveryInv, RecoveryIndex, Ahead
<1>a. ASSUME UNCHANGED <<opts, row, late>>,
             \A e \in Events : /\ promise'[e] = "resolved" <=> promise[e] = "resolved"
                               /\ promise'[e] = "none" <=> promise[e] = "none",
             \/ phase # "receipt" /\ phase' # "receipt"
             \/ UNCHANGED <<phase, leaves, written>>
      PROVE  RecoveryInv'
  <2>1. \A e \in Events : Ahead(e) <=> Ahead(e)'
    BY <1>a DEF Ahead
  <2> QED
    BY <1>a, <1>r, <1>s, <2>1 DEF RecoveryInv
<1>1. ASSUME NEW e \in Events, Add(e) PROVE RecoveryInv'
  <2>1. promise[e] = "none"
    BY <1>1 DEF Add, PlaceInv
  <2>2. /\ opts' = opts /\ promise' = [promise EXCEPT ![e] = "pending"] /\ WriteIntent(e)
        /\ UNCHANGED <<phase, leaves, written>>
    BY <1>1 DEF Add, jobVars
  <2>3. opts.sink # "async" => late' = {}
    BY <2>2 DEF WriteIntent, RecoveryInv
  <2>4. \A x : Ahead(x)' <=> Ahead(x)
    BY <2>2 DEF Ahead
  <2>5. opts.sink = "sync" => row' = [row EXCEPT ![e] = "intent"]
    BY <2>2 DEF WriteIntent
  <2> QED
    BY <1>0, <1>r, <1>s, <2>1, <2>2, <2>3, <2>4, <2>5
<1>2. ASSUME NEW e \in Events, IntentLands(e) PROVE RecoveryInv'
  <2>1. opts' = opts /\ opts.sink = "async"
    BY <1>2 DEF IntentLands, RecoveryInv, callerVars
  <2> QED
    BY <1>s, <2>1
<1>3. ASSUME NEW e \in Events, PutSettles(e) PROVE RecoveryInv'
  BY <1>a, <1>3 DEF PutSettles, callerVars, jobVars, sinkVars
<1>4. CASE Flush \/ Close \/ AgeFires \/ IdleFires \/ FlushEmpty
  BY <1>a, <1>4 DEF Flush, Close, AgeFires, IdleFires, FlushEmpty, callerVars, jobVars, sinkVars
<1>5. CASE TakeWindow \/ Gate \/ Seal \/ ReadHead \/ Upload \/ SetHead \/ WriteCheckpoint
  BY <1>a, <1>5 DEF TakeWindow, Gate, Seal, ReadHead, Upload, SetHead, WriteCheckpoint,
                    callerVars, sinkVars
<1>6. CASE GateLast \/ Throw \/ SetHeadThrow
  <2>1. UNCHANGED <<opts, row, late>> /\ phase # "receipt" /\ phase' # "receipt"
    BY <1>6 DEF GateLast, Throw, SetHeadThrow, Return, callerVars, sinkVars
  <2>2. \E S \in SUBSET Events : Reject(S, "retention") \/ Reject(S, "failed")
    <3>1. Range(window) \subseteq Events
      BY Shapes
    <3> QED
      BY <1>6, <3>1 DEF GateLast, Throw, SetHeadThrow
  <2>3. \A e \in Events : /\ promise'[e] = "resolved" <=> promise[e] = "resolved"
                          /\ promise'[e] = "none" <=> promise[e] = "none"
    BY <1>0, <2>2 DEF Reject
  <2> QED
    BY <1>a, <2>1, <2>3
<1>7. CASE WriteRow
  <2> DEFINE e == leaves[written + 1]
  <2>1. e \in Events /\ promise[e] = "pending"
    BY <1>7, Shapes DEF WriteRow, TypeOK, FlushOK, GateInv
  <2>2. /\ UNCHANGED <<opts, late, promise, leaves, written>>
        /\ phase = "eventRows" /\ phase' = "receipt" /\ WriteEvent(e)
    BY <1>7 DEF WriteRow, callerVars, jobVars
  <2>3. (\A x : Ahead(x)' <=> x = e) /\ \A x : ~Ahead(x)
    BY <2>2 DEF Ahead
  <2> HIDE DEF e
  <2>4. opts.sink = "sync" => row' = [row EXCEPT ![e] = "proof"]
    BY <2>2 DEF WriteEvent
  <2>5. opts.sink # "async" => late' = {}
    BY <2>2 DEF RecoveryInv
  <2> QED
    BY <1>0, <1>r, <1>s, <2>1, <2>2, <2>3, <2>4, <2>5
<1>8. CASE Resolve
  <2> DEFINE e == leaves[written + 1]
  <2>1. e \in Events /\ promise[e] = "pending"
    BY <1>8, Shapes DEF Resolve, RowWritten, TypeOK, FlushOK, GateInv
  <2>2. /\ UNCHANGED <<opts, late, row>>
        /\ promise' = [promise EXCEPT ![e] = "resolved"]
        /\ phase = "receipt"
    BY <1>8 DEF Resolve, RowWritten, callerVars, sinkVars
  <2>3. (\A x : Ahead(x) <=> x = e) /\ \A x : ~Ahead(x)'
    BY <1>8, <2>2 DEF Resolve, Return, Ahead
  <2> HIDE DEF e
  <2>4. opts.sink # "async" => late' = {}
    BY <2>2 DEF RecoveryInv
  <2> QED
    BY <1>0, <1>r, <1>s, <2>1, <2>2, <2>3, <2>4
<1>9. ASSUME NEW n \in DOMAIN posted, Accept(n) PROVE RecoveryInv'
  BY <1>a, <1>9 DEF Accept, callerVars, jobVars, sinkVars
<1>10. CASE UNCHANGED vars
  BY <1>a, <1>10 DEF vars, callerVars, jobVars, sinkVars
<1> QED
  BY <1>1, <1>2, <1>3, <1>4, <1>5, <1>6, <1>7, <1>8, <1>9, <1>10 DEF Next, DoFlush

(* With a sink that does not fail, the rows without a proof are the        *)
(* offered events that have no receipt, in every reachable state, but for  *)
(* the one row that was just written and whose receipt is next             *)
THEOREM RecoveryIndexIsExact == Spec => []RecoveryIndex
<1>1. Init => RecoveryInv
  BY DEF Init, RecoveryInv, RecoveryIndex
<1>2. RecoveryInv => RecoveryIndex
  BY DEF RecoveryInv
<1> QED
  BY <1>1, <1>2, TypeCorrect, Invariance, RecoveryNext, PTL DEF Spec

(***************************************************************************)
(* The order of the checkpoints                                            *)
(***************************************************************************)

(* Where the flush stands while its window is not uploaded *)
Uploading == {"gate", "seal", "head", "upload"}

(* A step that only drops the window or the leaves keeps the order *)
LEMMA OrderKept ==
  ASSUME OrderInv, UNCHANGED <<offered, posted, buffer>>,
         window' = window \/ window' = <<>>, leaves' = leaves \/ leaves' = <<>>,
         phase' \in Uploading => phase \in Uploading
  PROVE  OrderInv'
<1>1. \A a, b : Follows(a, b) <=> Follows(a, b)'
  BY DEF Follows
<1>2. Posted' = Posted /\ PostsInOrder'
  BY <1>1 DEF Posted, Positions, OrderInv, PostsInOrder
<1>3. Range(window') \subseteq Range(window)
  BY RangeEmpty
<1>4. InOrder(window)' /\ InOrder(leaves)' /\ InOrder(buffer)'
  BY <1>1 DEF OrderInv, InOrder
<1> QED
  BY <1>1, <1>2, <1>3, <1>4 DEF OrderInv, Uploading

(* Everything that is uploaded, in the window or in the buffer was offered *)
LEMMA KnownOffered ==
  ASSUME TypeOK, PlaceInv, GateInv, LedgerInv
  PROVE  Posted \cup Range(window) \cup Range(buffer) \subseteq Range(offered)
<1>1. Range(offered) = {e \in Events : promise[e] # "none"}
  BY DEF PlaceInv
<1>2. Range(window) \subseteq Range(offered)
  BY <1>1, WindowOffered, Shapes
<1>3. Range(buffer) \subseteq Range(offered)
  BY <1>1, Shapes DEF PlaceInv
<1>4. Posted \subseteq Range(offered)
  BY <1>1, PostedEvents DEF LedgerInv
<1> QED
  BY <1>2, <1>3, <1>4

(* Appending what follows all of a sequence keeps it in order *)
LEMMA InOrderAppend ==
  ASSUME NEW s \in Seq(Events), NEW e \in Events, InOrder(s),
         \A i \in DOMAIN s : Follows(s[i], e)
  PROVE  \A i, j \in DOMAIN Append(s, e) : i < j => Follows(Append(s, e)[i], Append(s, e)[j])
<1> DEFINE t == Append(s, e)
<1>1. /\ Len(s) \in Nat /\ DOMAIN s = 1 .. Len(s) /\ DOMAIN t = 1 .. Len(s) + 1
      /\ \A i \in 1 .. Len(s) : t[i] = s[i]
      /\ t[Len(s) + 1] = e
  OBVIOUS
<1> SUFFICES ASSUME NEW i \in DOMAIN t, NEW j \in DOMAIN t, i < j PROVE Follows(t[i], t[j])
  OBVIOUS
<1> HIDE DEF t
<1>2. i \in DOMAIN s /\ t[i] = s[i]
  BY <1>1
<1>3. CASE j = Len(s) + 1
  BY <1>1, <1>2, <1>3
<1>4. CASE j # Len(s) + 1
  <2>1. j \in DOMAIN s /\ t[j] = s[j]
    BY <1>1, <1>4
  <2> QED
    BY <1>2, <2>1 DEF InOrder
<1> QED
  BY <1>3, <1>4
(* A new event follows all that are known, and what was in order stays so *)
LEMMA AddFollows ==
  ASSUME TypeOK, NEW e \in Events, Add(e)
  PROVE  /\ \A a, b : Follows(a, b) => Follows(a, b)'
         /\ \A a \in Range(offered) : Follows(a, e)'
<1>1. /\ Len(offered) \in Nat /\ DOMAIN offered = 1 .. Len(offered)
      /\ DOMAIN offered' = 1 .. Len(offered) + 1
      /\ \A i \in 1 .. Len(offered) : offered'[i] = offered[i]
      /\ offered'[Len(offered) + 1] = e
  BY Shapes DEF Add
<1>2. ASSUME NEW a, NEW b, Follows(a, b) PROVE Follows(a, b)'
  <2>1. PICK k, l \in DOMAIN offered : k < l /\ offered[k] = a /\ offered[l] = b
    BY <1>2 DEF Follows
  <2>2. k \in DOMAIN offered' /\ l \in DOMAIN offered' /\ offered'[k] = a /\ offered'[l] = b
    BY <1>1, <2>1
  <2> QED
    BY <2>1, <2>2 DEF Follows
<1>3. ASSUME NEW a \in Range(offered) PROVE Follows(a, e)'
  <2>1. PICK k \in DOMAIN offered : offered[k] = a
    BY <1>3 DEF Range
  <2>2. /\ k \in DOMAIN offered' /\ offered'[k] = a
        /\ Len(offered) + 1 \in DOMAIN offered' /\ k < Len(offered) + 1
    BY <1>1, <2>1
  <2> QED
    BY <1>1, <2>2 DEF Follows
<1> QED
  BY <1>2, <1>3

(* add() puts its event behind all that is on its way *)
LEMMA OrderAdd ==
  ASSUME TypeOK, PlaceInv, GateInv, LedgerInv, OrderInv, NEW e \in Events, Add(e)
  PROVE  OrderInv'
<1>1. /\ \A a, b : Follows(a, b) => Follows(a, b)'
      /\ \A a \in Range(offered) : Follows(a, e)'
  BY AddFollows
<1>2. UNCHANGED <<posted, window, leaves, phase>> /\ buffer' = Append(buffer, e)
  BY DEF Add, jobVars
<1>3. PostsInOrder' /\ InOrder(window)' /\ InOrder(leaves)' /\ Posted' = Posted
  BY <1>1, <1>2 DEF OrderInv, PostsInOrder, InOrder, Posted, Positions
<1>4. Range(buffer') = Range(buffer) \cup {e}
  BY <1>2, RangeAppend, Shapes
<1>5. InOrder(buffer)'
  <2>1. /\ Len(buffer) \in Nat /\ DOMAIN buffer = 1 .. Len(buffer)
        /\ DOMAIN buffer' = 1 .. Len(buffer) + 1
        /\ \A i \in 1 .. Len(buffer) : buffer'[i] = buffer[i]
        /\ buffer'[Len(buffer) + 1] = e
    BY <1>2, Shapes
  <2>2. \A a \in Range(buffer) : Follows(a, e)'
    BY <1>1, KnownOffered
  <2>3. \A i, j \in DOMAIN buffer : \A a, b :
          i < j /\ a = buffer[i] /\ b = buffer[j] => Follows(a, b)'
    BY <1>1 DEF OrderInv, InOrder
  <2> SUFFICES ASSUME NEW i \in DOMAIN buffer', NEW j \in DOMAIN buffer', i < j
               PROVE  Follows(buffer[i], buffer[j])'
    BY DEF InOrder
  <2>4. i \in DOMAIN buffer /\ buffer'[i] = buffer[i]
    BY <2>1
  <2>5. CASE j = Len(buffer) + 1
    BY <2>1, <2>2, <2>4, <2>5 DEF Range
  <2>6. CASE j # Len(buffer) + 1
    <3>1. j \in DOMAIN buffer /\ buffer'[j] = buffer[j]
      BY <2>1, <2>6
    <3> QED
      BY <2>3, <2>4, <3>1
  <2> QED
    BY <2>5, <2>6
<1>6. \A a \in Range(window) \cup Posted, b \in Range(buffer') : Follows(a, b)'
  BY <1>1, <1>4, KnownOffered DEF OrderInv
<1> QED
  BY <1>1, <1>2, <1>3, <1>5, <1>6 DEF OrderInv

(* The window is the buffer as it was *)
LEMMA OrderTakeWindow == TypeOK /\ OrderInv /\ TakeWindow => OrderInv'
<1> SUFFICES ASSUME TypeOK, OrderInv, TakeWindow PROVE OrderInv'
  OBVIOUS
<1>1. UNCHANGED <<offered, posted, leaves>> /\ window' = buffer /\ buffer' = <<>>
  BY DEF TakeWindow, callerVars
<1>2. \A a, b : Follows(a, b) <=> Follows(a, b)'
  BY <1>1 DEF Follows
<1>3. PostsInOrder' /\ Posted' = Posted
  BY <1>1, <1>2 DEF OrderInv, PostsInOrder, Posted, Positions
<1>4. InOrder(window)' /\ InOrder(leaves)' /\ InOrder(buffer)'
  BY <1>1, <1>2 DEF OrderInv, InOrder
<1>5. Range(window') = Range(buffer) /\ Range(buffer') = {}
  BY <1>1, RangeEmpty
<1> QED
  BY <1>2, <1>3, <1>4, <1>5 DEF OrderInv

(* The gate lets events through in the order of the window *)
LEMMA OrderGate ==
  ASSUME TypeOK, GateInv, OrderInv, UNCHANGED <<offered, posted, buffer, window>>,
         phase \in Uploading,
         gated + 1 \in 1 .. Len(window), leaves' = Kept(window[gated + 1])
  PROVE  OrderInv'
<1> DEFINE e == window[gated + 1]
<1>1. \A a, b : Follows(a, b) <=> Follows(a, b)'
  BY DEF Follows
<1>2. PostsInOrder' /\ Posted' = Posted /\ InOrder(window)' /\ InOrder(buffer)'
  BY <1>1 DEF OrderInv, PostsInOrder, InOrder, Posted, Positions
<1>3. e \in Events /\ \A i \in DOMAIN leaves : Follows(leaves[i], e)
  <2>1. e \in Events
    BY Shapes
  <2>2. ASSUME NEW i \in DOMAIN leaves PROVE Follows(leaves[i], e)
    <3>1. PICK j \in 1 .. gated : leaves[i] = window[j]
      BY DEF GateInv
    <3>2. j \in DOMAIN window /\ gated + 1 \in DOMAIN window /\ j < gated + 1
      BY <3>1, Shapes
    <3> QED
      BY <3>1, <3>2 DEF OrderInv, InOrder
  <2> QED
    BY <2>1, <2>2
<1>4. InOrder(leaves)'
  <2>1. CASE Unstored(e)
    BY <1>1, <2>1 DEF Kept, OrderInv, InOrder
  <2>2. CASE ~Unstored(e)
    <3>1. leaves' = Append(leaves, e) /\ leaves \in Seq(Events)
      BY <2>2, Shapes DEF Kept
    <3>2. InOrder(leaves)
      BY DEF OrderInv
    <3> HIDE DEF e
    <3>3. \A i, j \in DOMAIN Append(leaves, e) :
            i < j => Follows(Append(leaves, e)[i], Append(leaves, e)[j])
      BY <1>3, <3>1, <3>2, InOrderAppend
    <3> QED
      BY <1>1, <3>1, <3>3 DEF InOrder
  <2> QED
    BY <2>1, <2>2
<1> QED
  BY <1>1, <1>2, <1>4 DEF OrderInv, Uploading

(* The new checkpoint's leaves follow all that were uploaded *)
LEMMA OrderUpload == TypeOK /\ GateInv /\ OrderInv /\ Upload => OrderInv'
<1> SUFFICES ASSUME TypeOK, GateInv, OrderInv, Upload PROVE OrderInv'
  OBVIOUS
<1>1. /\ UNCHANGED <<offered, buffer, window, leaves>> /\ phase = "upload" /\ phase' = "setHead"
      /\ Checkpoint.leaves = leaves
  BY DEF Upload, Checkpoint, callerVars, bufferVars
<1>2. \A a, b : Follows(a, b) <=> Follows(a, b)'
  BY <1>1 DEF Follows
<1>3. Posted' = Posted \cup Range(leaves)
  BY UploadPosts
<1>4. Range(leaves) \subseteq Range(window)
  BY LeavesOfWindow
<1>5. /\ Len(posted) \in Nat /\ DOMAIN posted = 1 .. Len(posted)
      /\ DOMAIN posted' = 1 .. Len(posted) + 1
      /\ \A i \in 1 .. Len(posted) : posted'[i] = posted[i]
      /\ posted'[Len(posted) + 1].leaves = leaves
  <2>1. posted \in Seq([prev : Nat, leaves : Seq(Events)])
        /\ Checkpoint \in [prev : Nat, leaves : Seq(Events)]
    BY DEF TypeOK, ChainOK, FlushOK, Checkpoint
  <2> QED
    BY <1>1, <2>1 DEF Upload
<1>6. PostsInOrder'
  <2> SUFFICES ASSUME NEW i \in DOMAIN posted', NEW j \in DOMAIN posted',
                      NEW a \in DOMAIN posted'[i].leaves, NEW b \in DOMAIN posted'[j].leaves,
                      i < j \/ (i = j /\ a < b)
               PROVE  Follows(posted'[i].leaves[a], posted'[j].leaves[b])
    BY <1>2 DEF PostsInOrder, Positions
  <2>1. CASE j # Len(posted) + 1
    <3>1. i \in DOMAIN posted /\ j \in DOMAIN posted /\ posted'[i] = posted[i] /\ posted'[j] = posted[j]
      BY <1>5, <2>1
    <3> QED
      BY <3>1 DEF OrderInv, PostsInOrder, Positions
  <2>2. CASE j = Len(posted) + 1 /\ i # j
    <3>1. i \in DOMAIN posted /\ posted'[i] = posted[i] /\ posted'[j].leaves = leaves
      BY <1>5, <2>2
    <3>2. posted[i].leaves[a] \in Posted
      BY <3>1 DEF Posted, Positions, Range
    <3>3. leaves[b] \in Range(window)
      BY <1>4, <3>1 DEF Range
    <3> QED
      BY <1>1, <3>1, <3>2, <3>3 DEF OrderInv
  <2>3. CASE j = Len(posted) + 1 /\ i = j
    BY <1>5, <2>3 DEF OrderInv, InOrder
  <2> QED
    BY <2>1, <2>2, <2>3
<1>7. InOrder(window)' /\ InOrder(leaves)' /\ InOrder(buffer)'
  BY <1>1, <1>2 DEF OrderInv, InOrder
<1>8. \A a \in Range(window') \cup Posted', b \in Range(buffer') : Follows(a, b)'
  BY <1>1, <1>2, <1>3, <1>4 DEF OrderInv
<1> QED
  BY <1>1, <1>6, <1>7, <1>8 DEF OrderInv

(* No step of the callers, the timers or the flush changes the order *)
LEMMA OrderNext ==
  TypeOK /\ PlaceInv /\ GateInv /\ LedgerInv /\ OrderInv /\ [Next]_vars => OrderInv'
<1> SUFFICES ASSUME TypeOK, PlaceInv, GateInv, LedgerInv, OrderInv, [Next]_vars PROVE OrderInv'
  OBVIOUS
<1>1. ASSUME NEW e \in Events, Add(e) PROVE OrderInv'
  BY <1>1, OrderAdd
<1>2. ASSUME NEW e \in Events, PutSettles(e) \/ IntentLands(e) PROVE OrderInv'
  BY <1>2, OrderKept DEF PutSettles, IntentLands, callerVars, bufferVars, jobVars
<1>3. CASE Flush \/ Close \/ AgeFires \/ IdleFires \/ FlushEmpty
  BY <1>3, OrderKept DEF Flush, Close, AgeFires, IdleFires, FlushEmpty, callerVars, bufferVars, jobVars
<1>4. CASE TakeWindow
  BY <1>4, OrderTakeWindow
<1>5. CASE Gate \/ GateLast
  <2>1. /\ UNCHANGED <<offered, posted, buffer>> /\ phase \in Uploading
        /\ gated + 1 \in 1 .. Len(window)
    BY <1>5, Shapes DEF Gate, GateLast, callerVars, bufferVars, Uploading
  <2>2. CASE window' = window /\ leaves' = Kept(window[gated + 1])
    BY <2>1, <2>2, OrderGate
  <2>3. CASE Return
    BY <2>1, <2>3, OrderKept DEF Return
  <2> QED
    BY <1>5, <2>2, <2>3 DEF Gate, GateLast
<1>6. CASE Seal \/ ReadHead \/ SetHead \/ WriteCheckpoint \/ WriteRow
  BY <1>6, OrderKept DEF Seal, ReadHead, SetHead, WriteCheckpoint, WriteRow, callerVars, bufferVars, jobVars,
     Uploading
<1>7. CASE Upload
  BY <1>7, OrderUpload
<1>8. CASE Resolve
  BY <1>8, OrderKept DEF Resolve, Return, callerVars, bufferVars, Uploading
<1>9. CASE Throw \/ SetHeadThrow
  BY <1>9, OrderKept DEF Throw, SetHeadThrow, Return, callerVars, bufferVars, Uploading
<1>10. CASE UNCHANGED vars
  BY <1>10, OrderKept DEF vars, callerVars, bufferVars, jobVars
<1>11. ASSUME NEW n \in DOMAIN posted, Accept(n) PROVE OrderInv'
  BY <1>11, OrderKept DEF Accept, callerVars, bufferVars, jobVars
<1> QED
  BY <1>1, <1>2, <1>3, <1>4, <1>5, <1>6, <1>7, <1>8, <1>9, <1>10, <1>11 DEF Next, DoFlush

(* The order holds from the first upload on *)
LEMMA OrderCorrect == Spec => []OrderInv
<1>1. Init => OrderInv
  BY RangeEmpty DEF Init, OrderInv, PostsInOrder, InOrder, Posted, Positions
<1> QED
  BY TypeCorrect, Invariance, OrderNext, <1>1, PTL DEF Spec

(***************************************************************************)
(* Checkpoints, their positions and their number                           *)
(***************************************************************************)

(* The positions of the checkpoints, and what refers to them *)
LEMMA PostsShape ==
  ASSUME TypeOK
  PROVE  /\ Len(posted) \in Nat /\ Positions = 1 .. Len(posted)
         /\ head \in Positions \cup {0} /\ prev \in Positions \cup {0} /\ tx \in Positions \cup {0}
<1>1. posted \in Seq([prev : Nat, leaves : Seq(Events)])
  BY DEF TypeOK, ChainOK
<1>2. Len(posted) \in Nat /\ Positions = 1 .. Len(posted)
  BY <1>1 DEF Positions
<1> QED
  BY <1>2 DEF TypeOK, ChainOK

(* What an upload adds to the checkpoints *)
LEMMA UploadShape ==
  ASSUME TypeOK, Upload
  PROVE  /\ Len(posted) \in Nat /\ Positions = 1 .. Len(posted) /\ Positions' = 1 .. Len(posted) + 1
         /\ \A i \in 1 .. Len(posted) : posted'[i] = posted[i]
         /\ posted'[Len(posted) + 1].leaves = leaves /\ posted'[Len(posted) + 1].prev = prev
<1>1. /\ posted \in Seq([prev : Nat, leaves : Seq(Events)])
      /\ Checkpoint \in [prev : Nat, leaves : Seq(Events)]
      /\ Checkpoint.leaves = leaves /\ Checkpoint.prev = prev
  BY DEF TypeOK, ChainOK, FlushOK, Checkpoint
<1> QED
  BY <1>1 DEF Upload, Positions

(* Events are only offered once, and only a checkpoint with leaves is      *)
(* uploaded                                                                *)
LEMMA CountNext == TypeOK /\ CountInv /\ [Next]_vars => CountInv'
<1> SUFFICES ASSUME TypeOK, CountInv, [Next]_vars PROVE CountInv'
  OBVIOUS
<1>1. Injective(offered)'
  <2>1. CASE \E e \in Events : Add(e)
    <3>1. PICK e \in Events : e \notin Range(offered) /\ offered' = Append(offered, e)
      BY <2>1 DEF Add
    <3>2. Injective(Append(offered, e))
      BY <3>1, Shapes, InjectiveAppend DEF CountInv
    <3> QED
      BY <3>1, <3>2 DEF Injective
  <2>2. CASE ~ \E e \in Events : Add(e)
    <3>1. UNCHANGED offered
      BY <2>2 DEF Next, DoFlush, vars, callerVars, PutSettles, IntentLands, Flush, Close, AgeFires,
         IdleFires, FlushEmpty, TakeWindow, Gate, GateLast, Seal, ReadHead, Upload, SetHead,
         WriteCheckpoint, WriteRow, Resolve, Throw, SetHeadThrow, Accept
    <3> QED
      BY <3>1 DEF CountInv, Injective
  <2> QED
    BY <2>1, <2>2
<1>2. \A i \in Positions' : posted'[i].leaves # <<>>
  <2>1. CASE Upload
    <3>1. /\ Positions' = 1 .. Len(posted) + 1 /\ Positions = 1 .. Len(posted)
          /\ Len(posted) \in Nat /\ posted'[Len(posted) + 1].leaves = leaves
          /\ \A i \in 1 .. Len(posted) : posted'[i] = posted[i]
      BY <2>1, UploadShape
    <3>2. leaves # <<>>
      BY <2>1 DEF Upload, TypeOK, FlushOK
    <3> QED
      BY <3>1, <3>2 DEF CountInv
  <2>2. CASE ~Upload
    <3>1. UNCHANGED posted
      BY <2>2 DEF Next, DoFlush, vars, Add, PutSettles, IntentLands, Flush, Close, AgeFires,
         IdleFires, FlushEmpty, TakeWindow, Gate, GateLast, Seal, ReadHead, SetHead,
         WriteCheckpoint, WriteRow, Resolve, Throw, SetHeadThrow, Accept
    <3> QED
      BY <3>1 DEF CountInv, Positions
  <2> QED
    BY <2>1, <2>2
<1> QED
  BY <1>1, <1>2 DEF CountInv

(* Events are offered once and only checkpoints with leaves uploaded       *)
LEMMA CountCorrect == Spec => []CountInv
<1>1. Init => CountInv
  BY DEF Init, CountInv, Injective, Positions
<1> QED
  BY TypeCorrect, CountNext, <1>1, PTL DEF Spec

(* As no event is offered twice, it does not follow what follows it *)
LEMMA FollowsStrict ==
  ASSUME TypeOK, CountInv, NEW a, NEW b, Follows(a, b) PROVE ~Follows(b, a)
<1> SUFFICES ASSUME Follows(b, a) PROVE FALSE
  OBVIOUS
<1>1. PICK k, l \in DOMAIN offered : k < l /\ offered[k] = a /\ offered[l] = b
  BY DEF Follows
<1>2. PICK m, n \in DOMAIN offered : m < n /\ offered[m] = b /\ offered[n] = a
  BY DEF Follows
<1>3. k = n /\ l = m
  BY <1>1, <1>2 DEF CountInv, Injective
<1>4. k \in Nat /\ l \in Nat
  BY <1>1, Shapes
<1> QED
  BY <1>1, <1>2, <1>3, <1>4

(* So no event is in two checkpoints *)
LEMMA CheckpointsApart ==
  ASSUME TypeOK, CountInv, PostsInOrder, NEW i \in Positions, NEW j \in Positions, i # j
  PROVE  Range(posted[i].leaves) \cap Range(posted[j].leaves) = {}
<1> SUFFICES ASSUME NEW e \in Range(posted[i].leaves), e \in Range(posted[j].leaves) PROVE FALSE
  OBVIOUS
<1>1. PICK a \in DOMAIN posted[i].leaves : posted[i].leaves[a] = e
  BY DEF Range
<1>2. PICK b \in DOMAIN posted[j].leaves : posted[j].leaves[b] = e
  BY DEF Range
<1>3. i < j \/ j < i
  BY PostsShape
<1>4. Follows(e, e)
  BY <1>1, <1>2, <1>3 DEF PostsInOrder
<1> QED
  BY <1>4, FollowsStrict

(***************************************************************************)
(* The chain                                                               *)
(***************************************************************************)

(* Where the flush stands when its checkpoint has become the head *)
Answering == {"checkpointRow", "eventRows", "receipt"}

(* A step that leaves checkpoints, head and receipts alone, or accepts     *)
(* another checkpoint, keeps all links and receipts on the chain           *)
LEMMA ReachKept ==
  ASSUME TypeOK, ReachInv, UNCHANGED <<posted, head, receipt>>, accepted \subseteq accepted',
         prev' \in {prev, head, 0},
         \A e \in Events : promise'[e] = "resolved" => promise[e] = "resolved",
         phase' \in Answering => phase \in Answering /\ tx' = tx
  PROVE  ReachInv'
<1>1. Chain' = Chain /\ Positions' = Positions
  BY DEF Chain, Backward, Positions
<1> QED
  BY <1>1 DEF ReachInv, ReceiptsOnChain, Answering

(* A checkpoint that is not the head leaves the chain as it is *)
LEMMA ChainUpload ==
  ASSUME TypeOK, ReachInv, Upload PROVE Chain' = Chain
<1>1. /\ Positions' = Positions \cup {Len(posted) + 1} /\ UNCHANGED head
      /\ \A n \in Positions : posted'[n] = posted[n]
  <2>1. /\ Len(posted) \in Nat /\ Positions = 1 .. Len(posted)
        /\ Positions' = 1 .. Len(posted) + 1
        /\ \A i \in 1 .. Len(posted) : posted'[i] = posted[i]
    BY UploadShape
  <2> QED
    BY <2>1 DEF Upload
<1>2. \A n \in Positions : posted[n].prev \in Positions \cup {0}
  BY DEF ReachInv, TypeOK, ChainOK
<1>3. head \in Positions \cup {0}
  BY PostsShape
<1>4. Chain \subseteq Chain'
  <2> SUFFICES ASSUME NEW n \in Chain, NEW S \in SUBSET Positions',
                      head \in S \cup {0}, Backward(S)'
               PROVE  n \in S
    BY <1>1 DEF Chain
  <2> DEFINE T == S \cap Positions
  <2>1. head \in T \cup {0}
    BY <1>3
  <2>2. Backward(T)
    BY <1>1, <1>2 DEF Backward
  <2> QED
    BY <2>1, <2>2 DEF Chain
<1>5. ASSUME NEW n \in Chain', NEW S \in SUBSET Positions, head \in S \cup {0}, Backward(S)
      PROVE  n \in S
  <2>1. S \in SUBSET Positions' /\ Backward(S)' /\ head' \in S \cup {0}
    BY <1>1, <1>5 DEF Backward
  <2> QED
    BY <2>1 DEF Chain
<1>6. Backward(Positions)
  BY <1>2 DEF Backward
<1>7. Chain' \subseteq Positions
  BY <1>3, <1>5, <1>6
<1> QED
  BY <1>4, <1>5, <1>7 DEF Chain

(* Nor does it take a link or a receipt off the chain *)
LEMMA ReachUpload == TypeOK /\ ReachInv /\ Upload => ReachInv'
<1> SUFFICES ASSUME TypeOK, ReachInv, Upload PROVE ReachInv'
  OBVIOUS
<1>1. UNCHANGED <<head, prev, accepted, receipt, promise>> /\ phase' = "setHead"
  BY DEF Upload
<1>2. /\ Len(posted) \in Nat /\ Positions = 1 .. Len(posted) /\ Positions' = 1 .. Len(posted) + 1
      /\ \A i \in 1 .. Len(posted) : posted'[i] = posted[i]
      /\ posted'[Len(posted) + 1].prev = prev
  BY UploadShape
<1>3. prev \in accepted \cup {0} /\ prev \in 0 .. Len(posted)
  BY DEF ReachInv, TypeOK, ChainOK
<1>4. \A n \in Positions' : posted'[n].prev \in accepted \cup {0} /\ posted'[n].prev < n
  BY <1>2, <1>3 DEF ReachInv
<1>5. Chain' = Chain
  BY ChainUpload
<1> QED
  BY <1>1, <1>4, <1>5 DEF ReachInv, ReceiptsOnChain

(* The head moves to a checkpoint that links to it: the chain grows by it *)
LEMMA ChainSetHead ==
  ASSUME TypeOK, LinkInv, phase = "setHead", head' = tx, UNCHANGED posted
  PROVE  Chain' = Chain \cup {tx}
<1>1. tx \in Positions /\ tx # 0 /\ posted[tx].prev = head
  BY PostsShape DEF LinkInv, TypeOK, ChainOK, Checkpoint
<1>2. Positions' = Positions /\ \A S : Backward(S)' <=> Backward(S)
  BY DEF Positions, Backward
<1>3. Chain \subseteq Chain'
  <2> SUFFICES ASSUME NEW n \in Chain, NEW S \in SUBSET Positions, tx \in S \cup {0}, Backward(S)
               PROVE  n \in S
    BY <1>2 DEF Chain
  <2>1. tx \in S
    BY <1>1
  <2>2. head \in S \cup {0}
    BY <1>1, <2>1 DEF Backward
  <2> QED
    BY <2>2 DEF Chain
<1>4. tx \in Chain'
  BY <1>1, <1>2 DEF Chain
<1>5. ASSUME NEW n \in Chain', n # tx, NEW S \in SUBSET Positions, head \in S \cup {0}, Backward(S)
      PROVE  n \in S
  <2>0. PICK T : T = S \cup {tx}
    OBVIOUS
  <2>1. T \in SUBSET Positions' /\ tx \in T \cup {0}
    BY <1>1, <1>2, <2>0
  <2>2. Backward(T)
    BY <1>1, <1>5, <2>0 DEF Backward
  <2>3. Backward(T)'
    BY <1>2, <2>2
  <2>4. n \in T
    BY <1>5, <2>1, <2>3 DEF Chain
  <2> QED
    BY <1>5, <2>0, <2>4
<1>6. Chain' \subseteq Positions
  BY <1>2 DEF Chain
<1> QED
  BY <1>3, <1>4, <1>5, <1>6 DEF Chain

(* Links and receipts stay on the chain that has grown *)
LEMMA ReachSetHead ==
  ASSUME TypeOK, LinkInv, ReachInv, phase = "setHead", tx \in accepted, head' = tx,
         UNCHANGED <<posted, accepted, receipt>>, prev' \in {prev, 0},
         \A e \in Events : promise'[e] = "resolved" => promise[e] = "resolved",
         phase' \in Answering => tx' = tx
  PROVE  ReachInv'
<1>1. Chain' = Chain \cup {tx} /\ Positions' = Positions
  BY ChainSetHead DEF Positions
<1> QED
  BY <1>1 DEF ReachInv, ReceiptsOnChain, Answering

(* A receipt is given for the head *)
LEMMA ReachResolve == TypeOK /\ ReachInv /\ Resolve => ReachInv'
<1> SUFFICES ASSUME TypeOK, ReachInv, Resolve PROVE ReachInv'
  OBVIOUS
<1> DEFINE e == leaves[written + 1]
<1>1. /\ UNCHANGED <<posted, accepted, head>> /\ phase = "receipt"
      /\ promise' = [promise EXCEPT ![e] = "resolved"]
      /\ receipt' = [receipt EXCEPT ![e] = ReceiptFor(written + 1)]
      /\ phase' = "idle" \/ tx' = tx
      /\ prev' \in {prev, 0}
  BY DEF Resolve, RowWritten, Return
<1>2. Chain' = Chain /\ Positions' = Positions
  BY <1>1 DEF Chain, Backward, Positions
<1>3. tx \in Chain /\ ReceiptFor(written + 1).tx = tx
  <2>1. tx = head /\ tx \in Positions /\ tx # 0
    BY <1>1, PostsShape DEF ReachInv, TypeOK, ChainOK
  <2> QED
    BY <2>1 DEF Chain, ReceiptFor
<1>4. \A x \in Events : promise'[x] = "resolved" => receipt'[x].tx \in Chain'
  <2>1. promise \in [Events -> Answers] /\ receipt \in [Events -> Receipts]
    BY DEF TypeOK, EventsOK, Answers, Receipts
  <2> HIDE DEF e
  <2> SUFFICES ASSUME NEW x \in Events, promise'[x] = "resolved" PROVE receipt'[x].tx \in Chain
    BY <1>2
  <2>2. CASE x = e
    BY <1>1, <1>3, <2>1, <2>2
  <2>3. CASE x # e
    BY <1>1, <2>1, <2>3 DEF ReachInv, ReceiptsOnChain
  <2> QED
    BY <2>2, <2>3
<1>5. head' = tx' \/ phase' \notin Answering
  BY <1>1 DEF ReachInv, Answering
<1> QED
  BY <1>1, <1>2, <1>4, <1>5 DEF ReachInv, ReceiptsOnChain, Answering

(* No step takes a checkpoint with receipts off the chain *)
LEMMA ReachNext == TypeOK /\ LinkInv /\ ReachInv /\ [Next]_vars => ReachInv'
<1> SUFFICES ASSUME TypeOK, LinkInv, ReachInv, [Next]_vars PROVE ReachInv'
  OBVIOUS
<1> USE DEF Answering
<1>1. ASSUME NEW e \in Events, Add(e) PROVE ReachInv'
  <2>1. \A x \in Events : promise'[x] = "resolved" => promise[x] = "resolved"
    BY <1>1 DEF Add, TypeOK, EventsOK
  <2> QED
    BY <1>1, <2>1, ReachKept DEF Add, jobVars
<1>2. ASSUME NEW e \in Events, PutSettles(e) \/ IntentLands(e) PROVE ReachInv'
  BY <1>2, ReachKept DEF PutSettles, IntentLands, jobVars
<1>3. CASE Flush \/ Close \/ AgeFires \/ IdleFires \/ FlushEmpty
  BY <1>3, ReachKept DEF Flush, Close, AgeFires, IdleFires, FlushEmpty, jobVars
<1>4. CASE TakeWindow \/ Gate \/ Seal \/ ReadHead \/ WriteCheckpoint \/ WriteRow
  BY <1>4, ReachKept DEF TakeWindow, Gate, Seal, ReadHead, WriteCheckpoint, WriteRow, jobVars
<1>5. CASE GateLast \/ Throw
  <2>1. \A x \in Events : promise'[x] = "resolved" => promise[x] = "resolved"
    BY <1>5 DEF GateLast, Throw, Reject
  <2>2. /\ UNCHANGED <<posted, accepted, head, receipt>> /\ phase' \notin Answering
        /\ prev' \in {prev, 0}
    BY <1>5 DEF GateLast, Throw, Return
  <2> QED
    BY <2>1, <2>2, ReachKept
<1>6. CASE Upload
  BY <1>6, ReachUpload
<1>7. CASE SetHead
  BY <1>7, ReachSetHead DEF SetHead, Answered, jobVars
<1>8. CASE SetHeadThrow
  <2>1. \A x \in Events : promise'[x] = "resolved" => promise[x] = "resolved"
    BY <1>8 DEF SetHeadThrow, Reject
  <2> QED
    BY <1>8, <2>1, ReachSetHead DEF SetHeadThrow, Answered, Return
<1>9. CASE Resolve
  BY <1>9, ReachResolve
<1>10. ASSUME NEW n \in DOMAIN posted, Accept(n) PROVE ReachInv'
  BY <1>10, ReachKept DEF Accept, jobVars
<1>11. CASE UNCHANGED vars
  BY <1>11, ReachKept DEF vars, jobVars
<1> QED
  BY <1>1, <1>2, <1>3, <1>4, <1>5, <1>6, <1>7, <1>8, <1>9, <1>10, <1>11 DEF Next, DoFlush

(* Links and receipts stay on the chain *)
LEMMA ReachCorrect == Spec => []ReachInv
<1>1. Init => ReachInv
  BY DEF Init, ReachInv, ReceiptsOnChain, Chain, Positions
<1> QED
  BY TypeCorrect, LinkCorrect, ReachNext, <1>1, PTL DEF Spec

(* Every checkpoint that a caller holds a receipt for can be reached from  *)
(* the chain head, which leads back to nothing that was not accepted       *)
THEOREM ReceiptsStayOnChain == Spec => []ReceiptsOnChain
<1>1. ReachInv => ReceiptsOnChain
  BY DEF ReachInv
<1> QED
  BY ReachCorrect, <1>1, PTL

(* Receipts are ordered like the events they are for *)
LEMMA ReceiptsInOrder ==
  ASSUME TypeOK, CountInv, PostsInOrder, ReceiptSound, NEW a \in Events, NEW b \in Events,
         promise[a] = "resolved", promise[b] = "resolved", Follows(a, b)
  PROVE  Before(receipt[a], receipt[b])
<1> DEFINE r == receipt[a]
           s == receipt[b]
<1>1. /\ r.tx \in Positions /\ s.tx \in Positions
      /\ r.leaf \in DOMAIN posted[r.tx].leaves /\ posted[r.tx].leaves[r.leaf] = a
      /\ s.leaf \in DOMAIN posted[s.tx].leaves /\ posted[s.tx].leaves[s.leaf] = b
  BY DEF ReceiptSound, TypeOK, ChainOK
<1>2. r.tx \in Nat /\ s.tx \in Nat /\ r.leaf \in Nat /\ s.leaf \in Nat
  BY DEF TypeOK, EventsOK
<1>3. ~Follows(b, a) /\ a # b
  BY FollowsStrict
<1> HIDE DEF r, s
<1>4. ~(s.tx < r.tx \/ (s.tx = r.tx /\ s.leaf < r.leaf))
  BY <1>1, <1>3 DEF PostsInOrder
<1>5. r.tx = s.tx => r.leaf # s.leaf
  BY <1>1, <1>3
<1>6. r.tx < s.tx \/ (r.tx = s.tx /\ r.leaf < s.leaf)
  BY <1>2, <1>4, <1>5
<1> QED
  BY <1>6 DEF Before, r, s

(* Checkpoints, links and receipts keep the order of the add() calls, and  *)
(* no event is in two checkpoints, whichever of them the network accepts   *)
(* and however late                                                        *)
THEOREM ChainIsInOrder == Spec => []ChainKeepsOrder
<1>1. ASSUME TypeOK, CountInv, OrderInv, ReachInv, ReceiptSound PROVE ChainKeepsOrder
  <2>1. PostsInOrder
    BY <1>1 DEF OrderInv
  <2>2. \A n \in Positions : InOrder(posted[n].leaves)
    BY <2>1 DEF PostsInOrder, InOrder
  <2>3. ASSUME NEW n \in Positions, posted[n].prev # 0,
               NEW a \in Range(posted[posted[n].prev].leaves), NEW b \in Range(posted[n].leaves)
        PROVE  Follows(a, b)
    <3>1. posted[n].prev \in Positions /\ posted[n].prev < n
      BY <1>1, <2>3 DEF ReachInv, TypeOK, ChainOK
    <3>2. PICK i \in DOMAIN posted[posted[n].prev].leaves : posted[posted[n].prev].leaves[i] = a
      BY DEF Range
    <3>3. PICK j \in DOMAIN posted[n].leaves : posted[n].leaves[j] = b
      BY DEF Range
    <3> QED
      BY <2>1, <3>1, <3>2, <3>3 DEF PostsInOrder
  <2>4. \A n \in Positions : \A m \in Positions \ {n} :
          Range(posted[n].leaves) \cap Range(posted[m].leaves) = {}
    BY <1>1, <2>1, CheckpointsApart
  <2>5. \A a, b \in Events :
          promise[a] = "resolved" /\ promise[b] = "resolved" /\ Follows(a, b) =>
            Before(receipt[a], receipt[b])
    BY <1>1, <2>1, ReceiptsInOrder
  <2> QED
    BY <2>2, <2>3, <2>4, <2>5 DEF ChainKeepsOrder
<1> QED
  BY TypeCorrect, CountCorrect, OrderCorrect, ReachCorrect, ReceiptsAreSound, <1>1, PTL

(***************************************************************************)
(* The batcher implements the notary                                       *)
(***************************************************************************)

(* What is proven is on the ledger for good, and was uploaded *)
LEMMA AnchoredPosted == TypeOK => Anchored \subseteq Posted
BY DEF Anchored, Posted, TypeOK, ChainOK

(* A step that changes neither a promise nor what is accepted stutters     *)
LEMMA Stutter == UNCHANGED <<promise, posted, accepted>> => UNCHANGED N!vars
BY DEF N!vars, NotaryStatus, Anchored

(* A constructed batcher is a notary to which nothing was offered *)
LEMMA RefineInit == Init => N!Init
<1> SUFFICES ASSUME Init PROVE N!Init
  OBVIOUS
<1>1. Anchored = {}
  BY DEF Init, Anchored
<1>2. NotaryStatus = [e \in Events |-> "none"]
  BY DEF Init, NotaryStatus
<1> QED
  BY <1>1, <1>2 DEF N!Init

(* The window that failed: its pending events are answered, on the ledger  *)
(* or not                                                                  *)
LEMMA RejectFails ==
  ASSUME TypeOK, NEW S, Reject(S, "failed"), UNCHANGED <<posted, accepted>>
  PROVE  N!Fail
<1> DEFINE T == {e \in Events : e \in S /\ promise[e] = "pending"}
<1>1. \A e \in Events : promise'[e] = IF e \in T THEN "failed" ELSE promise[e]
  BY RejectSettles
<1>2. T \in SUBSET N!Pending
  BY DEF N!Pending, NotaryStatus
<1>3. NotaryStatus' = [e \in Events |-> IF e \in T THEN "failed" ELSE NotaryStatus[e]]
  BY <1>1 DEF NotaryStatus
<1>4. Anchored' = Anchored
  BY DEF Anchored
<1> HIDE DEF T
<1> QED
  BY <1>2, <1>3, <1>4 DEF N!Fail, N!Answer

(* What the gate keeps out was never uploaded *)
LEMMA RejectDrops ==
  ASSUME TypeOK, NEW S, S \cap Posted = {}, Reject(S, "retention"), UNCHANGED <<posted, accepted>>
  PROVE  N!Drop
<1> DEFINE T == {e \in Events : e \in S /\ promise[e] = "pending"}
<1>1. \A e \in Events : promise'[e] = IF e \in T THEN "retention" ELSE promise[e]
  BY RejectSettles
<1>2. T \in SUBSET (N!Pending \ Anchored)
  BY AnchoredPosted DEF N!Pending, NotaryStatus
<1>3. NotaryStatus' = [e \in Events |-> IF e \in T THEN "dropped" ELSE NotaryStatus[e]]
  BY <1>1 DEF NotaryStatus
<1>4. Anchored' = Anchored
  BY DEF Anchored
<1> HIDE DEF T
<1> QED
  BY <1>2, <1>3, <1>4 DEF N!Drop, N!Answer

(* Whenever the network accepts a checkpoint, the events it proves were    *)
(* not proven, and are pending or were told that the window failed         *)
LEMMA AcceptProves ==
  ASSUME TypeOK, LedgerInv, PostsInOrder, CountInv, ReceiptSound,
         NEW n \in DOMAIN posted, Accept(n)
  PROVE  N!Prove
<1> DEFINE S == Range(posted[n].leaves)
<1>1. n \in Positions \ accepted /\ accepted' = accepted \cup {n} /\ UNCHANGED <<posted, promise>>
  BY DEF Accept, Positions
<1>2. Anchored' = Anchored \cup S
  <2>1. \A x : x \in Anchored' <=> \E i \in accepted' : x \in Range(posted'[i].leaves)
    BY DEF Anchored
  <2>2. \A x : x \in Anchored <=> \E i \in accepted : x \in Range(posted[i].leaves)
    BY DEF Anchored
  <2>3. \A x : x \in Anchored' <=> x \in Anchored \/ x \in S
    BY <1>1, <2>1, <2>2
  <2> QED
    BY <2>3
<1>3. S # {}
  <2>1. posted[n].leaves # <<>>
    BY <1>1 DEF CountInv
  <2>2. posted[n] \in [prev : Nat, leaves : Seq(Events)]
    BY ElementOfSeq, PostsShape DEF TypeOK, ChainOK, Positions
  <2>3. 1 \in DOMAIN posted[n].leaves
    BY <2>1, <2>2, EmptySeq
  <2> QED
    BY <2>3 DEF Range
<1>4. S \cap Anchored = {}
  <2>1. \A i \in accepted : i \in Positions /\ i # n
    BY <1>1 DEF TypeOK, ChainOK
  <2>2. \A i \in accepted : S \cap Range(posted[i].leaves) = {}
    BY <1>1, <2>1, CheckpointsApart
  <2> HIDE DEF S
  <2> QED
    BY <2>2 DEF Anchored
<1>5. S \subseteq Posted /\ Posted \subseteq Events
  BY <1>1, PostedEvents DEF Posted
<1>6. ASSUME NEW e \in S PROVE promise[e] \in {"pending", "failed"}
  <2>1. e \in Events /\ promise[e] # "none" /\ ~Unstored(e)
    BY <1>5, <1>6 DEF LedgerInv
  <2>2. promise[e] # "retention"
    BY <2>1 DEF LedgerInv
  <2>3. promise[e] # "resolved"
    <3> SUFFICES ASSUME promise[e] = "resolved" PROVE FALSE
      OBVIOUS
    <3>1. /\ receipt[e].tx \in accepted
          /\ receipt[e].leaf \in DOMAIN posted[receipt[e].tx].leaves
          /\ posted[receipt[e].tx].leaves[receipt[e].leaf] = e
      BY <2>1 DEF ReceiptSound
    <3>2. e \in Anchored
      BY <3>1 DEF Anchored, Range
    <3> QED
      BY <1>4, <1>6, <3>2
  <2> QED
    BY <2>1, <2>2, <2>3 DEF TypeOK, EventsOK
<1>7. S \in SUBSET ((N!Pending \cup N!Failed) \ Anchored)
  <2>1. \A e \in S : e \in Events /\ NotaryStatus[e] \in {"pending", "failed"}
    BY <1>5, <1>6 DEF NotaryStatus
  <2> HIDE DEF S
  <2> QED
    BY <1>4, <2>1 DEF N!Pending, N!Failed
<1>8. UNCHANGED NotaryStatus
  BY <1>1 DEF NotaryStatus
<1> HIDE DEF S
<1> QED
  BY <1>2, <1>3, <1>7, <1>8 DEF N!Prove

(* Every step of the batcher is a step of the notary or leaves it alone *)
LEMMA RefineNext ==
  ASSUME TypeOK, LinkInv, PlaceInv, GateInv, LedgerInv, OrderInv, CountInv, ReceiptSound,
         [Next]_vars
  PROVE  [N!Next]_(N!vars)
<1>a. promise \in [Events -> Answers]
  BY DEF TypeOK, EventsOK, Answers
<1>b. UNCHANGED <<posted, accepted>> => UNCHANGED Anchored
  BY DEF Anchored
<1>1. ASSUME NEW e \in Events, Add(e) PROVE N!Next
  <2>1. promise[e] = "none"
    BY <1>1 DEF Add, PlaceInv
  <2>2. promise' = [promise EXCEPT ![e] = "pending"] /\ UNCHANGED <<posted, accepted>>
    BY <1>1 DEF Add
  <2>3. /\ NotaryStatus[e] = "none"
        /\ NotaryStatus' = [NotaryStatus EXCEPT ![e] = "pending"]
    BY <1>a, <2>1, <2>2 DEF NotaryStatus
  <2> QED
    BY <1>b, <2>2, <2>3 DEF N!Next, N!Offer
<1>2. ASSUME NEW e \in Events, PutSettles(e) \/ IntentLands(e) PROVE UNCHANGED N!vars
  BY <1>2, Stutter DEF PutSettles, IntentLands
<1>3. CASE Flush \/ Close \/ AgeFires \/ IdleFires \/ FlushEmpty
  BY <1>3, Stutter DEF Flush, Close, AgeFires, IdleFires, FlushEmpty
<1>4. CASE TakeWindow \/ Gate \/ Seal \/ ReadHead \/ SetHead \/ WriteCheckpoint \/ WriteRow
  BY <1>4, Stutter DEF TakeWindow, Gate, Seal, ReadHead, SetHead, WriteCheckpoint, WriteRow
<1>5. CASE GateLast
  <2>1. /\ UNCHANGED <<posted, accepted>> /\ phase = "gate"
        /\ Reject({x \in Range(window) : Unstored(x)}, "retention")
    BY <1>5 DEF GateLast
  <2>2. {x \in Range(window) : Unstored(x)} \cap Posted = {}
    BY <2>1 DEF LedgerInv
  <2> QED
    BY <2>1, <2>2, RejectDrops DEF N!Next
<1>6. CASE Throw \/ SetHeadThrow
  <2>1. UNCHANGED <<posted, accepted>> /\ Reject(Range(window), "failed")
    BY <1>6 DEF Throw, SetHeadThrow
  <2> QED
    BY <2>1, RejectFails DEF N!Next
<1>7. CASE Upload
  <2>1. Anchored' = Anchored
    <3>1. accepted \subseteq 1 .. Len(posted) /\ UNCHANGED accepted
          /\ \A i \in 1 .. Len(posted) : posted'[i] = posted[i]
      BY <1>7, UploadShape DEF Upload, TypeOK, ChainOK
    <3>2. \A i \in accepted : posted'[i] = posted[i]
      BY <3>1
    <3> QED
      BY <3>1, <3>2 DEF Anchored
  <2> QED
    BY <1>7, <2>1 DEF Upload, N!vars, NotaryStatus
<1>8. CASE Resolve
  <2> DEFINE e == leaves[written + 1]
  <2>1. /\ UNCHANGED <<posted, accepted>> /\ phase = "receipt"
        /\ promise' = [promise EXCEPT ![e] = "resolved"]
    BY <1>8 DEF Resolve, RowWritten
  <2>2. written + 1 \in 1 .. Len(leaves)
    BY <2>1, Shapes DEF TypeOK, FlushOK
  <2>3. e \in Events /\ e \in Range(leaves)
    BY <2>2, Shapes DEF Range
  <2>4. promise[e] = "pending"
    <3>1. \A i \in written + 1 .. Len(leaves) : promise[leaves[i]] = "pending"
      BY <2>1 DEF GateInv
    <3>2. written + 1 \in written + 1 .. Len(leaves)
      BY <2>2, Shapes
    <3> QED
      BY <3>1, <3>2
  <2>5. e \in Anchored
    <3>1. tx \in accepted /\ posted[tx].leaves = leaves
      BY <2>1 DEF LinkInv, Checkpoint
    <3> QED
      BY <2>3, <3>1 DEF Anchored
  <2>6. NotaryStatus' = [NotaryStatus EXCEPT ![e] = "receipted"]
    BY <1>a, <2>1, <2>3 DEF NotaryStatus
  <2>7. e \in N!Pending
    BY <2>3, <2>4 DEF N!Pending, NotaryStatus
  <2> QED
    BY <1>b, <2>1, <2>3, <2>5, <2>6, <2>7 DEF N!Next, N!Receipt
<1>9. ASSUME NEW n \in DOMAIN posted, Accept(n) PROVE N!Next
  BY <1>9, AcceptProves DEF N!Next, OrderInv
<1>10. CASE UNCHANGED vars
  BY <1>10, Stutter DEF vars
<1> QED
  BY <1>1, <1>2, <1>3, <1>4, <1>5, <1>6, <1>7, <1>8, <1>9, <1>10 DEF Next, DoFlush

(* The batcher implements the notary: each event is answered at most once, *)
(* with a receipt only if it is on the ledger, where it gets at most once, *)
(* also when the network accepts its checkpoint after the answer, and      *)
(* never if it was dropped for its retention                               *)
THEOREM BatcherImplementsNotary == Spec => ImplementsNotary
<1>1. TypeOK /\ LinkInv /\ PlaceInv /\ GateInv /\ LedgerInv /\ OrderInv /\ CountInv
        /\ ReceiptSound /\ [Next]_vars => [N!Next]_(N!vars)
  BY RefineNext
<1> QED
  BY TypeCorrect, LinkCorrect, Invariance, OrderCorrect, CountCorrect, ReceiptsAreSound,
     RefineInit, <1>1, PTL DEF Spec, ImplementsNotary, N!Spec

(***************************************************************************)
(* A window of the batcher is a window as the anchorer sees it             *)
(***************************************************************************)

(* An interval of the positions counts them *)
LEMMA IntervalCount == ASSUME NEW n \in Nat PROVE Cardinality(1 .. n) = n
<1>1. 1 \in Int /\ n \in Int
  OBVIOUS
<1>2. Cardinality(1 .. n) = IF 1 > n THEN 0 ELSE n - 1 + 1
  BY <1>1, FS_Interval, Zenon
<1> QED
  BY <1>2

(* As long as an event is not uploaded there are fewer checkpoints than    *)
(* events: each has a first leaf, and no two the same                      *)
LEMMA FewerCheckpoints ==
  ASSUME IsFiniteSet(Events), TypeOK, CountInv, PostsInOrder,
         NEW x \in Events, x \notin Posted
  PROVE  Len(posted) \in Nat /\ Cardinality(Events) \in Nat /\ Len(posted) < Cardinality(Events)
<1> DEFINE n == Len(posted)
           f == [i \in 1 .. n |-> posted[i].leaves[1]]
<1>1. n \in Nat /\ Positions = 1 .. n
  BY PostsShape
<1>2. ASSUME NEW i \in 1 .. n
      PROVE  1 \in DOMAIN posted[i].leaves /\ posted[i].leaves[1] \in Events \ {x}
  <2>1. posted[i].leaves \in Seq(Events) /\ posted[i].leaves # <<>>
    <3>1. posted[i] \in [prev : Nat, leaves : Seq(Events)]
      BY <1>1, ElementOfSeq DEF TypeOK, ChainOK
    <3> QED
      BY <1>1, <3>1 DEF CountInv
  <2>2. 1 \in DOMAIN posted[i].leaves
    BY <2>1, EmptySeq
  <2>3. posted[i].leaves[1] \in Posted
    BY <1>1, <2>2 DEF Posted, Range
  <2>4. posted[i].leaves[1] \in Events
    BY <2>1, <2>2, ElementOfSeq
  <2> QED
    BY <2>2, <2>3, <2>4
<1>3. ASSUME NEW i \in 1 .. n, NEW j \in 1 .. n, i < j
      PROVE  posted[i].leaves[1] # posted[j].leaves[1]
  <2>1. Follows(posted[i].leaves[1], posted[j].leaves[1])
    BY <1>1, <1>2, <1>3 DEF PostsInOrder
  <2>2. DOMAIN offered \subseteq Int
    BY Shapes
  <2> QED
    BY <2>1, <2>2 DEF Follows, CountInv, Injective
<1>4. f \in [1 .. n -> Events \ {x}]
  BY <1>2
<1>5. \A i, j \in 1 .. n : f[i] = f[j] => i = j
  <2> SUFFICES ASSUME NEW i \in 1 .. n, NEW j \in 1 .. n, i # j PROVE f[i] # f[j]
    OBVIOUS
  <2>1. i < j \/ j < i
    BY <1>1
  <2> QED
    BY <1>3, <2>1
<1> HIDE DEF f
<1>6. f \in Injection(1 .. n, Events \ {x})
  BY <1>4, <1>5 DEF Injection, IsInjective
<1>7. /\ IsFiniteSet(Events \ {x}) /\ Cardinality(Events \ {x}) = Cardinality(Events) - 1
      /\ Cardinality(Events) \in Nat
  BY FS_RemoveElement, FS_CardinalityType
<1>8. Cardinality(1 .. n) <= Cardinality(Events \ {x})
  BY <1>6, <1>7, FS_Injection
<1>9. Cardinality(1 .. n) = n
  BY <1>1, IntervalCount
<1> HIDE DEF n
<1>10. n < Cardinality(Events)
  BY <1>1, <1>7, <1>8, <1>9
<1> QED
  BY <1>1, <1>7, <1>10 DEF n

(* A constructed batcher is an idle writer of an empty chain *)
LEMMA WriterInit == Init => A!Init
<1> SUFFICES ASSUME Init PROVE A!Init
  OBVIOUS
<1>1. opts.strict \in BOOLEAN
  BY BatcherAssumption DEF Init, BatchOptions
<1>2. WriterPc = "idle" /\ WriterPrev = 0 /\ WriterTx = 0 /\ head = 0
  BY DEF Init, WriterPc, WriterPrev, WriterTx
<1>3. Positions = {} /\ accepted = {} /\ Chain = {}
  BY DEF Init, Positions, Chain
<1>4. [i \in Positions |-> [by |-> "batcher", chain |-> "chain", prev |-> posted[i].prev]] = <<>>
  BY <1>3
<1> QED
  BY <1>1, <1>2, <1>3, <1>4 DEF A!Init, A!Writers

(* A step that leaves the chain and what its writer knows alone stutters *)
LEMMA WriterStutter ==
  UNCHANGED <<opts, WriterPc, WriterPrev, WriterTx, head, posted, accepted>> => UNCHANGED A!vars
BY DEF A!vars, A!content, A!network, A!chain, Positions, Chain, Backward

(* The anchorer counts as the batcher does *)
LEMMA WriterCounts == \A S : A!Cardinality(S) = Cardinality(S)
BY DEF A!Cardinality, Cardinality

(* What is uploaded, as the anchorer sees it *)
Recs == [i \in Positions |-> [by |-> "batcher", chain |-> "chain", prev |-> posted[i].prev]]

(* The chain is what head and checkpoints make it *)
LEMMA ChainKept == UNCHANGED <<head, posted>> => UNCHANGED <<Chain, Recs, Positions>>
BY DEF Chain, Backward, Positions, Recs

(* The window goes on to its checkpoint *)
LEMMA WriterBegins ==
  ASSUME IsFiniteSet(Events), TypeOK, CountInv, LedgerInv, OrderInv, GateLast, phase' = "seal"
  PROVE  A!Next
<1>1. /\ phase = "gate" /\ UNCHANGED <<opts, head, posted, accepted>>
  BY DEF GateLast, callerVars
<1>2. /\ WriterPc = "idle" /\ WriterPc' = "head"
      /\ WriterPrev' = WriterPrev /\ WriterTx' = WriterTx
  BY <1>1 DEF WriterPc, WriterPrev, WriterTx
<1>3. PICK x \in Events : x \notin Posted
  <2>1. window \in Seq(Events) /\ window # <<>>
    BY <1>1 DEF TypeOK, FlushOK
  <2>2. 1 \in DOMAIN window /\ window[1] \in Events
    BY <2>1, EmptySeq, ElementOfSeq
  <2>3. window[1] \in Range(window)
    BY <2>2 DEF Range
  <2> QED
    BY <1>1, <2>2, <2>3 DEF LedgerInv
<1>4. Len(posted) \in Nat /\ Len(posted) < Cardinality(Events)
  BY <1>3, FewerCheckpoints DEF OrderInv
<1>5. {i \in DOMAIN Recs : Recs[i].by = "batcher"} = 1 .. Len(posted)
  BY PostsShape DEF Recs
<1>6. Cardinality(1 .. Len(posted)) = Len(posted)
  BY <1>4, IntervalCount
<1>7. UNCHANGED <<Chain, Recs>>
  BY <1>1, ChainKept
<1>8. Cardinality({i \in DOMAIN Recs : Recs[i].by = "batcher"}) < Cardinality(Events)
  BY <1>4, <1>5, <1>6
<1>9. A!Goto("batcher", "head")
  BY <1>2 DEF A!Goto
<1>10. A!Records = DOMAIN Recs
  BY DEF A!Records, Recs
<1>11. Cardinality({i \in A!Records : Recs[i].by = "batcher"}) < Cardinality(Events)
  BY <1>8, <1>10
<1>12. A!BeginWindow("batcher")
  <2>1. [i \in Positions |-> [by |-> "batcher", chain |-> "chain", prev |-> posted[i].prev]] = Recs
    BY DEF Recs
  <2> QED
    BY <1>1, <1>2, <1>7, <1>9, <1>11, <2>1, WriterCounts
       DEF A!BeginWindow, A!content, A!network, A!chain, Recs
<1> QED
  BY <1>12 DEF A!Next

(* The head the window reads is the one the writer reads *)
LEMMA WriterReads == ASSUME TypeOK, ReadHead PROVE A!Next
<1>1. /\ WriterPc = "head" /\ WriterPc' = "upload" /\ WriterPrev' = head /\ WriterTx' = WriterTx
      /\ UNCHANGED <<opts, head, posted, accepted>>
  BY DEF ReadHead, WriterPc, WriterPrev, WriterTx, callerVars
<1>2. UNCHANGED <<Chain, Recs>>
  BY <1>1, ChainKept
<1>3. A!ReadHead("batcher")
  BY <1>1, <1>2 DEF A!ReadHead, A!HeadOf, A!Chained, A!Goto, A!Writers, A!content, A!network, A!chain,
     Recs
<1> QED
  BY <1>3 DEF A!Next, A!Writers

(* The checkpoint is the writer's record, linked to what it read *)
LEMMA WriterUploads == ASSUME TypeOK, ReachInv, Upload PROVE A!Next
<1> DEFINE r == [by |-> "batcher", chain |-> "chain", prev |-> prev]
<1>1. /\ Len(posted) \in Nat /\ Positions = 1 .. Len(posted) /\ Positions' = 1 .. Len(posted) + 1
      /\ \A i \in 1 .. Len(posted) : posted'[i] = posted[i]
      /\ posted'[Len(posted) + 1].prev = prev
  BY UploadShape
<1>2. /\ phase = "upload" /\ phase' = "setHead" /\ tx' = Len(posted) + 1
      /\ UNCHANGED <<opts, head, prev, accepted>>
  BY DEF Upload, callerVars
<1>3. /\ WriterPc = "upload" /\ WriterPc' = "answer"
      /\ WriterPrev = prev /\ WriterPrev' = prev /\ WriterTx' = Len(posted) + 1
  BY <1>2 DEF WriterPc, WriterPrev, WriterTx
<1>4. Recs \in Seq({Recs[i] : i \in Positions}) /\ Len(Recs) = Len(posted)
  BY <1>1 DEF Recs
<1>5. Recs' = Append(Recs, r)
  <2>1. Recs' = [i \in 1 .. Len(posted) + 1 |-> IF i = Len(posted) + 1 THEN r ELSE Recs[i]]
    BY <1>1 DEF Recs
  <2> QED
    BY <1>1, <1>4, <2>1
<1>6. Chain' = Chain
  BY ChainUpload
<1>7. A!Upload("batcher")
  <2> HIDE DEF r
  <2>1. /\ [i \in Positions |-> [by |-> "batcher", chain |-> "chain", prev |-> posted[i].prev]]
             = Recs
        /\ [i \in Positions |-> [by |-> "batcher", chain |-> "chain", prev |-> posted[i].prev]]'
             = Recs'
    BY DEF Recs
  <2> QED
    BY <1>2, <1>3, <1>4, <1>5, <1>6, <2>1 DEF A!Upload, A!Goto, A!content, A!chain, r
<1> QED
  BY <1>7 DEF A!Next, A!Writers

(* The network accepts the same records *)
LEMMA WriterAccepts == ASSUME TypeOK, NEW n \in DOMAIN posted, Accept(n) PROVE A!Next
<1>1. /\ n \in Positions \ accepted /\ accepted' = accepted \cup {n}
      /\ UNCHANGED <<opts, phase, prev, tx, head, posted>>
  BY DEF Accept, Positions, callerVars, jobVars
<1>2. UNCHANGED <<WriterPc, WriterPrev, WriterTx>>
  BY <1>1 DEF WriterPc, WriterPrev, WriterTx
<1>3. UNCHANGED <<Chain, Recs>>
  BY <1>1, ChainKept
<1>4. A!Records = Positions
  BY DEF A!Records
<1>5. A!Accept(n)
  BY <1>1, <1>2, <1>3, <1>4 DEF A!Accept, A!content, A!chain, Recs
<1> QED
  BY <1>1, <1>4, <1>5 DEF A!Next

(* The head moves to the writer's record, whatever the window is told *)
LEMMA WriterSets == ASSUME TypeOK, LinkInv, SetHead \/ SetHeadThrow PROVE A!Next
<1>1. /\ phase = "setHead" /\ phase' \in {"checkpointRow", "idle"} /\ head' = tx
      /\ tx \in accepted /\ UNCHANGED <<opts, posted, accepted>>
  BY DEF SetHead, SetHeadThrow, Answered, Return, callerVars
<1>2. /\ WriterPc = "answer" /\ WriterPc' = "idle" /\ WriterTx = tx
      /\ WriterPrev' = 0 /\ WriterTx' = 0
  BY <1>1 DEF WriterPc, WriterPrev, WriterTx
<1>3. A!Proceed("batcher", "row")
  BY <1>2 DEF A!Proceed, A!Goto
<1>4. [k \in {"chain"} |-> head]' = A!NewHeads("batcher")
  BY <1>1, <1>2 DEF A!NewHeads
<1>5. Chain' = Chain \cup {tx}
  BY <1>1, ChainSetHead
<1>6. A!Answered("batcher") /\ A!BecomesHead("batcher")
  BY <1>1, <1>2 DEF A!Answered, A!BecomesHead, A!Chained
<1>7. A!SetHead("batcher")
  BY <1>1, <1>2, <1>3, <1>4, <1>5, <1>6 DEF A!SetHead, A!content, A!network, Positions
<1> QED
  BY <1>7 DEF A!Next, A!Writers

(* A window that fails is a writer that gives up and forgets *)
LEMMA WriterGivesUp == ASSUME TypeOK, Throw PROVE A!Next
<1>1. /\ phase \in {"seal", "head", "upload", "setHead"} /\ phase' = "idle"
      /\ UNCHANGED <<opts, head, posted, accepted>>
  BY DEF Throw, Return, callerVars
<1>2. /\ WriterPc \in {"head", "upload", "answer"} /\ WriterPc' = "idle"
      /\ WriterPrev' = 0 /\ WriterTx' = 0
  BY <1>1 DEF WriterPc, WriterPrev, WriterTx
<1>3. A!Proceed("batcher", "threw")
  BY <1>2 DEF A!Proceed, A!Goto
<1>4. UNCHANGED <<Chain, Recs>>
  BY <1>1, ChainKept
<1>5. A!Throw("batcher")
  BY <1>1, <1>2, <1>3, <1>4 DEF A!Throw, A!content, A!network, A!chain, Recs
<1> QED
  BY <1>5 DEF A!Next, A!Writers

(* Every step of the batcher is a step of its writer or none of the chain *)
LEMMA WriterNext ==
  ASSUME IsFiniteSet(Events)
  PROVE  TypeOK /\ LinkInv /\ CountInv /\ LedgerInv /\ OrderInv /\ ReachInv /\ [Next]_vars
           => [A!Next]_(A!vars)
<1> SUFFICES ASSUME TypeOK, LinkInv, CountInv, LedgerInv, OrderInv, ReachInv, [Next]_vars
             PROVE  [A!Next]_(A!vars)
  OBVIOUS
<1> USE DEF WriterPc, WriterPrev, WriterTx, callerVars, jobVars
<1>1. CASE \/ \E e \in Events : Add(e) \/ PutSettles(e) \/ IntentLands(e)
           \/ Flush \/ Close \/ AgeFires \/ IdleFires \/ FlushEmpty \/ Gate
           \/ UNCHANGED vars
  <2>1. UNCHANGED <<opts, phase, prev, tx, head, posted, accepted>>
    BY <1>1 DEF Add, PutSettles, IntentLands, Flush, Close, AgeFires, IdleFires, FlushEmpty, Gate, vars
  <2> QED
    BY <2>1, WriterStutter
<1>2. CASE TakeWindow \/ Seal \/ WriteCheckpoint \/ WriteRow
  <2>1. /\ UNCHANGED <<opts, head, posted, accepted>>
        /\ \/ phase = "idle" /\ phase' = "gate"
           \/ phase = "seal" /\ phase' = "head"
           \/ phase = "checkpointRow" /\ phase' = "eventRows"
           \/ phase = "eventRows" /\ phase' = "receipt"
    BY <1>2 DEF TakeWindow, Seal, WriteCheckpoint, WriteRow
  <2> QED
    BY <2>1, WriterStutter
<1>3. CASE GateLast
  <2>1. UNCHANGED <<opts, head, posted, accepted>> /\ phase = "gate" /\ phase' \in {"idle", "seal"}
    BY <1>3 DEF GateLast, Return
  <2>2. CASE phase' = "idle"
    BY <2>1, <2>2, WriterStutter
  <2>3. CASE phase' = "seal"
    BY <1>3, <2>3, WriterBegins
  <2> QED
    BY <2>1, <2>2, <2>3
<1>4. CASE ReadHead
  BY <1>4, WriterReads
<1>5. CASE Upload
  BY <1>5, WriterUploads
<1>6. CASE SetHead \/ SetHeadThrow
  BY <1>6, WriterSets
<1>7. CASE Resolve
  <2>1. UNCHANGED <<opts, head, posted, accepted>> /\ phase = "receipt"
        /\ phase' \in {"idle", "eventRows"}
    BY <1>7 DEF Resolve, RowWritten, Return
  <2> QED
    BY <2>1, WriterStutter
<1>8. CASE Throw
  BY <1>8, WriterGivesUp
<1>9. ASSUME NEW n \in DOMAIN posted, Accept(n) PROVE A!Next
  BY <1>9, WriterAccepts
<1> QED
  BY <1>1, <1>2, <1>3, <1>4, <1>5, <1>6, <1>7, <1>8, <1>9 DEF Next, DoFlush

(* To the chain, the store and the network the batcher is a writer of      *)
(* Anchorer.tla, so the windows interleaved there with calls and with      *)
(* other batchers are the windows doFlush() runs, late acceptance included *)
THEOREM BatcherImplementsAnchorer ==
  ASSUME IsFiniteSet(Events)
  PROVE  Spec => ImplementsAnchorer
<1>1. TypeOK /\ LinkInv /\ CountInv /\ LedgerInv /\ OrderInv /\ ReachInv /\ [Next]_vars
        => [A!Next]_(A!vars)
  BY WriterNext
<1> QED
  BY TypeCorrect, LinkCorrect, Invariance, OrderCorrect, CountCorrect, ReachCorrect, WriterInit,
     <1>1, PTL DEF Spec, ImplementsAnchorer, A!Spec

(***************************************************************************)
(* Bundles of receipts                                                     *)
(***************************************************************************)

(* t is what was seen before, and b if there was none of its transaction *)
Seen(t, s, b) ==
  /\ \A i \in DOMAIN s : i \in DOMAIN t /\ t[i] = s[i]
  /\ \A i \in DOMAIN t :
       \/ i \in DOMAIN s
       \/ i = Len(s) + 1 /\ t[i] = b /\ \A j \in DOMAIN s : s[j].tx # b.tx
  /\ \E i \in DOMAIN t : t[i].tx = b.tx

(* A body that is looked at has been seen *)
LEMMA SeeOnce ==
  ASSUME NEW B, NEW s \in Seq(B), NEW b \in B
  PROVE  See(s, b) \in Seq(B) /\ Seen(See(s, b), s, b)
<1>1. CASE Known(s, b)
  <2>1. See(s, b) = s
    BY <1>1 DEF See
  <2>2. PICK i \in DOMAIN s : s[i].tx = b.tx
    BY <1>1 DEF Known, Range
  <2> QED
    BY <2>1, <2>2 DEF Seen
<1>2. CASE ~Known(s, b)
  <2> DEFINE t == Append(s, b)
  <2>1. See(s, b) = t
    BY <1>2 DEF See
  <2>2. /\ t \in Seq(B)
        /\ Len(s) \in Nat /\ DOMAIN s = 1 .. Len(s) /\ DOMAIN t = 1 .. Len(s) + 1
        /\ \A i \in 1 .. Len(s) : t[i] = s[i]
        /\ t[Len(s) + 1] = b
    OBVIOUS
  <2>3. \A j \in DOMAIN s : s[j].tx # b.tx
    BY <1>2 DEF Known, Range
  <2> HIDE DEF t
  <2> QED
    BY <2>1, <2>2, <2>3 DEF Seen
<1> QED
  BY <1>1, <1>2

(* The checkpoints are what has been seen when all bodies were looked at *)
LEMMA CheckpointsSeen ==
  ASSUME NEW B, NEW R, NEW rs \in Seq(R), \A n \in DOMAIN rs : CheckpointBody(rs[n]) \in B
  PROVE  \E seen \in [0 .. Len(rs) -> Seq(B)] :
           /\ seen[0] = <<>>
           /\ \A n \in 1 .. Len(rs) : seen[n] = See(seen[n - 1], CheckpointBody(rs[n]))
           /\ Checkpoints(rs) = seen[Len(rs)]
<1> DEFINE last == Len(rs)
           X == Seq(B)
           x == <<>>
           step == [n \in 1 .. last |-> [s \in X |-> See(s, CheckpointBody(rs[n]))]]
           Is(f) == f = [n \in 0 .. last |-> IF n = 0 THEN x ELSE See(f[n - 1], CheckpointBody(rs[n]))]
           seen == CHOOSE f : Is(f)
<1>1. step \in [1 .. last -> [X -> X]]
  <2>1. ASSUME NEW n \in 1 .. last PROVE [s \in X |-> See(s, CheckpointBody(rs[n]))] \in [X -> X]
    <3>1. CheckpointBody(rs[n]) \in B
      OBVIOUS
    <3> QED
      BY <3>1, SeeOnce
  <2> QED
    BY <2>1
<1>2. x \in X /\ last \in Nat
  OBVIOUS
<1>3. Checkpoints(rs) = seen[last]
  BY DEF Checkpoints
<1> HIDE DEF last, X, x
<1>4. PICK f \in [0 .. last -> X] : Steps(f, x, step, last)
  <2> HIDE DEF step
  <2> QED
    BY <1>1, <1>2, Recursion, Zenon
<1>5. Is(f)
  <2>1. ASSUME NEW n \in 0 .. last
        PROVE  f[n] = IF n = 0 THEN x ELSE See(f[n - 1], CheckpointBody(rs[n]))
    <3>1. CASE n = 0
      BY <1>4, <3>1 DEF Steps
    <3>2. CASE n # 0
      <4>1. n \in 1 .. last /\ f[n - 1] \in X
        BY <1>2, <3>2
      <4>2. f[n] = step[n][f[n - 1]]
        BY <1>4, <4>1 DEF Steps
      <4> QED
        BY <3>2, <4>1, <4>2
    <3> QED
      BY <3>1, <3>2
  <2> QED
    BY <2>1
<1>6. Is(seen)
  <2> HIDE DEF Is
  <2> QED
    BY <1>5
<1>7. seen[0] = x /\ \A n \in 1 .. last : seen[n] = See(seen[n - 1], CheckpointBody(rs[n]))
  <2> HIDE DEF seen
  <2> QED
    BY <1>2, <1>6
<1>8. seen \in [0 .. last -> X]
  <2> DEFINE S == {n \in 0 .. last : seen[n] \in X}
  <2>1. 0 \in S
    BY <1>2, <1>7
  <2>2. ASSUME NEW n \in 1 .. last, n - 1 \in S PROVE n \in S
    <3>1. CheckpointBody(rs[n]) \in B /\ seen[n - 1] \in X
      BY <2>2 DEF last
    <3>2. See(seen[n - 1], CheckpointBody(rs[n])) \in X
      BY <3>1, SeeOnce DEF X
    <3> QED
      BY <1>2, <1>7, <3>2
  <2>3. \A n \in 0 .. last : n \in S
    <3>1. Inductive(S, last)
      <4> HIDE DEF S
      <4> QED
        BY <2>1, <2>2 DEF Inductive
    <3> HIDE DEF S
    <3> QED
      BY <1>2, <3>1, Induction
  <2>4. seen = [n \in 0 .. last |-> seen[n]]
    <3> HIDE DEF seen
    <3> QED
      BY <1>6
  <2> QED
    BY <2>3, <2>4
<1> QED
  <2> HIDE DEF seen
  <2> QED
    BY <1>3, <1>7, <1>8 DEF last, X, x

(* A checkpoint is listed for each transaction of a receipt, once, and for *)
(* no other                                                                *)
Listed(cs, rs) ==
  /\ \A i, j \in DOMAIN cs : cs[i].tx = cs[j].tx => i = j
  /\ \A i \in DOMAIN cs : \E n \in 1 .. Len(rs) : cs[i] = CheckpointBody(rs[n])
  /\ \A n \in 1 .. Len(rs) : \E i \in DOMAIN cs : cs[i].tx = rs[n].tx

(* So are the checkpoints of a bundle *)
LEMMA CheckpointsOnce ==
  ASSUME NEW B, NEW R, NEW rs \in Seq(R), \A n \in DOMAIN rs : CheckpointBody(rs[n]) \in B
  PROVE  Checkpoints(rs) \in Seq(B) /\ Listed(Checkpoints(rs), rs)
<1>1. PICK seen \in [0 .. Len(rs) -> Seq(B)] :
        /\ seen[0] = <<>>
        /\ \A n \in 1 .. Len(rs) : seen[n] = See(seen[n - 1], CheckpointBody(rs[n]))
        /\ Checkpoints(rs) = seen[Len(rs)]
  BY CheckpointsSeen
<1> DEFINE Distinct(s) == \A i, j \in DOMAIN s : s[i].tx = s[j].tx => i = j
           Given(s, k) == \A i \in DOMAIN s : \E n \in 1 .. k : s[i] = CheckpointBody(rs[n])
           Covered(s, k) == \A n \in 1 .. k : \E i \in DOMAIN s : s[i].tx = rs[n].tx
           S == {k \in 0 .. Len(rs) : Distinct(seen[k]) /\ Given(seen[k], k) /\ Covered(seen[k], k)}
<1>2. Len(rs) \in Nat /\ DOMAIN rs = 1 .. Len(rs)
  OBVIOUS
<1>3. 0 \in S
  BY <1>1, <1>2
<1>4. ASSUME NEW k \in 1 .. Len(rs), k - 1 \in S PROVE k \in S
  <2> DEFINE s == seen[k - 1]
             b == CheckpointBody(rs[k])
  <2>1. s \in Seq(B) /\ b \in B /\ seen[k] = See(s, b) /\ b.tx = rs[k].tx
    <3>1. k \in DOMAIN rs /\ k - 1 \in 0 .. Len(rs)
      BY <1>2
    <3>2. s \in Seq(B) /\ seen[k] = See(s, b)
      BY <1>1, <3>1, Zenon
    <3>3. b \in B /\ b.tx = rs[k].tx
      BY <3>1 DEF CheckpointBody
    <3> QED
      BY <3>2, <3>3
  <2>2. Distinct(s) /\ Given(s, k - 1) /\ Covered(s, k - 1)
    BY <1>4
  <2> HIDE DEF s, b
  <2>3. PICK t \in Seq(B) : t = See(s, b) /\ Seen(t, s, b)
    BY <2>1, SeeOnce, Zenon
  <2>4. Distinct(t)
    <3> SUFFICES ASSUME NEW i \in DOMAIN t, NEW j \in DOMAIN t, t[i].tx = t[j].tx PROVE i = j
      OBVIOUS
    <3>1. CASE i \in DOMAIN s /\ j \in DOMAIN s
      BY <2>2, <2>3, <3>1 DEF Seen
    <3>2. CASE i \notin DOMAIN s /\ j \notin DOMAIN s
      BY <2>3, <3>2 DEF Seen
    <3>3. CASE i \in DOMAIN s /\ j \notin DOMAIN s
      BY <2>3, <3>3 DEF Seen
    <3>4. CASE i \notin DOMAIN s /\ j \in DOMAIN s
      BY <2>3, <3>4 DEF Seen
    <3> QED
      BY <3>1, <3>2, <3>3, <3>4
  <2>5. Given(t, k)
    <3>1. ASSUME NEW i \in DOMAIN t PROVE \E n \in 1 .. k : t[i] = CheckpointBody(rs[n])
      <4>1. CASE i \in DOMAIN s
        <5>1. PICK n \in 1 .. k - 1 : s[i] = CheckpointBody(rs[n])
          BY <2>2, <4>1
        <5>2. n \in 1 .. k /\ t[i] = CheckpointBody(rs[n])
          BY <2>3, <4>1, <5>1 DEF Seen
        <5> QED
          BY <5>2
      <4>2. CASE t[i] = b
        BY <4>2 DEF b
      <4> QED
        BY <2>3, <4>1, <4>2 DEF Seen
    <3> QED
      BY <3>1
  <2>6. Covered(t, k)
    <3>1. ASSUME NEW n \in 1 .. k PROVE \E i \in DOMAIN t : t[i].tx = rs[n].tx
      <4>1. CASE n = k
        BY <2>1, <2>3, <4>1 DEF Seen
      <4>2. CASE n # k
        <5>1. n \in 1 .. k - 1
          BY <4>2
        <5>2. PICK i \in DOMAIN s : s[i].tx = rs[n].tx
          BY <2>2, <5>1
        <5> QED
          BY <2>3, <5>2 DEF Seen
      <4> QED
        BY <4>1, <4>2
    <3> QED
      BY <3>1
  <2> HIDE DEF Distinct, Given, Covered
  <2> QED
    BY <1>2, <2>1, <2>3, <2>4, <2>5, <2>6 DEF s
<1>5. Len(rs) \in S
  <2>1. Inductive(S, Len(rs))
    <3> HIDE DEF S
    <3> QED
      BY <1>3, <1>4 DEF Inductive
  <2> HIDE DEF S
  <2> QED
    BY <1>2, <2>1, Induction
<1>6. Checkpoints(rs) \in Seq(B)
  BY <1>1, <1>2
<1>7. /\ Distinct(Checkpoints(rs)) /\ Given(Checkpoints(rs), Len(rs))
      /\ Covered(Checkpoints(rs), Len(rs))
  <2> HIDE DEF Distinct, Given, Covered
  <2> QED
    BY <1>1, <1>5
<1> QED
  BY <1>6, <1>7 DEF Listed

(* In a bundle of true receipts every event is proven, and the verdict     *)
(* counts the events and the checkpoints there are                         *)
LEMMA BundleOfTrueReceipts ==
  ASSUME TypeOK, ReceiptSound, NEW m \in Nat \ {0},
         NEW events \in [1 .. m -> {e \in Events : promise[e] = "resolved"}],
         NEW disclose \in Disclosures, ~Wrong(events, disclose)
  PROVE  LET bundle == Bundle(events, disclose)
         IN /\ bundle # Refused /\ Verified(bundle)
            /\ [n \in DOMAIN bundle.events |-> bundle.events[n].event] = events
<1> DEFINE R == {Receipt(e) : e \in Events}
           B == {CheckpointBody(r) : r \in R}
           rs == [n \in 1 .. m |-> Receipt(events[n])]
           cs == Checkpoints(rs)
           es == [n \in 1 .. m |-> EventBody(rs[n], disclose)]
           bundle == Bundle(events, disclose)
<1>1. rs \in Seq(R) /\ DOMAIN rs = 1 .. m /\ Len(rs) = m /\ rs # <<>>
  OBVIOUS
<1>2. \A n \in 1 .. m :
        /\ events[n] \in Events
        /\ rs[n].event = events[n] /\ rs[n].tx \in accepted
        /\ rs[n].checkpoint = posted[rs[n].tx]
        /\ rs[n].count = Len(posted[rs[n].tx].leaves)
        /\ rs[n].index \in DOMAIN posted[rs[n].tx].leaves
        /\ posted[rs[n].tx].leaves[rs[n].index] = events[n]
  <2> SUFFICES ASSUME NEW n \in 1 .. m PROVE
        /\ events[n] \in Events
        /\ rs[n].event = events[n] /\ rs[n].tx \in accepted
        /\ rs[n].checkpoint = posted[rs[n].tx]
        /\ rs[n].count = Len(posted[rs[n].tx].leaves)
        /\ rs[n].index \in DOMAIN posted[rs[n].tx].leaves
        /\ posted[rs[n].tx].leaves[rs[n].index] = events[n]
    OBVIOUS
  <2>1. events[n] \in Events /\ promise[events[n]] = "resolved"
    OBVIOUS
  <2>2. rs[n] = Receipt(events[n])
    OBVIOUS
  <2> QED
    BY <2>1, <2>2 DEF Receipt, ReceiptSound
<1>3. /\ cs \in Seq(B) /\ DOMAIN cs = 1 .. Len(cs) /\ Len(cs) \in Nat
      /\ \A i, j \in DOMAIN cs : cs[i].tx = cs[j].tx => i = j
      /\ \A i \in DOMAIN cs : \E n \in 1 .. m : cs[i] = CheckpointBody(rs[n])
      /\ \A n \in 1 .. m : \E i \in DOMAIN cs : cs[i].tx = rs[n].tx
  <2>1. \A n \in DOMAIN rs : CheckpointBody(rs[n]) \in B
    OBVIOUS
  <2> HIDE DEF rs, B, R
  <2>2. cs \in Seq(B) /\ Listed(cs, rs)
    BY <1>1, <2>1, CheckpointsOnce, Zenon
  <2> HIDE DEF cs
  <2>3. DOMAIN cs = 1 .. Len(cs) /\ Len(cs) \in Nat
    BY <2>2
  <2>4. \A i, j \in DOMAIN cs : cs[i].tx = cs[j].tx => i = j
    BY <2>2, Zenon DEF Listed
  <2>5. \A i \in DOMAIN cs : \E n \in 1 .. m : cs[i] = CheckpointBody(rs[n])
    BY <1>1, <2>2, Zenon DEF Listed
  <2>6. \A n \in 1 .. m : \E i \in DOMAIN cs : cs[i].tx = rs[n].tx
    BY <1>1, <2>2, Zenon DEF Listed
  <2> QED
    BY <2>2, <2>3, <2>4, <2>5, <2>6
<1>4. ASSUME NEW n \in 1 .. m PROVE ~Mismatch(rs[n], disclose)
  <2>1. rs[n].event \in Range(events)
    BY <1>2 DEF Range
  <2> HIDE DEF rs
  <2> QED
    BY <2>1 DEF Mismatch, Wrong
<1>5. bundle = [checkpoints |-> cs, events |-> es,
                counts |-> [verified |-> m, checkpoints |-> Len(cs)]]
  BY <1>1, <1>4 DEF Bundle, ToEvidenceBundle
<1>6. bundle.checkpoints = cs /\ bundle.events = es /\ bundle.counts.verified = m
      /\ bundle.counts.checkpoints = Len(cs)
  BY <1>5
<1>7. /\ DOMAIN es = 1 .. m /\ Len(es) = m
      /\ \A n \in 1 .. m :
           /\ es[n].event = events[n] /\ es[n].tx = rs[n].tx
           /\ es[n].index = rs[n].index /\ es[n].count = rs[n].count
           /\ es[n].content # "other"
  <2>1. \A n \in 1 .. m :
           /\ es[n].event = events[n] /\ es[n].tx = rs[n].tx
           /\ es[n].index = rs[n].index /\ es[n].count = rs[n].count
           /\ es[n].content = IF rs[n].event = disclose.of THEN disclose.content ELSE "nothing"
    BY <1>2 DEF EventBody
  <2> QED
    BY <1>4, <2>1 DEF Mismatch
<1> HIDE DEF rs, cs, es, bundle
<1>8. ASSUME NEW n \in 1 .. m PROVE EventProven(bundle, es[n])
  <2>1. PICK i \in DOMAIN cs : cs[i].tx = es[n].tx
    BY <1>3, <1>7
  <2>2. cs[i] \in Range(cs) /\ cs[i].record = posted[es[n].tx]
    <3>1. PICK k \in 1 .. m : cs[i] = CheckpointBody(rs[k])
      BY <1>3
    <3>2. cs[i].tx = rs[k].tx /\ cs[i].record = rs[k].checkpoint
      BY <3>1 DEF CheckpointBody
    <3> QED
      BY <1>2, <2>1, <3>2 DEF Range
  <2>3. {d \in DOMAIN cs : cs[d].tx = es[n].tx} = {d \in DOMAIN cs : cs[d] = cs[i]}
    BY <1>3, <2>1
  <2>4. /\ es[n].tx \in accepted /\ es[n].content # "other"
        /\ Len(cs[i].record.leaves) = es[n].count
        /\ es[n].index \in DOMAIN cs[i].record.leaves
        /\ cs[i].record.leaves[es[n].index] = es[n].event
    BY <1>2, <1>7, <2>2
  <2> QED
    BY <1>6, <2>2, <2>3, <2>4, Zenon DEF EventProven
<1>9. {c.tx : c \in Range(cs)} = {b.tx : b \in Range(es)}
  <2>1. ASSUME NEW i \in DOMAIN cs PROVE \E n \in DOMAIN es : es[n].tx = cs[i].tx
    <3>1. PICK n \in 1 .. m : cs[i] = CheckpointBody(rs[n])
      BY <1>3
    <3>2. cs[i].tx = es[n].tx
      BY <1>7, <3>1 DEF CheckpointBody
    <3> QED
      BY <1>7, <3>2
  <2>2. ASSUME NEW n \in DOMAIN es PROVE \E i \in DOMAIN cs : cs[i].tx = es[n].tx
    <3>1. PICK i \in DOMAIN cs : cs[i].tx = rs[n].tx
      BY <1>3, <1>7
    <3> QED
      BY <1>7, <3>1
  <2> QED
    BY <2>1, <2>2 DEF Range
<1>10. Cardinality({b.tx : b \in Range(es)}) = Len(cs)
  <2> DEFINE T == {c.tx : c \in Range(cs)}
             f == [i \in 1 .. Len(cs) |-> cs[i].tx]
  <2>1. f \in Bijection(1 .. Len(cs), T)
    <3>1. f \in [1 .. Len(cs) -> T]
      BY <1>3 DEF Range
    <3>2. \A i, j \in DOMAIN f : f[i] = f[j] => i = j
      BY <1>3
    <3>3. ASSUME NEW t \in T PROVE \E i \in 1 .. Len(cs) : f[i] = t
      <4>1. PICK c \in Range(cs) : c.tx = t
        OBVIOUS
      <4>2. PICK i \in DOMAIN cs : cs[i] = c
        BY <4>1 DEF Range
      <4> QED
        BY <1>3, <4>1, <4>2
    <3> QED
      BY <3>1, <3>2, <3>3, Zenon DEF Bijection, Injection, Surjection, IsInjective
  <2>2. ExistsBijection(1 .. Len(cs), T)
    BY <2>1 DEF ExistsBijection
  <2> HIDE DEF T
  <2>3. Cardinality(T) = Len(cs)
    BY <1>3, <2>2, FS_CountingElements
  <2> QED
    BY <1>9, <2>3 DEF T
<1>11. Verified(bundle)
  BY <1>6, <1>7, <1>8, <1>9, <1>10 DEF Verified
<1>12. bundle # Refused
  <2>1. Refused.events = <<>>
    BY DEF Refused
  <2> QED
    BY <1>6, <1>7, <2>1
<1>13. [n \in DOMAIN bundle.events |-> bundle.events[n].event] = events
  BY <1>6, <1>7
<1> QED
  BY <1>11, <1>12, <1>13 DEF bundle

(* Content that is not the event's is never bundled *)
LEMMA WrongIsRefused ==
  ASSUME NEW m \in Nat, NEW events \in [1 .. m -> Events], NEW disclose \in Disclosures,
         Wrong(events, disclose)
  PROVE  Bundle(events, disclose) = Refused
<1> DEFINE rs == [n \in DOMAIN events |-> Receipt(events[n])]
<1>1. PICK n \in DOMAIN rs : Mismatch(rs[n], disclose)
  BY DEF Wrong, Range, Mismatch, Receipt
<1> QED
  BY <1>1 DEF Bundle, ToEvidenceBundle

(* Whatever windows, failures and retention errors its receipts come from, *)
(* a bundle that is asked for once the batcher is closed and idle proves   *)
(* each of its events, for any number of receipts in any order             *)
THEOREM BundlesAreVerified == Spec => []BundlesVerify
<1>1. TypeOK /\ ReceiptSound => BundlesVerify
  <2> SUFFICES ASSUME TypeOK, ReceiptSound, NEW events \in Requests, NEW disclose \in Disclosures
               PROVE  LET bundle == Bundle(events, disclose)
                      IN IF Wrong(events, disclose) THEN bundle = Refused
                         ELSE /\ bundle # Refused /\ Verified(bundle)
                              /\ [n \in DOMAIN bundle.events |-> bundle.events[n].event] = events
    BY DEF BundlesVerify
  <2>1. PICK m \in 1 .. MaxReceipts :
          events \in [1 .. m -> {e \in Events : promise[e] = "resolved"}]
    BY DEF Requests
  <2>2. m \in Nat \ {0} /\ events \in [1 .. m -> Events]
    BY <2>1, EvidenceAssumption
  <2>3. CASE Wrong(events, disclose)
    BY <2>2, <2>3, WrongIsRefused
  <2>4. CASE ~Wrong(events, disclose)
    BY <2>1, <2>2, <2>4, BundleOfTrueReceipts
  <2> QED
    BY <2>3, <2>4
<1> QED
  BY <1>1, TypeCorrect, ReceiptsAreSound, PTL
=============================================================================
