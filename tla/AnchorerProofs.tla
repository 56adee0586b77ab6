--------------------------- MODULE AnchorerProofs ---------------------------
(***************************************************************************)
(* Proofs about the anchorer, for every set of calls, batchers and chains: *)
(* its types, the chain links of records and heads, and the linearity of a *)
(* chain with a single writer; and about the S3 wrapper, for any puts,     *)
(* names, retention options and other users of the anchorer: it runs the   *)
(* anchorer as the anchorer is specified, no sidecar names a record that   *)
(* was not accepted, and an undisturbed put leaves what it returned.       *)
(***************************************************************************)
EXTENDS AnchoredS3, SequenceTheorems, TLAPS

Record == [by : Writers, chain : Chains \cup {NoChain}, prev : Nat]

(* An upload appends one record and leaves those before it as they were *)
LEMMA UploadAppends ==
  ASSUME TypeOK, NEW w \in Writers, Upload(w)
  PROVE  /\ posted' \in Seq(Record)
         /\ Len(posted') = Len(posted) + 1
         /\ DOMAIN posted' = 1 .. Len(posted) + 1
         /\ \A i \in 1 .. Len(posted) : posted'[i] = posted[i]
         /\ posted'[Len(posted) + 1] = [by |-> w, chain |-> ChainOf[w], prev |-> prev[w]]
  <1> DEFINE r == [by |-> w, chain |-> ChainOf[w], prev |-> prev[w]]
  <1>1. posted \in Seq(Record) /\ Len(posted) \in Nat
    BY DEF TypeOK, Record
  <1>2. r \in Record
    BY AnchorerAssumption DEF Record, TypeOK
  <1>3. posted' = Append(posted, r)
    BY DEF Upload
  <1> QED
    BY <1>1, <1>2, <1>3

(* A writer that moves on keeps or forgets what it knew *)
LEMMA ProceedTypes ==
  ASSUME TypeOK, NEW w \in Writers, NEW there \in {"row", "threw"}, Proceed(w, there)
  PROVE  /\ pc' \in [Writers -> {"idle", "store", "head", "upload", "answer", "row", "returned",
                                 "threw", "refused", "retentionError"}]
         /\ prev' \in [Writers -> 0 .. Len(posted)] /\ tx' \in [Writers -> 0 .. Len(posted)]
         /\ pc' = [pc EXCEPT ![w] = pc'[w]] /\ pc'[w] \in {"idle", there}
         /\ w \in Calls => pc'[w] = there /\ UNCHANGED <<prev, tx>>
         /\ prev'[w] = prev[w] \/ (pc'[w] = "idle" /\ prev'[w] = 0)
         /\ tx'[w] = tx[w] \/ (pc'[w] = "idle" /\ tx'[w] = 0)
         /\ \A v \in Writers \ {w} : prev'[v] = prev[v] /\ tx'[v] = tx[v]
  <1>1. /\ pc \in [Writers -> {"idle", "store", "head", "upload", "answer", "row", "returned",
                               "threw", "refused", "retentionError"}]
        /\ prev \in [Writers -> 0 .. Len(posted)] /\ tx \in [Writers -> 0 .. Len(posted)]
        /\ Len(posted) \in Nat
    BY DEF TypeOK
  <1>2. CASE w \in Calls /\ Goto(w, there) /\ UNCHANGED <<prev, tx>>
    BY <1>1, <1>2 DEF Goto
  <1>3. CASE /\ w \in Batchers /\ Goto(w, "idle")
             /\ prev' = [prev EXCEPT ![w] = 0] /\ tx' = [tx EXCEPT ![w] = 0]
    <2>1. w \notin Calls
      BY <1>3, AnchorerAssumption
    <2>2. pc' = [pc EXCEPT ![w] = "idle"]
      BY <1>3 DEF Goto
    <2> QED
      BY <1>1, <1>3, <2>1, <2>2
  <1> QED
    BY <1>2, <1>3 DEF Proceed

(* Setting a head or throwing moves one writer, and a call forgets nothing *)
LEMMA WriterEnds ==
  ASSUME TypeOK, NEW w \in Writers, SetHead(w) \/ Throw(w)
  PROVE  /\ pc[w] \in {"head", "upload", "answer"} /\ pc'[w] \in {"idle", "row", "threw"}
         /\ \A v \in Writers \ {w} : pc'[v] = pc[v] /\ prev'[v] = prev[v] /\ tx'[v] = tx[v]
         /\ prev'[w] = prev[w] \/ (pc'[w] = "idle" /\ prev'[w] = 0)
         /\ tx'[w] = tx[w] \/ (pc'[w] = "idle" /\ tx'[w] = 0)
         /\ w \in Calls => /\ pc'[w] \in {"row", "threw"} /\ UNCHANGED <<prev, tx>>
                           /\ Throw(w) => pc'[w] = "threw"
  <1>1. PICK there \in {"row", "threw"} : Proceed(w, there) /\ (Throw(w) => there = "threw")
    BY DEF SetHead, Throw
  <1>2. pc[w] \in {"head", "upload", "answer"}
    BY DEF SetHead, Throw
  <1>3. /\ pc'[w] \in {"idle", there} /\ (w \in Calls => pc'[w] = there /\ UNCHANGED <<prev, tx>>)
        /\ prev'[w] = prev[w] \/ (pc'[w] = "idle" /\ prev'[w] = 0)
        /\ tx'[w] = tx[w] \/ (pc'[w] = "idle" /\ tx'[w] = 0)
        /\ \A v \in Writers \ {w} : pc'[v] = pc[v] /\ prev'[v] = prev[v] /\ tx'[v] = tx[v]
    BY <1>1, ProceedTypes DEF TypeOK
  <1> QED
    BY <1>1, <1>2, <1>3

(* Types are kept by every step *)
LEMMA TypeNext == TypeOK /\ [Next]_vars => TypeOK'
  <1> SUFFICES ASSUME TypeOK, [Next]_vars PROVE TypeOK'
    OBVIOUS
  <1> USE AnchorerAssumption
  <1>1. ASSUME NEW c \in Calls, Refuse(c) \/ Call(c) \/ Overwrite(c) \/ Store(c) \/ PutFails(c)
                                \/ WriteRow(c) \/ Return(c)
        PROVE  TypeOK'
    <2>1. c \in Writers
      BY DEF Writers
    <2>2. CASE Call(c)
      BY <2>1, <2>2 DEF TypeOK, Call, Goto, Records, network, chain
    <2>3. CASE Overwrite(c)
      BY <2>1, <2>3 DEF TypeOK, Overwrite, Records, network, chain
    <2>4. CASE Store(c)
      <3>1. Kept(c) \in 0 .. 2
        BY DEF TypeOK, Kept
      <3> QED
        BY <2>1, <2>4, <3>1 DEF TypeOK, Store, Goto, Records, network, chain
    <2>5. CASE PutFails(c)
      BY <2>1, <2>5 DEF TypeOK, PutFails, AfterPutFails, Goto, Records, network, chain
    <2>6. CASE WriteRow(c)
      BY <2>1, <2>6 DEF TypeOK, WriteRow, Records, content, network, chain
    <2>7. CASE Return(c)
      BY <2>1, <2>7 DEF TypeOK, Return, Goto, Records, content, network, chain
    <2>8. CASE Refuse(c)
      BY <2>1, <2>8 DEF TypeOK, Refuse, Goto, Records, content, network, chain
    <2> QED
      BY <1>1, <2>2, <2>3, <2>4, <2>5, <2>6, <2>7, <2>8
  <1>2. ASSUME NEW b \in Batchers, BeginWindow(b) PROVE TypeOK'
    <2>1. b \in Writers
      BY DEF Writers
    <2> QED
      BY <1>2, <2>1 DEF TypeOK, BeginWindow, Goto, Records, content, network, chain
  <1>3. ASSUME NEW w \in Writers, ReadHead(w) PROVE TypeOK'
    <2>1. HeadOf(w) \in 0 .. Len(posted)
      BY DEF HeadOf, Chained, TypeOK
    <2> QED
      BY <1>3, <2>1 DEF TypeOK, ReadHead, Goto, Records, content, network, chain
  <1>4. ASSUME NEW w \in Writers, Upload(w) PROVE TypeOK'
    <2>1. /\ posted' \in Seq(Record)
          /\ Len(posted') = Len(posted) + 1
      BY <1>4, UploadAppends
    <2>2. Len(posted) \in Nat
      BY DEF TypeOK
    <2>3. pc' \in [Writers -> {"idle", "store", "head", "upload", "answer", "row", "returned",
                               "threw", "refused", "retentionError"}]
      BY <1>4 DEF TypeOK, Upload, Goto
    <2>4. /\ prev' \in [Writers -> 0 .. Len(posted)']
          /\ tx' \in [Writers -> 0 .. Len(posted)']
          /\ head' \in [Chains -> 0 .. Len(posted)']
      BY <1>4, <2>1, <2>2 DEF TypeOK, Upload, chain
    <2>5. accepted' \subseteq Records' /\ heads' \subseteq Records'
      <3>1. Records \subseteq Records'
        <4>1. DOMAIN posted' = 1 .. Len(posted) + 1
          BY <1>4, UploadAppends
        <4>2. DOMAIN posted = 1 .. Len(posted)
          BY DEF TypeOK
        <4> QED
          BY <2>2, <4>1, <4>2 DEF Records
      <3> QED
        BY <1>4, <3>1 DEF TypeOK, Upload, chain
    <2> QED
      BY <1>4, <2>1, <2>3, <2>4, <2>5 DEF TypeOK, Upload, Record, content, chain
  <1>5. ASSUME NEW w \in Writers, SetHead(w) PROVE TypeOK'
    <2>1. NewHeads(w) \in [Chains -> 0 .. Len(posted)]
      BY DEF NewHeads, TypeOK
    <2>2. PICK there \in {"row", "threw"} : Proceed(w, there)
      BY <1>5 DEF SetHead
    <2>3. /\ pc' \in [Writers -> {"idle", "store", "head", "upload", "answer", "row", "returned",
                                  "threw", "refused", "retentionError"}]
          /\ prev' \in [Writers -> 0 .. Len(posted)] /\ tx' \in [Writers -> 0 .. Len(posted)]
      BY <2>2, ProceedTypes
    <2>4. /\ UNCHANGED <<opts, version, hashed, stored, contentStored, posted, accepted, rows>>
          /\ tx[w] \in accepted
          /\ \/ head' = NewHeads(w) /\ heads' = heads \cup {tx[w]}
             \/ UNCHANGED <<head, heads>>
      BY <1>5 DEF SetHead, Answered, content, network, chain
    <2>5. heads' \subseteq Records' /\ accepted' \subseteq Records'
      BY <2>4 DEF TypeOK, Records
    <2>6. head' \in [Chains -> 0 .. Len(posted)']
      BY <2>1, <2>4 DEF TypeOK
    <2> QED
      BY <2>3, <2>4, <2>5, <2>6 DEF TypeOK
  <1>6. ASSUME NEW w \in Writers, Throw(w) PROVE TypeOK'
    <2>1. Proceed(w, "threw")
      BY <1>6 DEF Throw
    <2> QED
      BY <1>6, <2>1, ProceedTypes DEF TypeOK, Throw, Records, content, network, chain
  <1>7. ASSUME NEW n \in Records, Accept(n) PROVE TypeOK'
    BY <1>7 DEF TypeOK, Accept, Records, content, chain
  <1>8. CASE UNCHANGED vars
    BY <1>8 DEF vars, content, network, chain, Records, TypeOK
  <1> QED
    BY <1>1, <1>2, <1>3, <1>4, <1>5, <1>6, <1>7, <1>8 DEF Next

(* An anchorer is created well typed *)
LEMMA TypeInit == Init => TypeOK
  BY AnchorerAssumption DEF Init, TypeOK

(* Every reachable state of the anchorer is well typed *)
THEOREM TypeCorrect == Spec => []TypeOK
  BY TypeInit, TypeNext, PTL DEF Spec

-----------------------------------------------------------------------------
(* The chain links                                                         *)

ChainInv == HeadsStayOnChain /\ LinksStayOnChain /\ WritersInv

(* A new anchorer has no records, no heads and no links *)
LEMMA ChainInit == Init => ChainInv
  <1> SUFFICES ASSUME Init PROVE ChainInv
    OBVIOUS
  <1>1. Records = {}
    BY DEF Init, Records
  <1>2. HeadsStayOnChain
    BY DEF Init, HeadsStayOnChain
  <1>3. LinksStayOnChain
    BY <1>1 DEF LinksStayOnChain
  <1>4. WritersInv
    BY DEF Init, WritersInv
  <1> QED
    BY <1>2, <1>3, <1>4 DEF ChainInv

(* Heads, links and writers survive a step that touches none of them,      *)
(* brings no writer to the answer, and only lets a writer that is past     *)
(* them forget                                                             *)
LEMMA ChainKept ==
  ASSUME ChainInv, UNCHANGED <<head, posted>>, accepted \subseteq accepted',
         \A w \in Writers :
           /\ pc'[w] \in {"answer", "row", "returned"} => pc[w] \in {"answer", "row", "returned"}
           /\ pc'[w] = "answer" => pc[w] = "answer"
           /\ prev'[w] = prev[w] \/ (pc'[w] = "idle" /\ prev'[w] = 0)
           /\ tx'[w] = tx[w] \/ (pc'[w] = "idle" /\ tx'[w] = 0)
  PROVE  ChainInv'
  BY DEF ChainInv, HeadsStayOnChain, LinksStayOnChain, WritersInv, Records, Chained

(* An upload extends the chain of its writer and keeps all other links *)
LEMMA ChainUpload ==
  ASSUME TypeOK, ChainInv, NEW w \in Writers, Upload(w)
  PROVE  ChainInv'
  <1> DEFINE n == Len(posted)
  <1>1. /\ n \in Nat
        /\ DOMAIN posted = 1 .. n
        /\ DOMAIN posted' = 1 .. n + 1
        /\ \A i \in 1 .. n : posted'[i] = posted[i]
        /\ posted'[n + 1] = [by |-> w, chain |-> ChainOf[w], prev |-> prev[w]]
    BY UploadAppends DEF TypeOK
  <1>2. /\ UNCHANGED <<head, prev, accepted>>
        /\ tx' = [tx EXCEPT ![w] = n + 1]
        /\ pc' = [pc EXCEPT ![w] = "answer"]
    BY DEF Upload, Goto, chain
  <1>3. /\ head \in [Chains -> 0 .. n]
        /\ prev \in [Writers -> 0 .. n] /\ tx \in [Writers -> 0 .. n]
        /\ accepted \subseteq 1 .. n
        /\ pc \in [Writers -> {"idle", "store", "head", "upload", "answer", "row", "returned",
                               "threw", "refused", "retentionError"}]
    BY DEF TypeOK, Records
  <1> HIDE DEF n
  <1>4. HeadsStayOnChain'
    BY <1>1, <1>2, <1>3 DEF ChainInv, HeadsStayOnChain
  <1>5. LinksStayOnChain'
    <2> SUFFICES ASSUME NEW i \in 1 .. n + 1, posted'[i].prev # 0
                 PROVE  /\ posted'[i].chain # NoChain
                        /\ posted'[i].prev < i /\ posted'[i].prev \in accepted'
                        /\ posted'[posted'[i].prev].chain = posted'[i].chain
      BY <1>1 DEF LinksStayOnChain, Records
    <2>1. CASE i \in 1 .. n
      <3>1. /\ posted[i].prev # 0
            /\ posted[i].chain # NoChain
            /\ posted[i].prev < i /\ posted[i].prev \in accepted
            /\ posted[posted[i].prev].chain = posted[i].chain
        BY <1>1, <2>1 DEF ChainInv, LinksStayOnChain, Records
      <3>2. posted[i].prev \in Nat
        <4>1. posted \in Seq(Record) /\ i \in 1 .. Len(posted)
          BY <2>1 DEF TypeOK, Record, n
        <4>2. posted[i] \in Record
          BY <4>1
        <4> QED
          BY <4>2 DEF Record
      <3> QED
        BY <1>1, <1>2, <2>1, <3>1, <3>2
    <2>2. CASE i = n + 1
      <3>1. /\ prev[w] \in 1 .. n /\ prev[w] \in accepted
            /\ Chained(w) /\ posted[prev[w]].chain = ChainOf[w]
        BY <1>1, <1>3, <2>2 DEF ChainInv, WritersInv
      <3> QED
        BY <1>1, <1>2, <2>2, <3>1 DEF Chained
    <2> QED
      BY <1>1, <2>1, <2>2
  <1>6. WritersInv'
    <2> SUFFICES ASSUME NEW v \in Writers
                 PROVE  /\ prev'[v] # 0 => /\ Chained(v) /\ prev'[v] \in accepted'
                                          /\ posted'[prev'[v]].chain = ChainOf[v]
                        /\ pc'[v] \in {"answer", "row", "returned"} => tx'[v] # 0
                        /\ tx'[v] # 0 => posted'[tx'[v]].by = v /\ posted'[tx'[v]].chain = ChainOf[v]
                        /\ pc'[v] = "answer" => posted'[tx'[v]].prev = prev'[v]
      BY DEF WritersInv, Chained
    <2>1. prev'[v] # 0 => /\ Chained(v) /\ prev'[v] \in accepted'
                          /\ posted'[prev'[v]].chain = ChainOf[v]
      BY <1>1, <1>2, <1>3 DEF ChainInv, WritersInv
    <2>2. CASE v = w
      BY <1>1, <1>2, <1>3, <2>1, <2>2
    <2>3. CASE v # w
      BY <1>1, <1>2, <1>3, <2>1, <2>3 DEF ChainInv, WritersInv
    <2> QED
      BY <2>2, <2>3
  <1> QED
    BY <1>4, <1>5, <1>6 DEF ChainInv

(* Setting a head moves it to the record of a writer of its chain *)
LEMMA ChainSetHead ==
  ASSUME TypeOK, ChainInv, NEW w \in Writers, SetHead(w)
  PROVE  ChainInv'
  <1>1. /\ pc[w] = "answer" /\ tx[w] \in accepted /\ UNCHANGED <<posted, accepted>>
        /\ head' = NewHeads(w) \/ head' = head
    BY DEF SetHead, Answered, network, chain
  <1>2. posted[tx[w]].chain = ChainOf[w]
    BY <1>1 DEF ChainInv, WritersInv
  <1>3. HeadsStayOnChain'
    <2> SUFFICES ASSUME NEW c \in Chains, head'[c] # 0
                 PROVE  head'[c] \in accepted' /\ posted'[head'[c]].chain = c
      BY DEF HeadsStayOnChain
    <2>1. CASE head'[c] = head[c]
      BY <1>1, <2>1 DEF ChainInv, HeadsStayOnChain
    <2>2. CASE head'[c] # head[c]
      BY <1>1, <1>2, <2>2 DEF NewHeads
    <2> QED
      BY <2>1, <2>2
  <1>4. LinksStayOnChain'
    BY <1>1 DEF ChainInv, LinksStayOnChain, Records
  <1>5. WritersInv'
    <2> SUFFICES ASSUME NEW v \in Writers
                 PROVE  /\ prev'[v] # 0 => /\ Chained(v) /\ prev'[v] \in accepted
                                           /\ posted[prev'[v]].chain = ChainOf[v]
                        /\ pc'[v] \in {"answer", "row", "returned"} => tx'[v] # 0
                        /\ tx'[v] # 0 => posted[tx'[v]].by = v /\ posted[tx'[v]].chain = ChainOf[v]
                        /\ pc'[v] = "answer" => posted[tx'[v]].prev = prev'[v]
      BY <1>1 DEF WritersInv, Chained
    <2>1. /\ prev[v] # 0 => /\ Chained(v) /\ prev[v] \in accepted
                            /\ posted[prev[v]].chain = ChainOf[v]
          /\ pc[v] \in {"answer", "row", "returned"} => tx[v] # 0
          /\ tx[v] # 0 => posted[tx[v]].by = v /\ posted[tx[v]].chain = ChainOf[v]
          /\ pc[v] = "answer" => posted[tx[v]].prev = prev[v]
      BY DEF ChainInv, WritersInv
    <2>2. pc'[v] \in {"answer", "row", "returned"} =>
            pc[v] \in {"answer", "row", "returned"} /\ (v = w => pc'[v] = "row")
      BY <1>1, WriterEnds
    <2>3. /\ prev'[v] = prev[v] \/ (v = w /\ pc'[v] = "idle" /\ prev'[v] = 0)
          /\ tx'[v] = tx[v] \/ (v = w /\ pc'[v] = "idle" /\ tx'[v] = 0)
      BY WriterEnds
    <2>4. pc'[v] = "answer" => pc[v] = "answer"
      BY WriterEnds
    <2> HIDE DEF Chained
    <2> QED
      BY <1>1, <2>1, <2>2, <2>3, <2>4
  <1> QED
    BY <1>3, <1>4, <1>5 DEF ChainInv

(* No step breaks a link, a head or what a writer holds *)
LEMMA ChainNext == TypeOK /\ ChainInv /\ [Next]_vars => ChainInv'
  <1> SUFFICES ASSUME TypeOK, ChainInv, [Next]_vars PROVE ChainInv'
    OBVIOUS
  <1>1. ASSUME NEW c \in Calls, Refuse(c) \/ Call(c) \/ Overwrite(c) \/ Store(c) \/ PutFails(c)
                                \/ WriteRow(c) \/ Return(c)
        PROVE  ChainInv'
    <2>1. UNCHANGED <<head, posted, accepted, prev, tx>>
      BY <1>1 DEF Refuse, Call, Overwrite, Store, PutFails, WriteRow, Return, network, chain
    <2>2. \/ UNCHANGED pc
          \/ \E there \in {"refused", "store", "head", "retentionError"} :
               pc' = [pc EXCEPT ![c] = there]
          \/ pc[c] = "row" /\ pc' = [pc EXCEPT ![c] = "returned"]
      BY <1>1 DEF Refuse, Call, Overwrite, Store, PutFails, AfterPutFails, WriteRow, Return, Goto
    <2>3. \A w \in Writers :
            /\ pc'[w] \in {"answer", "row", "returned"} => pc[w] \in {"answer", "row", "returned"}
            /\ pc'[w] = "answer" => pc[w] = "answer"
      BY <2>2 DEF TypeOK
    <2> QED
      BY <2>1, <2>3, ChainKept
  <1>2. ASSUME NEW b \in Batchers, BeginWindow(b) PROVE ChainInv'
    <2>1. \A w \in Writers :
            /\ pc'[w] \in {"answer", "row", "returned"} => pc[w] \in {"answer", "row", "returned"}
            /\ pc'[w] = "answer" => pc[w] = "answer"
      BY <1>2 DEF BeginWindow, Goto, TypeOK
    <2> QED
      BY <1>2, <2>1, ChainKept DEF BeginWindow, network, chain
  <1>3. ASSUME NEW w \in Writers, ReadHead(w) PROVE ChainInv'
    <2>1. /\ pc[w] = "head" /\ prev' = [prev EXCEPT ![w] = HeadOf(w)]
          /\ pc' = [pc EXCEPT ![w] = "upload"] /\ UNCHANGED <<head, posted, accepted, tx>>
      BY <1>3 DEF ReadHead, Goto, network, chain
    <2>2. HeadOf(w) # 0 => /\ Chained(w) /\ HeadOf(w) \in accepted
                           /\ posted[HeadOf(w)].chain = ChainOf[w]
      BY AnchorerAssumption DEF HeadOf, Chained, ChainInv, HeadsStayOnChain
    <2>3. HeadsStayOnChain' /\ LinksStayOnChain'
      BY <2>1 DEF ChainInv, HeadsStayOnChain, LinksStayOnChain, Records
    <2>4. WritersInv'
      BY <2>1, <2>2 DEF ChainInv, WritersInv, Chained, TypeOK
    <2> QED
      BY <2>3, <2>4 DEF ChainInv
  <1>4. ASSUME NEW w \in Writers, Upload(w) PROVE ChainInv'
    BY <1>4, ChainUpload
  <1>5. ASSUME NEW w \in Writers, SetHead(w) PROVE ChainInv'
    BY <1>5, ChainSetHead
  <1>6. ASSUME NEW w \in Writers, Throw(w) PROVE ChainInv'
    <2>1. \A v \in Writers :
            /\ pc'[v] \in {"answer", "row", "returned"} => pc[v] \in {"answer", "row", "returned"}
            /\ pc'[v] = "answer" => pc[v] = "answer"
            /\ prev'[v] = prev[v] \/ (pc'[v] = "idle" /\ prev'[v] = 0)
            /\ tx'[v] = tx[v] \/ (pc'[v] = "idle" /\ tx'[v] = 0)
      <3> SUFFICES ASSUME NEW v \in Writers
                   PROVE  /\ pc'[v] \in {"answer", "row", "returned"} => pc[v] \in {"answer", "row", "returned"}
                          /\ pc'[v] = "answer" => pc[v] = "answer"
                          /\ prev'[v] = prev[v] \/ (pc'[v] = "idle" /\ prev'[v] = 0)
                          /\ tx'[v] = tx[v] \/ (pc'[v] = "idle" /\ tx'[v] = 0)
        OBVIOUS
      <3>1. /\ prev'[v] = prev[v] \/ (pc'[v] = "idle" /\ prev'[v] = 0)
            /\ tx'[v] = tx[v] \/ (pc'[v] = "idle" /\ tx'[v] = 0)
        BY <1>6, WriterEnds
      <3>2. pc'[v] \in {"answer", "row", "returned"} => v # w
        <4>1. PICK there \in {"threw"} : Proceed(w, there)
          BY <1>6 DEF Throw
        <4>2. pc'[w] \in {"idle", there}
          BY <4>1, ProceedTypes
        <4> QED
          BY <4>1, <4>2
      <3> QED
        BY <1>6, <3>1, <3>2, WriterEnds
    <2> QED
      BY <1>6, <2>1, ChainKept DEF Throw, network, chain
  <1>7. ASSUME NEW n \in Records, Accept(n) PROVE ChainInv'
    BY <1>7, ChainKept DEF Accept, chain
  <1>8. CASE UNCHANGED vars
    BY <1>8, ChainKept DEF vars, network, chain
  <1> QED
    BY <1>1, <1>2, <1>3, <1>4, <1>5, <1>6, <1>7, <1>8 DEF Next

(* Heads, links and writers always agree *)
LEMMA ChainCorrect == Spec => []ChainInv
  BY TypeInit, TypeNext, ChainInit, ChainNext, PTL DEF Spec

(* Whatever writers interleave, fail or are accepted late, every record    *)
(* links to "GENESIS" or to an earlier record of its own chain that the    *)
(* network has accepted                                                    *)
THEOREM LinksAreOnChain == Spec => []LinksStayOnChain
  <1>1. ChainInv => LinksStayOnChain
    BY DEF ChainInv
  <1> QED
    BY <1>1, ChainCorrect, PTL

(* Every chain's head is an accepted record of that chain *)
THEOREM HeadsAreOnChain == Spec => []HeadsStayOnChain
  <1>1. ChainInv => HeadsStayOnChain
    BY DEF ChainInv
  <1> QED
    BY <1>1, ChainCorrect, PTL

-----------------------------------------------------------------------------
(* Chains with one writer                                                  *)

(* Only a writer of a chain moves its head, and only by setting it *)
LEMMA HeadMoves ==
  ASSUME TypeOK, [Next]_vars, NEW k \in Chains, head'[k] # head[k]
  PROVE  \E w \in Writers : /\ ChainOf[w] = k /\ SetHead(w)
                            /\ pc[w] = "answer" /\ head'[k] = tx[w]
  <1>1. CASE \E w \in Writers : SetHead(w)
    <2>1. PICK w \in Writers : SetHead(w)
      BY <1>1
    <2>2. head' = NewHeads(w) /\ pc[w] = "answer"
      BY <2>1 DEF SetHead, chain
    <2> QED
      BY <2>1, <2>2 DEF NewHeads
  <1>2. CASE ~ \E w \in Writers : SetHead(w)
    <2>1. UNCHANGED head
      BY <1>2 DEF Next, vars, Refuse, Call, Overwrite, Store, PutFails, WriteRow, Return,
                  BeginWindow, ReadHead, Upload, Throw, Accept, chain
    <2> QED
      BY <2>1
  <1> QED
    BY <1>1, <1>2

(* The head a sole writer read cannot move under it *)
LEMMA SoleNext == TypeOK /\ SoleInv /\ [Next]_vars => SoleInv'
  <1> SUFFICES ASSUME TypeOK, SoleInv, [Next]_vars,
                      NEW w \in Writers, Chained(w), Sole(ChainOf[w]),
                      pc'[w] \in {"upload", "answer"}
               PROVE  prev'[w] = head'[ChainOf[w]]
    BY DEF SoleInv, Chained, Sole
  <1>1. ChainOf[w] \in Chains
    BY AnchorerAssumption DEF Chained
  <1>2. CASE ReadHead(w)
    BY <1>1, <1>2 DEF ReadHead, HeadOf, TypeOK, chain
  <1>3. CASE ~ReadHead(w)
    <2>1. prev'[w] = prev[w]
      <3>1. ASSUME NEW v \in Writers, SetHead(v) \/ Throw(v) PROVE prev'[w] = prev[w]
        BY <3>1, WriterEnds
      <3>2. ASSUME ~ \E v \in Writers : SetHead(v) \/ Throw(v) PROVE prev'[w] = prev[w]
        BY <1>3, <3>2 DEF Next, vars, Refuse, Call, Overwrite, Store, PutFails, WriteRow, Return,
                          BeginWindow, ReadHead, Upload, Accept, TypeOK
      <3> QED
        BY <3>1, <3>2
    <2>2. pc[w] \in {"upload", "answer"} /\ ~SetHead(w)
      <3>1. ASSUME NEW c \in Calls, Refuse(c) \/ Call(c) \/ Overwrite(c) \/ Store(c) \/ PutFails(c)
                                    \/ WriteRow(c) \/ Return(c)
            PROVE  pc[w] \in {"upload", "answer"}
        BY <3>1 DEF Refuse, Call, Overwrite, Store, PutFails, AfterPutFails, WriteRow, Return,
                    Goto, TypeOK
      <3>2. ASSUME NEW b \in Batchers, BeginWindow(b) PROVE pc[w] \in {"upload", "answer"}
        BY <3>2 DEF BeginWindow, Goto, TypeOK
      <3>3. ASSUME NEW v \in Writers, ReadHead(v) \/ Upload(v) \/ SetHead(v) \/ Throw(v)
            PROVE  pc[w] \in {"upload", "answer"}
        BY <1>3, <3>3, WriterEnds DEF ReadHead, Upload, Goto, TypeOK
      <3>4. ASSUME UNCHANGED vars \/ \E n \in Records : Accept(n)
            PROVE  pc[w] \in {"upload", "answer"}
        BY <3>4 DEF vars, Accept
      <3>5. ~SetHead(w)
        BY WriterEnds
      <3> QED
        BY <3>1, <3>2, <3>3, <3>4, <3>5 DEF Next
    <2>3. prev[w] = head[ChainOf[w]]
      BY <2>2 DEF SoleInv
    <2>4. head'[ChainOf[w]] = head[ChainOf[w]]
      <3>1. SUFFICES ASSUME head'[ChainOf[w]] # head[ChainOf[w]] PROVE FALSE
        OBVIOUS
      <3>2. PICK v \in Writers : ChainOf[v] = ChainOf[w] /\ SetHead(v)
        BY <1>1, <3>1, HeadMoves
      <3>3. v = w
        BY <3>2 DEF Sole
      <3> QED
        BY <2>2, <3>2, <3>3
    <2> QED
      BY <2>1, <2>3, <2>4
  <1> QED
    BY <1>2, <1>3

(* A chain with a single writer is linear, whatever fails: each head links *)
(* to the head it replaces                                                 *)
THEOREM SoleWritersAreLinear == Spec => SoleWriterLinear
  <1>1. Init => SoleInv
    BY DEF Init, SoleInv
  <1>2. TypeOK /\ ChainInv /\ SoleInv /\ [Next]_vars =>
          [\A k \in Chains : Sole(k) /\ head'[k] # head[k] =>
             posted[head'[k]].prev = head[k]]_vars
    <2> SUFFICES ASSUME TypeOK, ChainInv, SoleInv, [Next]_vars,
                        NEW k \in Chains, Sole(k), head'[k] # head[k]
                 PROVE  posted[head'[k]].prev = head[k]
      OBVIOUS
    <2>1. PICK w \in Writers : ChainOf[w] = k /\ pc[w] = "answer" /\ head'[k] = tx[w]
      BY HeadMoves
    <2>2. Chained(w)
      BY <2>1, AnchorerAssumption DEF Chained
    <2> QED
      BY <2>1, <2>2 DEF ChainInv, WritersInv, SoleInv
  <1> QED
    BY <1>1, <1>2, TypeInit, TypeNext, ChainCorrect, SoleNext, PTL DEF Spec, SoleWriterLinear

-----------------------------------------------------------------------------
(* What calls report                                                       *)

(* Fresh calls have nothing to report *)
LEMMA CallsInit == Init => CallsInv
  <1> SUFFICES ASSUME Init PROVE CallsInv
    OBVIOUS
  <1>1. Records = {}
    BY DEF Init, Records
  <1> QED
    BY <1>1, AnchorerAssumption DEF Init, CallsInv, Sent, Retained, Writers

(* What CallsInv says of one call *)
CallInv(c) ==
  /\ version[c] # 0 /\ (pc[c] \notin {"idle", "refused"} => hashed[c] # 0)
  /\ Sent(c) => pc[c] \in {"answer", "row", "returned", "threw"}
  /\ pc[c] \in {"idle", "store"} => contentStored[c] = "undefined"
  /\ pc[c] = "store" => Retained(c)
  /\ pc[c] \in {"head", "upload", "answer", "row", "returned", "threw"} =>
       /\ opts.strict /\ Retained(c) => stored[c] # 0
       /\ contentStored[c] = "true" => stored[c] # 0
       /\ contentStored[c] = "false" => ~opts.strict
       /\ (contentStored[c] = "undefined") <=> ~Retained(c)
  /\ pc[c] \in {"row", "returned"} =>
       tx[c] \in accepted /\ (Chained(c) => tx[c] \in heads)
  /\ c \in rows => pc[c] \in {"row", "returned"}

(* Steps of calls, batchers, the chain and the network keep the reports    *)
(* true                                                                    *)
LEMMA CallsNext == TypeOK /\ WritersInv /\ CallsInv /\ [Next]_vars => CallsInv'
  <1> SUFFICES ASSUME TypeOK, WritersInv, CallsInv, [Next]_vars, NEW c \in Calls
               PROVE  CallInv(c)'
    BY DEF CallsInv, CallInv
  <1>0. /\ c \in Writers /\ c \notin Batchers
        /\ CallInv(c)
    BY AnchorerAssumption DEF Writers, CallsInv, CallInv
  <1>1. ASSUME NEW d \in Calls, Refuse(d) \/ Call(d) \/ Overwrite(d) \/ Store(d) \/ PutFails(d)
                                \/ WriteRow(d) \/ Return(d)
        PROVE  CallInv(c)'
    <2>1. d \in Writers
      BY DEF Writers
    <2>2. /\ UNCHANGED <<opts, tx, chain, network>>
          /\ Sent(c)' <=> Sent(c)
          /\ Retained(c)' <=> Retained(c)
      BY <1>1 DEF Refuse, Call, Overwrite, Store, PutFails, WriteRow, Return, network, Sent, Records,
                  Retained
    <2>3. CASE Call(d)
      BY <1>0, <2>1, <2>2, <2>3 DEF CallInv, Call, Goto, TypeOK, network, chain, Chained
    <2>4. CASE Overwrite(d)
      BY <1>0, <2>1, <2>2, <2>4 DEF CallInv, Overwrite, TypeOK, network, chain, Chained
    <2>5. CASE Store(d)
      <3>1. pc[d] = "store" => hashed[d] # 0 /\ version[d] # 0
        BY DEF CallsInv
      <3>2. Kept(d) # 0
        BY <2>5, <3>1 DEF Store, Kept
      <3> QED
        BY <1>0, <2>1, <2>2, <2>5, <3>2 DEF CallInv, Store, Goto, TypeOK, network, chain, Chained
    <2>6. CASE PutFails(d)
      <3>1. /\ contentStored' = [contentStored EXCEPT ![d] = "false"] /\ pc[d] = "store"
            /\ pc' = [pc EXCEPT ![d] = IF opts.strict THEN "retentionError" ELSE "head"]
            /\ UNCHANGED <<version, hashed, stored, rows>>
        BY <2>6 DEF PutFails, AfterPutFails, Goto
      <3>2. CASE c = d
        BY <1>0, <2>1, <2>2, <3>1, <3>2 DEF CallInv, TypeOK, network, chain, Chained
      <3>3. CASE c # d
        BY <1>0, <2>1, <2>2, <3>1, <3>3 DEF CallInv, TypeOK, network, chain, Chained
      <3> QED
        BY <3>2, <3>3
    <2>7. CASE WriteRow(d)
      BY <1>0, <2>1, <2>2, <2>7 DEF CallInv, WriteRow, TypeOK, content, network, chain, Chained
    <2>8. CASE Return(d)
      BY <1>0, <2>1, <2>2, <2>8 DEF CallInv, Return, Goto, TypeOK, content, network, chain, Chained
    <2>9. CASE Refuse(d)
      BY <1>0, <2>1, <2>2, <2>9 DEF CallInv, Refuse, Goto, TypeOK, content, network, chain, Chained
    <2> QED
      BY <1>1, <2>3, <2>4, <2>5, <2>6, <2>7, <2>8, <2>9
  <1>2. ASSUME NEW b \in Batchers, BeginWindow(b)
        PROVE  UNCHANGED <<opts, content, network, tx, chain, rows>> /\ pc'[c] = pc[c]
    BY <1>0, <1>2 DEF BeginWindow, Goto, TypeOK
  <1>3. ASSUME NEW w \in Writers, ReadHead(w)
        PROVE  /\ UNCHANGED <<opts, content, network, tx, chain, rows>>
               /\ pc'[c] = pc[c] \/ (pc[c] = "head" /\ pc'[c] = "upload")
    BY <1>0, <1>3 DEF ReadHead, Goto, TypeOK
  <1>4. ASSUME NEW w \in Writers, Throw(w)
        PROVE  /\ UNCHANGED <<opts, content, network, chain, rows>> /\ tx'[c] = tx[c]
               /\ \/ pc'[c] = pc[c]
                  \/ pc[c] \in {"head", "upload", "answer"} /\ pc'[c] = "threw"
    BY <1>0, <1>4, WriterEnds DEF Throw
  <1>5. ASSUME NEW w \in Writers, Upload(w)
        PROVE  /\ UNCHANGED <<opts, content, accepted, heads, rows>>
               /\ \/ pc'[c] = pc[c] /\ tx'[c] = tx[c] /\ (Sent(c)' => Sent(c))
                  \/ pc[c] = "upload" /\ pc'[c] = "answer"
    <2>1. /\ DOMAIN posted' = 1 .. Len(posted) + 1
          /\ \A i \in 1 .. Len(posted) : posted'[i] = posted[i]
          /\ posted'[Len(posted) + 1] = [by |-> w, chain |-> ChainOf[w], prev |-> prev[w]]
      BY <1>5, UploadAppends
    <2>2. DOMAIN posted = 1 .. Len(posted) /\ Len(posted) \in Nat
      BY DEF TypeOK
    <2>3. UNCHANGED <<opts, content, accepted, heads, rows>>
      BY <1>5 DEF Upload, chain
    <2>4. CASE c = w
      BY <1>5, <2>3, <2>4 DEF Upload, Goto, TypeOK
    <2>5. CASE c # w
      <3>1. pc'[c] = pc[c] /\ tx'[c] = tx[c]
        BY <1>0, <1>5, <2>5 DEF Upload, Goto, TypeOK
      <3>2. Sent(c)' => Sent(c)
        BY <2>1, <2>2, <2>5 DEF Sent, Records
      <3> QED
        BY <2>3, <3>1, <3>2
    <2> QED
      BY <2>4, <2>5
  <1>6. ASSUME NEW w \in Writers, SetHead(w)
        PROVE  /\ UNCHANGED <<opts, content, network, rows>> /\ tx'[c] = tx[c]
               /\ heads \subseteq heads'
               /\ \/ pc'[c] = pc[c]
                  \/ /\ pc[c] = "answer" /\ pc'[c] \in {"row", "threw"} /\ tx[c] \in accepted
                     /\ Chained(c) => tx[c] \in heads'
    <2>1. /\ UNCHANGED <<opts, content, network, rows>> /\ tx'[c] = tx[c]
          /\ heads \subseteq heads' /\ tx[w] \in accepted
          /\ Chained(w) => tx[w] \in heads'
      BY <1>0, <1>6, WriterEnds DEF SetHead, Answered, BecomesHead, chain
    <2>2. CASE c = w
      <3>1. pc[c] = "answer" /\ pc'[c] \in {"row", "threw"}
        BY <1>0, <1>6, <2>2, WriterEnds DEF SetHead
      <3> QED
        BY <2>1, <2>2, <3>1
    <2>3. CASE c # w
      BY <1>0, <1>6, <2>1, <2>3, WriterEnds
    <2> QED
      BY <2>2, <2>3
  <1>7. CASE \E b \in Batchers : BeginWindow(b)
    BY <1>0, <1>2, <1>7 DEF CallInv, Sent, Records, Chained, content, network, chain, Retained
  <1>8. CASE \E w \in Writers : ReadHead(w)
    BY <1>0, <1>3, <1>8 DEF CallInv, Sent, Records, Chained, content, network, chain, Retained
  <1>9. CASE \E w \in Writers : Throw(w)
    BY <1>0, <1>4, <1>9 DEF CallInv, Sent, Records, Chained, content, network, chain, Retained
  <1>10. CASE \E w \in Writers : Upload(w)
    BY <1>0, <1>5, <1>10 DEF CallInv, Chained, content, Retained
  <1>11. CASE \E w \in Writers : SetHead(w)
    BY <1>0, <1>6, <1>11 DEF CallInv, Sent, Records, Chained, content, network, Retained
  <1>12. CASE \E n \in Records : Accept(n)
    BY <1>0, <1>12 DEF Accept, CallInv, Sent, Records, Chained, content, chain, Retained
  <1>13. CASE UNCHANGED vars
    BY <1>0, <1>13 DEF vars, CallInv, Sent, Records, Chained, content, network, chain, Retained
  <1> QED
    BY <1>1, <1>7, <1>8, <1>9, <1>10, <1>11, <1>12, <1>13 DEF Next

(* A refused call or a RetentionError means nothing was or will be         *)
(* anchored, strict mode anchors no unstored bytes, and a row or a receipt *)
(* is given for an accepted record that has been its chain's head, with    *)
(* the contentStored the log store's put() earned                          *)
THEOREM ReceiptsAreTrue == Spec => []ReceiptsTrue
  <1>1. ChainInv /\ CallsInv => ReceiptsTrue
    <2> SUFFICES ASSUME ChainInv, CallsInv, NEW c \in Calls
                 PROVE  /\ Sent(c) /\ opts.strict /\ Retained(c) => stored[c] # 0
                        /\ pc[c] \in {"refused", "retentionError"} => ~Sent(c)
                        /\ c \in rows \/ pc[c] = "returned" =>
                             /\ tx[c] \in accepted /\ posted[tx[c]].by = c
                             /\ Chained(c) => tx[c] \in heads /\ posted[tx[c]].chain = ChainOf[c]
                             /\ contentStored[c] = "true" => stored[c] # 0
                             /\ contentStored[c] = "false" => ~opts.strict
                             /\ (contentStored[c] = "undefined") <=> ~Retained(c)
      BY DEF ReceiptsTrue
    <2>1. c \in Writers
      BY DEF Writers
    <2>2. /\ pc[c] \in {"answer", "row", "returned"} => tx[c] # 0
          /\ tx[c] # 0 => posted[tx[c]].by = c /\ posted[tx[c]].chain = ChainOf[c]
      BY <2>1 DEF ChainInv, WritersInv
    <2> QED
      BY <2>2 DEF CallsInv
  <1>2. ChainInv => WritersInv
    BY DEF ChainInv
  <1> QED
    BY <1>1, <1>2, TypeInit, TypeNext, ChainCorrect, CallsInit, CallsNext, PTL DEF Spec

(***************************************************************************)
(* The S3 wrapper                                                          *)
(***************************************************************************)

(* A request is a put's object or its sidecar, and tells which *)
LEMMA RequestFacts ==
  /\ \A r \in Requests :
       /\ r[1] \in Puts
       /\ \/ r = ObjectOf(r[1]) /\ r[2] = "object"
          \/ r = SidecarBy(r[1]) /\ r[2] = "sidecar"
  /\ \A p \in Puts :
       /\ ObjectOf(p) \in Requests /\ SidecarBy(p) \in Requests
       /\ ObjectOf(p)[1] = p /\ SidecarBy(p)[1] = p
       /\ NameOf(ObjectOf(p)) = key[p] /\ NameOf(SidecarBy(p)) = SidecarOf[key[p]]
       /\ Carries(SidecarBy(p)) = {Sidecar(p)}
       /\ Carries(ObjectOf(p)) = {Object(p, v) : v \in 1 .. version[p]}
  /\ \A p, q \in Puts :
       /\ ObjectOf(p) # SidecarBy(q)
       /\ ObjectOf(p) = ObjectOf(q) => p = q
       /\ SidecarBy(p) = SidecarBy(q) => p = q
  BY DEF Requests, ObjectOf, SidecarBy, NameOf, Carries

(* Each step of the wrapper is a step of the anchorer or leaves it alone *)
LEMMA StepsAnchorer == [S3Next]_s3vars => [Next]_vars
  <1> SUFFICES ASSUME [S3Next]_s3vars PROVE [Next]_vars
    OBVIOUS
  <1>1. CASE Anchor
    BY <1>1 DEF Anchor
  <1>2. ASSUME NEW p \in Puts, ObjectStored(p) PROVE Next
    <2>1. p \in Calls /\ Call(p)
      BY <1>2, S3Assumption DEF ObjectStored
    <2> QED
      BY <2>1 DEF Next
  <1>3. ASSUME NEW p \in Puts, NEW n \in Keys, PutObject(p, n) PROVE UNCHANGED vars
    BY <1>3 DEF PutObject
  <1>4. ASSUME NEW p \in Puts, Refused(p) \/ AnchorReturns(p) \/ Resolve(p) \/ Reject(p)
        PROVE  UNCHANGED vars
    BY <1>4 DEF Refused, AnchorReturns, Resolve, Reject
  <1>5. ASSUME NEW r \in Requests, Lands(r) \/ Lost(r) PROVE UNCHANGED vars
    BY <1>5 DEF Lands, Lost
  <1>6. CASE UNCHANGED s3vars
    BY <1>6 DEF s3vars
  <1> QED
    BY <1>1, <1>2, <1>3, <1>4, <1>5, <1>6 DEF S3Next

(* The wrapper is a user of the anchorer: all that is proved of the        *)
(* anchorer holds under it                                                 *)
THEOREM S3UsesAnchorer == S3Spec => Spec
  <1>1. S3Init => Init
    BY DEF S3Init
  <1> QED
    BY <1>1, StepsAnchorer, PTL DEF S3Spec, Spec

(* A call whose anchor() returned stays returned *)
LEMMA ReturnedStays ==
  ASSUME TypeOK, [Next]_vars, NEW p \in Calls, pc[p] = "returned"
  PROVE  pc'[p] = "returned"
  <1>0. p \in Writers /\ p \notin Batchers
    BY AnchorerAssumption DEF Writers
  <1>1. ASSUME NEW c \in Calls, Refuse(c) \/ Call(c) \/ Overwrite(c) \/ Store(c) \/ PutFails(c)
                                \/ WriteRow(c) \/ Return(c)
        PROVE  pc'[p] = "returned"
    <2>1. pc'[p] = pc[p] \/ c = p
      BY <1>0, <1>1 DEF TypeOK, Refuse, Call, Overwrite, Store, PutFails, WriteRow, Return, Goto
    <2>2. CASE c = p
      BY <1>1, <2>2 DEF Refuse, Call, Overwrite, Store, PutFails, WriteRow, Return
    <2> QED
      BY <2>1, <2>2
  <1>2. ASSUME NEW b \in Batchers, BeginWindow(b) PROVE pc'[p] = "returned"
    BY <1>0, <1>2 DEF TypeOK, BeginWindow, Goto
  <1>3. ASSUME NEW w \in Writers, ReadHead(w) \/ Upload(w) \/ SetHead(w) \/ Throw(w)
        PROVE  pc'[p] = "returned"
    <2>1. pc'[p] = pc[p] \/ w = p
      BY <1>0, <1>3, WriterEnds DEF TypeOK, ReadHead, Upload, Goto
    <2>2. CASE w = p
      BY <1>3, <2>2 DEF ReadHead, Upload, SetHead, Throw
    <2> QED
      BY <2>1, <2>2
  <1>4. CASE UNCHANGED vars \/ \E n \in Records : Accept(n)
    BY <1>4 DEF vars, Accept
  <1> QED
    BY <1>1, <1>2, <1>3, <1>4 DEF Next

(* A call that was made keeps its hash; no content turns back into the first *)
LEMMA HashStays ==
  ASSUME TypeOK, [Next]_vars, NEW p \in Calls
  PROVE  /\ pc[p] # "idle" => pc'[p] # "idle" /\ hashed'[p] = hashed[p]
         /\ version'[p] = 1 => version[p] = 1
         /\ version[p] \in 1 .. 2 /\ version'[p] \in version[p] .. 2
  <1>0. p \in Writers /\ p \notin Batchers
    BY AnchorerAssumption DEF Writers
  <1>1. ASSUME NEW c \in Calls, Refuse(c) \/ Call(c) \/ Overwrite(c) \/ Store(c) \/ PutFails(c)
                                \/ WriteRow(c) \/ Return(c)
        PROVE  /\ pc[p] # "idle" => pc'[p] # "idle" /\ hashed'[p] = hashed[p]
               /\ version'[p] = 1 => version[p] = 1
    <2>1. pc[p] # "idle" => pc'[p] # "idle"
      BY <1>0, <1>1 DEF TypeOK, Refuse, Call, Overwrite, Store, PutFails, AfterPutFails,
                        WriteRow, Return, Goto
    <2>2. pc[p] # "idle" => hashed'[p] = hashed[p]
      BY <1>0, <1>1 DEF TypeOK, Refuse, Call, Overwrite, Store, PutFails, WriteRow, Return,
                        content
    <2>3. version'[p] = 1 => version[p] = 1
      BY <1>1 DEF TypeOK, Refuse, Call, Overwrite, Store, PutFails, WriteRow, Return, content
    <2> QED
      BY <2>1, <2>2, <2>3
  <1>2. ASSUME NEW b \in Batchers, BeginWindow(b)
        PROVE  /\ pc[p] # "idle" => pc'[p] # "idle" /\ hashed'[p] = hashed[p]
               /\ version'[p] = 1 => version[p] = 1
    BY <1>0, <1>2 DEF TypeOK, BeginWindow, Goto, content
  <1>3. ASSUME NEW w \in Writers, ReadHead(w) \/ Upload(w) \/ SetHead(w) \/ Throw(w)
        PROVE  /\ pc[p] # "idle" => pc'[p] # "idle" /\ hashed'[p] = hashed[p]
               /\ version'[p] = 1 => version[p] = 1
    <2>1. UNCHANGED content
      BY <1>3 DEF ReadHead, Upload, SetHead, Throw
    <2>2. pc[p] # "idle" => pc'[p] # "idle"
      <3>1. CASE ReadHead(w) \/ Upload(w)
        BY <1>0, <3>1 DEF TypeOK, ReadHead, Upload, Goto
      <3>2. CASE SetHead(w) \/ Throw(w)
        BY <1>0, <3>2, WriterEnds
      <3> QED
        BY <1>3, <3>1, <3>2
    <2> QED
      BY <2>1, <2>2 DEF content
  <1>4. ASSUME UNCHANGED vars \/ \E n \in Records : Accept(n)
        PROVE  /\ pc[p] # "idle" => pc'[p] # "idle" /\ hashed'[p] = hashed[p]
               /\ version'[p] = 1 => version[p] = 1
    BY <1>4 DEF vars, Accept, content
  <1>5. /\ pc[p] # "idle" => pc'[p] # "idle" /\ hashed'[p] = hashed[p]
        /\ version'[p] = 1 => version[p] = 1
    BY <1>1, <1>2, <1>3, <1>4 DEF Next
  <1>6. version[p] \in {1, 2} /\ version'[p] \in {1, 2}
    <2>1. version[p] \in 1 .. 2 /\ version'[p] \in 1 .. 2
      BY TypeNext DEF TypeOK
    <2> QED
      BY <2>1
  <1>7. version'[p] \in version[p] .. 2
    <2>1. CASE version[p] = 1
      BY <1>6, <2>1
    <2>2. CASE version[p] = 2
      BY <1>5, <1>6, <2>2
    <2> QED
      BY <1>6, <2>1, <2>2
  <1> QED
    BY <1>5, <1>6, <1>7

(* A put that has begun keeps its key and its place in time; what is over  *)
(* is over                                                                 *)
LEMMA PutStays ==
  ASSUME S3TypeOK, [S3Next]_s3vars, NEW p \in Puts
  PROVE  /\ put[p] # "idle" =>
              put'[p] # "idle" /\ key'[p] = key[p] /\ earlier'[p] = earlier[p]
         /\ put[p] \in {"resolved", "rejected"} => put'[p] = put[p]
         /\ put'[p] = "idle" => put[p] = "idle"
         /\ applied \subseteq applied'
  <1>1. CASE Anchor \/ UNCHANGED s3vars
    BY <1>1 DEF Anchor, s3, s3vars
  <1>2. ASSUME NEW r \in Requests, Lands(r) \/ Lost(r)
        PROVE  UNCHANGED <<put, key, earlier>> /\ applied \subseteq applied'
    BY <1>2 DEF Lands, Lost
  <1>3. ASSUME NEW q \in Puts, NEW n \in Keys, PutObject(q, n)
        PROVE  /\ put[q] = "idle" /\ put'[q] = "object" /\ UNCHANGED applied
               /\ p # q => put'[p] = put[p] /\ key'[p] = key[p] /\ earlier'[p] = earlier[p]
    BY <1>3 DEF S3TypeOK, PutObject, Move
  <1>4. ASSUME NEW q \in Puts,
               Refused(q) \/ ObjectStored(q) \/ AnchorReturns(q) \/ Resolve(q) \/ Reject(q)
        PROVE  /\ UNCHANGED <<key, applied, earlier>>
               /\ put[q] \notin {"resolved", "rejected"} /\ put'[q] # "idle"
               /\ p # q => put'[p] = put[p]
    BY <1>4 DEF S3TypeOK, Refused, ObjectStored, AnchorReturns, Resolve, Reject, Move
  <1> QED
    BY <1>1, <1>2, <1>3, <1>4 DEF S3Next

(* What a request makes its name hold is content of its put *)
LEMMA CarriesContents ==
  ASSUME TypeOK, NEW r \in Requests, NEW what \in Carries(r)
  PROVE  /\ what \in Contents /\ what.kind # "nothing" /\ what.by = r[1]
         /\ r = ObjectOf(r[1]) => what.kind = "object" /\ what.version \in 1 .. version[r[1]]
         /\ r = SidecarBy(r[1]) => what.kind = "sidecar"
  <1>1. r[1] \in Puts /\ (r = ObjectOf(r[1]) \/ r = SidecarBy(r[1]))
    BY RequestFacts
  <1>2. version[r[1]] \in 1 .. 2
    BY <1>1, S3Assumption DEF TypeOK
  <1>3. ObjectOf(r[1]) # SidecarBy(r[1])
    BY <1>1, RequestFacts
  <1>4. CASE r = ObjectOf(r[1])
    <2>1. PICK v \in 1 .. version[r[1]] : what = Object(r[1], v)
      BY <1>1, <1>4, RequestFacts
    <2>2. v \in 1 .. 2
      BY <1>2, <2>1
    <2> QED
      BY <1>1, <1>3, <1>4, <2>1, <2>2 DEF Contents, Object
  <1>5. CASE r = SidecarBy(r[1])
    <2>1. what = Sidecar(r[1])
      BY <1>1, <1>5, RequestFacts
    <2> QED
      BY <1>1, <1>3, <1>5, <2>1 DEF Contents, Sidecar
  <1> QED
    BY <1>1, <1>4, <1>5

(* Outside Call() an anchor() call of the wrapper stays idle, and the      *)
(* wrapper's own steps do not touch it                                     *)
LEMMA S3TypeNext == TypeOK /\ S3TypeOK /\ [S3Next]_s3vars => S3TypeOK'
  <1> SUFFICES ASSUME TypeOK, S3TypeOK, [S3Next]_s3vars PROVE S3TypeOK'
    OBVIOUS
  <1>0. Puts \subseteq Calls /\ Requests' = Requests /\ Contents' = Contents
    BY S3Assumption
  <1>1. CASE Anchor
    <2>1. UNCHANGED s3 /\ [Next]_vars /\ \A p \in Puts : pc[p] = "idle" => pc'[p] = "idle"
      BY <1>1 DEF Anchor
    <2>2. \A p \in Puts : pc[p] = "returned" => pc'[p] = "returned"
      BY <1>0, <2>1, ReturnedStays
    <2> QED
      BY <2>1, <2>2 DEF S3TypeOK, s3
  <1>2. ASSUME NEW r \in Requests, Lands(r) PROVE S3TypeOK'
    <2>1. PICK what \in Carries(r) : bucket' = [bucket EXCEPT ![NameOf(r)] = what]
      BY <1>2 DEF Lands
    <2>2. bucket' \in [Names -> Contents]
      BY <2>1, CarriesContents DEF S3TypeOK
    <2>3. underway' \subseteq Requests /\ applied' \subseteq Requests
      BY <1>2 DEF Lands, S3TypeOK
    <2> QED
      BY <1>2, <2>2, <2>3 DEF S3TypeOK, Lands, vars
  <1>3. ASSUME NEW r \in Requests, Lost(r) PROVE S3TypeOK'
    BY <1>3 DEF S3TypeOK, Lost, vars
  <1>4. ASSUME NEW p \in Puts, NEW n \in Keys, PutObject(p, n) PROVE S3TypeOK'
    <2>1. underway' \subseteq Requests /\ UNCHANGED <<pc, applied, bucket>>
      BY <1>4, RequestFacts DEF S3TypeOK, PutObject, vars
    <2>2. /\ put' = [put EXCEPT ![p] = "object"] /\ put[p] = "idle"
          /\ key' = [key EXCEPT ![p] = n] /\ earlier' = [earlier EXCEPT ![p] = Ended]
      BY <1>4 DEF PutObject, Move
    <2>3. n # NoName /\ Ended \subseteq Puts
      BY S3Assumption DEF Ended
    <2> QED
      BY <2>1, <2>2, <2>3 DEF S3TypeOK
  <1>5. ASSUME NEW p \in Puts, ObjectStored(p) PROVE S3TypeOK'
    <2>1. /\ put' = [put EXCEPT ![p] = "anchoring"] /\ put[p] = "object"
          /\ \E there \in {"store", "head"} : pc' = [pc EXCEPT ![p] = there]
          /\ UNCHANGED <<key, underway, applied, bucket, earlier>>
      BY <1>5 DEF ObjectStored, Move, Call, Goto
    <2>2. \A q \in Puts \ {p} : put'[q] = put[q] /\ pc'[q] = pc[q]
      BY <1>0, <2>1 DEF S3TypeOK, TypeOK, Writers
    <2>3. put'[p] = "anchoring" /\ key[p] # NoName
      BY <2>1 DEF S3TypeOK
    <2>4. put' \in [Puts -> {"idle", "object", "anchoring", "sidecar", "resolved", "rejected"}]
      BY <2>1 DEF S3TypeOK
    <2> QED
      BY <2>1, <2>2, <2>3, <2>4 DEF S3TypeOK
  <1>6. ASSUME NEW p \in Puts, AnchorReturns(p) PROVE S3TypeOK'
    <2>1. underway' \subseteq Requests
      BY <1>6, RequestFacts DEF S3TypeOK, AnchorReturns
    <2> QED
      BY <1>6, <2>1 DEF S3TypeOK, AnchorReturns, Anchored, Move, vars
  <1>7. ASSUME NEW p \in Puts, Refused(p) \/ Resolve(p) \/ Reject(p) PROVE S3TypeOK'
    BY <1>7 DEF S3TypeOK, Refused, Resolve, Reject, Move, vars
  <1>8. CASE UNCHANGED s3vars
    BY <1>8 DEF S3TypeOK, s3vars, s3, vars
  <1> QED
    BY <1>1, <1>2, <1>3, <1>4, <1>5, <1>6, <1>7, <1>8 DEF S3Next

(* A new wrapper is well typed *)
LEMMA S3TypeInit == S3Init => S3TypeOK
  <1> SUFFICES ASSUME S3Init PROVE S3TypeOK
    OBVIOUS
  <1>1. \A p \in Puts : p \in Writers
    BY S3Assumption DEF Writers
  <1>2. \A p \in Puts : put[p] = "idle" /\ pc[p] = "idle"
    BY <1>1 DEF S3Init, Init
  <1>3. put \in [Puts -> {"idle", "object", "anchoring", "sidecar", "resolved", "rejected"}]
    BY DEF S3Init
  <1>4. /\ key \in [Puts -> Keys \cup {NoName}] /\ underway = {} /\ applied = {}
        /\ bucket \in [Names -> Contents] /\ earlier \in [Puts -> SUBSET Puts]
    BY DEF S3Init, Contents
  <1> QED
    BY <1>2, <1>3, <1>4 DEF S3TypeOK

(* The wrapper's state is well typed, and while putObject() waits for      *)
(* anchor() that call is where the wrapper takes it to be                  *)
THEOREM S3TypeCorrect == S3Spec => []S3TypeOK
  <1> QED
    BY S3TypeInit, S3TypeNext, StepsAnchorer, S3UsesAnchorer, TypeCorrect, PTL DEF S3Spec

-----------------------------------------------------------------------------
(* What the requests and the bucket tell of the puts                       *)

(* Which requests a put has made and the bucket has applied, and what was  *)
(* hashed of a buffer that is never reused                                 *)
RequestsInv ==
  \A p \in Puts :
    /\ ObjectOf(p) \in underway \cup applied => put[p] # "idle" /\ key[p] \in Keys
    /\ SidecarBy(p) \in underway \cup applied =>
         /\ put[p] \in {"sidecar", "resolved", "rejected"} /\ key[p] \in Keys
         /\ pc[p] = "returned" /\ ObjectOf(p) \in applied
    /\ put[p] \in {"anchoring", "sidecar", "resolved"} => ObjectOf(p) \in applied
    /\ put[p] = "resolved" => SidecarBy(p) \in applied
    /\ pc[p] # "idle" /\ version[p] = 1 => hashed[p] = 1

(* Each name holds what an applied request carried, and the name of each   *)
(* applied request holds something                                         *)
BucketInv ==
  /\ \A n \in Names :
       /\ bucket[n].kind = "object" =>
            /\ bucket[n].by \in Puts /\ n = key[bucket[n].by]
            /\ ObjectOf(bucket[n].by) \in applied
            /\ bucket[n].version \in 1 .. version[bucket[n].by]
       /\ bucket[n].kind = "sidecar" =>
            /\ bucket[n].by \in Puts /\ n = SidecarOf[key[bucket[n].by]]
            /\ SidecarBy(bucket[n].by) \in applied
  /\ \A r \in applied : bucket[NameOf(r)].kind # "nothing"

(* What had ended before a put began stays ended, and has nothing left at  *)
(* a name the put's requests were applied to                               *)
EarlierInv ==
  \A p \in Puts, q \in Puts : q \in earlier[p] =>
    /\ q \in Ended
    /\ \A r \in applied : r[1] = p /\ bucket[NameOf(r)].kind # "nothing" =>
         bucket[NameOf(r)].by # q

S3Inv == RequestsInv /\ BucketInv /\ EarlierInv

(* Requests are made in turn, each after the await before it *)
LEMMA RequestsNext ==
  TypeOK /\ S3TypeOK /\ RequestsInv /\ [S3Next]_s3vars => RequestsInv'
  <1> SUFFICES ASSUME TypeOK, S3TypeOK, RequestsInv, [S3Next]_s3vars, NEW p \in Puts
               PROVE  (/\ ObjectOf(p) \in underway \cup applied => put[p] # "idle" /\ key[p] \in Keys
                       /\ SidecarBy(p) \in underway \cup applied =>
                            /\ put[p] \in {"sidecar", "resolved", "rejected"} /\ key[p] \in Keys
                            /\ pc[p] = "returned" /\ ObjectOf(p) \in applied
                       /\ put[p] \in {"anchoring", "sidecar", "resolved"} => ObjectOf(p) \in applied
                       /\ put[p] = "resolved" => SidecarBy(p) \in applied
                       /\ pc[p] # "idle" /\ version[p] = 1 => hashed[p] = 1)'
    BY DEF RequestsInv, ObjectOf, SidecarBy
  <1>0. /\ p \in Calls /\ p \in Writers
        /\ pc[p] # "idle" => pc'[p] # "idle" /\ hashed'[p] = hashed[p]
        /\ version'[p] = 1 => version[p] = 1
        /\ pc[p] = "returned" => pc'[p] = "returned"
    BY HashStays, ReturnedStays, StepsAnchorer, S3Assumption DEF Writers
  <1>a. /\ ObjectOf(p) \in underway \cup applied => put[p] # "idle" /\ key[p] \in Keys
        /\ SidecarBy(p) \in underway \cup applied =>
             /\ put[p] \in {"sidecar", "resolved", "rejected"} /\ key[p] \in Keys
             /\ pc[p] = "returned" /\ ObjectOf(p) \in applied
        /\ put[p] \in {"anchoring", "sidecar", "resolved"} => ObjectOf(p) \in applied
        /\ put[p] = "resolved" => SidecarBy(p) \in applied
        /\ pc[p] # "idle" /\ version[p] = 1 => hashed[p] = 1
    BY DEF RequestsInv
  <1>b. ObjectOf(p)' = ObjectOf(p) /\ SidecarBy(p)' = SidecarBy(p)
    BY DEF ObjectOf, SidecarBy
  <1>1. CASE Anchor
    <2>1. UNCHANGED s3 /\ (pc[p] = "idle" => pc'[p] = "idle")
      BY <1>1 DEF Anchor
    <2> QED
      BY <1>0, <1>a, <1>b, <2>1 DEF s3
  <1>2. ASSUME NEW r \in Requests, Lands(r) \/ Lost(r)
        PROVE  /\ UNCHANGED <<vars, put, key>> /\ applied \subseteq applied'
               /\ underway' \cup applied' \subseteq underway \cup applied
    BY <1>2 DEF Lands, Lost
  <1>3. CASE \E r \in Requests : Lands(r) \/ Lost(r)
    BY <1>a, <1>b, <1>2, <1>3 DEF vars, content
  <1>4. ASSUME NEW q \in Puts, NEW n \in Keys, PutObject(q, n)
        PROVE  /\ UNCHANGED <<vars, applied>>
               /\ q # p => put'[p] = put[p] /\ key'[p] = key[p]
               /\ q # p => \A r \in {ObjectOf(p), SidecarBy(p)} : r \in underway' => r \in underway
               /\ q = p => /\ put[p] = "idle" /\ put'[p] = "object" /\ key'[p] \in Keys
                           /\ SidecarBy(p) \in underway' => SidecarBy(p) \in underway
    BY <1>4, RequestFacts DEF PutObject, Move, S3TypeOK
  <1>5. CASE \E q \in Puts : \E n \in Keys : PutObject(q, n)
    BY <1>a, <1>b, <1>4, <1>5 DEF vars, content
  <1>6. ASSUME NEW q \in Puts, ObjectStored(q)
        PROVE  /\ UNCHANGED <<key, underway, applied>> /\ version' = version
               /\ q # p => put'[p] = put[p] /\ pc'[p] = pc[p] /\ hashed'[p] = hashed[p]
               /\ q = p => /\ put'[p] = "anchoring" /\ put[p] = "object" /\ ObjectOf(p) \in applied
                           /\ hashed'[p] = version[p]
    <2>1. q \in Calls /\ q \in Writers
      BY S3Assumption DEF Writers
    <2> QED
      BY <1>0, <1>6, <2>1 DEF ObjectStored, ReadyToAnchor, Move, Call, Goto, S3TypeOK, TypeOK
  <1>7. CASE \E q \in Puts : ObjectStored(q)
    BY <1>a, <1>b, <1>6, <1>7
  <1>8. ASSUME NEW q \in Puts, AnchorReturns(q)
        PROVE  /\ UNCHANGED <<vars, key, applied>>
               /\ q # p => put'[p] = put[p]
               /\ q # p => \A r \in {ObjectOf(p), SidecarBy(p)} : r \in underway' => r \in underway
               /\ q = p => /\ put'[p] = "sidecar" /\ put[p] = "anchoring" /\ pc[p] = "returned"
                           /\ ObjectOf(p) \in underway' => ObjectOf(p) \in underway
    BY <1>8, RequestFacts DEF AnchorReturns, Anchored, Move, S3TypeOK
  <1>9. CASE \E q \in Puts : AnchorReturns(q)
    BY <1>a, <1>b, <1>8, <1>9 DEF vars, content
  <1>10. ASSUME NEW q \in Puts, Refused(q) \/ Resolve(q) \/ Reject(q)
         PROVE  /\ UNCHANGED <<vars, key, underway, applied>>
                /\ \/ put'[p] = put[p] \/ put'[p] = "rejected"
                   \/ put'[p] = "resolved" /\ SidecarBy(p) \in applied
    BY <1>10 DEF Refused, Resolve, SidecarStored, Reject, Move, S3TypeOK
  <1>11. CASE \E q \in Puts : Refused(q) \/ Resolve(q) \/ Reject(q)
    BY <1>a, <1>b, <1>10, <1>11 DEF vars, content
  <1>12. CASE UNCHANGED s3vars
    BY <1>a, <1>b, <1>12 DEF s3vars, s3, vars, content
  <1> QED
    BY <1>1, <1>3, <1>5, <1>7, <1>9, <1>11, <1>12 DEF S3Next

(* A request keeps the names it writes *)
LEMMA NamesStay ==
  ASSUME S3TypeOK, RequestsInv, [S3Next]_s3vars, NEW r \in underway \cup applied
  PROVE  NameOf(r)' = NameOf(r)
  <1>1. r \in Requests /\ r[1] \in Puts
    BY RequestFacts DEF S3TypeOK
  <1>2. r = ObjectOf(r[1]) \/ r = SidecarBy(r[1])
    BY <1>1, RequestFacts
  <1>3. put[r[1]] # "idle"
    BY <1>1, <1>2 DEF RequestsInv
  <1>4. key'[r[1]] = key[r[1]]
    BY <1>1, <1>3, PutStays
  <1> QED
    BY <1>4 DEF NameOf

(* A request that is under way names one of the bucket's names *)
LEMMA NamesAreNames ==
  ASSUME S3TypeOK, RequestsInv, NEW r \in underway \cup applied
  PROVE  NameOf(r) \in Names
  <1>1. r \in Requests /\ r[1] \in Puts
    BY RequestFacts DEF S3TypeOK
  <1>2. r = ObjectOf(r[1]) \/ r = SidecarBy(r[1])
    BY <1>1, RequestFacts
  <1>3. key[r[1]] \in Keys
    BY <1>1, <1>2 DEF RequestsInv
  <1> QED
    BY <1>1, <1>3, S3Assumption DEF NameOf

(* The bucket changes where a request lands, and nowhere else *)
LEMMA BucketMoves ==
  ASSUME TypeOK, S3TypeOK, [S3Next]_s3vars, ~ \E r \in Requests : Lands(r)
  PROVE  UNCHANGED <<applied, bucket>>
  <1>1. CASE Anchor \/ UNCHANGED s3vars
    BY <1>1 DEF Anchor, s3, s3vars
  <1>2. CASE \E p \in Puts : \E n \in Keys : PutObject(p, n)
    BY <1>2 DEF PutObject
  <1>3. CASE \/ \E r \in Requests : Lost(r)
             \/ \E p \in Puts : Refused(p) \/ ObjectStored(p) \/ AnchorReturns(p) \/ Resolve(p)
                                  \/ Reject(p)
    BY <1>3 DEF Lost, Refused, ObjectStored, AnchorReturns, Resolve, Reject
  <1> QED
    BY <1>1, <1>2, <1>3 DEF S3Next

(* A name holds what was written to it last *)
LEMMA BucketNext ==
  TypeOK /\ S3TypeOK /\ RequestsInv /\ BucketInv /\ [S3Next]_s3vars => BucketInv'
  <1> SUFFICES ASSUME TypeOK, S3TypeOK, RequestsInv, BucketInv, [S3Next]_s3vars PROVE BucketInv'
    OBVIOUS
  <1> DEFINE Said(n) ==
        /\ bucket[n].kind = "object" =>
             /\ bucket[n].by \in Puts /\ n = key[bucket[n].by]
             /\ ObjectOf(bucket[n].by) \in applied
             /\ bucket[n].version \in 1 .. version[bucket[n].by]
        /\ bucket[n].kind = "sidecar" =>
             /\ bucket[n].by \in Puts /\ n = SidecarOf[key[bucket[n].by]]
             /\ SidecarBy(bucket[n].by) \in applied
  <1>0. /\ \A p \in Puts : version'[p] \in version[p] .. 2 /\ version[p] \in 1 .. 2
        /\ \A p \in Puts : ObjectOf(p) \in applied \/ SidecarBy(p) \in applied =>
             key'[p] = key[p]
        /\ applied \subseteq applied' /\ applied \subseteq Requests
    <2>1. ASSUME NEW p \in Puts
          PROVE  version'[p] \in version[p] .. 2 /\ version[p] \in 1 .. 2
      BY StepsAnchorer, HashStays, S3Assumption
    <2>2. ASSUME NEW p \in Puts, ObjectOf(p) \in applied \/ SidecarBy(p) \in applied
          PROVE  key'[p] = key[p]
      BY <2>2, PutStays DEF RequestsInv
    <2>3. applied \subseteq applied'
      <3>1. CASE \E r \in Requests : Lands(r)
        BY <3>1 DEF Lands
      <3>2. CASE ~ \E r \in Requests : Lands(r)
        BY <3>2, BucketMoves
      <3> QED
        BY <3>1, <3>2
    <2> QED
      BY <2>1, <2>2, <2>3 DEF S3TypeOK
  <1>1. ASSUME NEW n \in Names, bucket'[n] = bucket[n] PROVE Said(n)'
    <2>1. Said(n)
      BY DEF BucketInv
    <2>2. ASSUME bucket[n].kind = "object"
          PROVE  /\ bucket[n].by \in Puts /\ n = key'[bucket[n].by]
                 /\ ObjectOf(bucket[n].by) \in applied'
                 /\ bucket[n].version \in 1 .. version'[bucket[n].by]
      <3>1. /\ bucket[n].by \in Puts /\ n = key[bucket[n].by]
            /\ ObjectOf(bucket[n].by) \in applied
            /\ bucket[n].version \in 1 .. version[bucket[n].by]
        BY <2>1, <2>2
      <3>2. /\ version'[bucket[n].by] \in version[bucket[n].by] .. 2
            /\ version[bucket[n].by] \in 1 .. 2
        BY <1>0, <3>1
      <3>3. bucket[n].version \in 1 .. version'[bucket[n].by]
        BY <3>1, <3>2
      <3> QED
        BY <1>0, <3>1, <3>3
    <2>3. ASSUME bucket[n].kind = "sidecar"
          PROVE  /\ bucket[n].by \in Puts /\ n = SidecarOf[key'[bucket[n].by]]
                 /\ SidecarBy(bucket[n].by) \in applied'
      BY <1>0, <2>1, <2>3
    <2> QED
      BY <1>1, <2>2, <2>3 DEF ObjectOf, SidecarBy
  <1>2. CASE ~ \E r \in Requests : Lands(r)
    <2>1. UNCHANGED <<applied, bucket>>
      BY <1>2, BucketMoves
    <2>2. ASSUME NEW r \in applied PROVE bucket[NameOf(r)'].kind # "nothing"
      BY NamesStay DEF BucketInv
    <2> QED
      BY <1>1, <2>1, <2>2 DEF BucketInv, ObjectOf, SidecarBy, NameOf
  <1>3. ASSUME NEW r \in Requests, Lands(r) PROVE BucketInv'
    <2>1. PICK what \in Carries(r) : bucket' = [bucket EXCEPT ![NameOf(r)] = what]
      BY <1>3 DEF Lands
    <2>2. /\ r \in underway /\ r \in applied' /\ applied' = applied \cup {r}
          /\ UNCHANGED <<key, version>>
      BY <1>3 DEF Lands, vars, content
    <2>3. NameOf(r) \in Names
      BY <2>2, NamesAreNames
    <2>4. /\ bucket'[NameOf(r)] = what
          /\ \A n \in Names \ {NameOf(r)} : bucket'[n] = bucket[n]
      BY <2>1, <2>3 DEF S3TypeOK
    <2>5. /\ what.kind # "nothing" /\ what.by = r[1] /\ r[1] \in Puts
          /\ \/ r = ObjectOf(r[1]) /\ NameOf(r) = key[r[1]]
             \/ r = SidecarBy(r[1]) /\ NameOf(r) = SidecarOf[key[r[1]]]
          /\ r = ObjectOf(r[1]) => what.kind = "object" /\ what.version \in 1 .. version[r[1]]
          /\ r = SidecarBy(r[1]) => what.kind = "sidecar"
      BY <2>1, CarriesContents, RequestFacts
    <2>6. ASSUME NEW n \in Names, n = NameOf(r) PROVE Said(n)'
      BY <2>2, <2>4, <2>5, <2>6 DEF ObjectOf, SidecarBy
    <2>7. ASSUME NEW n \in Names PROVE Said(n)'
      BY <1>1, <2>4, <2>6
    <2>8. ASSUME NEW s \in applied' PROVE bucket'[NameOf(s)'].kind # "nothing"
      <3>1. s \in underway \cup applied
        BY <2>2
      <3>2. NameOf(s)' = NameOf(s) /\ NameOf(s) \in Names
        BY <3>1, NamesStay, NamesAreNames
      <3>3. CASE NameOf(s) = NameOf(r)
        BY <2>4, <2>5, <3>2, <3>3
      <3>4. CASE NameOf(s) # NameOf(r)
        BY <2>2, <2>4, <3>2, <3>4 DEF BucketInv
      <3> QED
        BY <3>3, <3>4
    <2> QED
      BY <2>7, <2>8 DEF BucketInv, ObjectOf, SidecarBy, NameOf
  <1> QED
    BY <1>2, <1>3

(* A put that had ended makes no request and has none under way *)
LEMMA EarlierNext ==
  TypeOK /\ S3TypeOK /\ RequestsInv /\ EarlierInv /\ [S3Next]_s3vars => EarlierInv'
  <1> SUFFICES ASSUME TypeOK, S3TypeOK, RequestsInv, EarlierInv, [S3Next]_s3vars,
                      NEW p \in Puts, NEW q \in Puts, q \in earlier'[p]
               PROVE  /\ q \in Ended'
                      /\ \A r \in applied' : r[1] = p /\ bucket'[NameOf(r)'].kind # "nothing" =>
                           bucket'[NameOf(r)'].by # q
    BY DEF EarlierInv
  <1>1. q \in Ended
    <2>1. CASE \E n \in Keys : PutObject(p, n)
      BY <2>1 DEF PutObject, Ended, S3TypeOK
    <2>2. CASE ~ \E n \in Keys : PutObject(p, n)
      <3>1. earlier'[p] = earlier[p]
        BY <2>2 DEF S3TypeOK, S3Next, s3vars, s3, Anchor, Lands, Lost, PutObject, Refused, ObjectStored,
                    AnchorReturns, Resolve, Reject
      <3> QED
        BY <3>1 DEF EarlierInv
    <2> QED
      BY <2>1, <2>2
  <1>2. put[q] \in {"resolved", "rejected"} /\ ObjectOf(q) \notin underway /\ SidecarBy(q) \notin underway
    BY <1>1 DEF Ended
  <1>3. ObjectOf(q) \notin underway' /\ SidecarBy(q) \notin underway'
    <2>1. ASSUME NEW s \in Puts, NEW n \in Keys, PutObject(s, n)
          PROVE  ObjectOf(q) \notin underway' /\ SidecarBy(q) \notin underway'
      <3>1. s # q /\ underway' = underway \cup {ObjectOf(s)}
        BY <1>2, <2>1 DEF PutObject, Move
      <3> QED
        BY <1>2, <3>1, RequestFacts
    <2>2. ASSUME NEW s \in Puts, AnchorReturns(s)
          PROVE  ObjectOf(q) \notin underway' /\ SidecarBy(q) \notin underway'
      <3>1. s # q /\ underway' = underway \cup {SidecarBy(s)}
        BY <1>2, <2>2 DEF AnchorReturns, Move
      <3> QED
        BY <1>2, <3>1, RequestFacts
    <2>3. ASSUME ~ \E s \in Puts : AnchorReturns(s) \/ \E n \in Keys : PutObject(s, n)
          PROVE  underway' \subseteq underway
      BY <2>3 DEF S3Next, s3vars, s3, Anchor, Lands, Lost, Refused, ObjectStored, Resolve, Reject
    <2> QED
      BY <1>2, <2>1, <2>2, <2>3
  <1>4. put'[q] = put[q]
    BY <1>2, PutStays
  <1>5. q \in Ended'
    BY <1>2, <1>3, <1>4 DEF Ended, ObjectOf, SidecarBy
  <1>6. ASSUME NEW r \in applied', r[1] = p, bucket'[NameOf(r)'].kind # "nothing"
        PROVE  bucket'[NameOf(r)'].by # q
    <2>0. ASSUME r \in applied PROVE q \in earlier[p] /\ NameOf(r)' = NameOf(r) /\ NameOf(r) \in Names
      <3>1. r = ObjectOf(p) \/ r = SidecarBy(p)
        BY <1>6, <2>0, RequestFacts DEF S3TypeOK
      <3>2. put[p] # "idle"
        BY <2>0, <3>1 DEF RequestsInv
      <3> QED
        BY <2>0, <3>2, PutStays, NamesStay, NamesAreNames
    <2>1. CASE ~ \E s \in Requests : Lands(s)
      <3>1. UNCHANGED <<applied, bucket>>
        BY <2>1, BucketMoves
      <3> QED
        BY <1>6, <2>0, <3>1 DEF EarlierInv
    <2>2. ASSUME NEW s \in Requests, Lands(s) PROVE bucket'[NameOf(r)'].by # q
      <3>1. PICK what \in Carries(s) : bucket' = [bucket EXCEPT ![NameOf(s)] = what]
        BY <2>2 DEF Lands
      <3>2. s \in underway /\ applied' = applied \cup {s} /\ UNCHANGED <<key, earlier>>
        BY <2>2 DEF Lands
      <3>3. NameOf(s) \in Names /\ what.by = s[1]
        BY <3>1, <3>2, NamesAreNames, CarriesContents
      <3>4. s[1] # q
        <4>1. s = ObjectOf(s[1]) \/ s = SidecarBy(s[1])
          BY RequestFacts
        <4> QED
          BY <1>2, <3>2, <4>1
      <3>5. NameOf(r)' = NameOf(r)
        BY <3>2 DEF NameOf
      <3>6. CASE NameOf(r) = NameOf(s)
        BY <3>1, <3>3, <3>4, <3>5, <3>6 DEF S3TypeOK
      <3>7. CASE NameOf(r) # NameOf(s)
        <4>1. r \in applied
          BY <1>6, <3>2, <3>7
        <4>2. q \in earlier[p] /\ NameOf(r) \in Names
          BY <2>0, <4>1
        <4>3. bucket'[NameOf(r)] = bucket[NameOf(r)]
          BY <3>1, <3>7, <4>2 DEF S3TypeOK
        <4> QED
          BY <1>6, <3>5, <4>1, <4>2, <4>3 DEF EarlierInv
      <3> QED
        BY <3>6, <3>7
    <2> QED
      BY <2>1, <2>2
  <1> QED
    BY <1>5, <1>6

(* All of it holds in every reachable state of the wrapper *)
LEMMA S3Correct == S3Spec => []S3Inv
  <1>1. S3Init => S3Inv
    <2> SUFFICES ASSUME S3Init PROVE S3Inv
      OBVIOUS
    <2>1. \A p \in Puts : p \in Writers
      BY S3Assumption DEF Writers
    <2>2. RequestsInv
      BY <2>1 DEF S3Init, Init, RequestsInv
    <2>3. BucketInv
      BY DEF S3Init, BucketInv, Nothing
    <2>4. EarlierInv
      BY DEF S3Init, EarlierInv
    <2> QED
      BY <2>2, <2>3, <2>4 DEF S3Inv
  <1>2. TypeOK /\ S3TypeOK /\ S3Inv /\ [S3Next]_s3vars => S3Inv'
    BY RequestsNext, BucketNext, EarlierNext DEF S3Inv
  <1> QED
    BY <1>1, <1>2, S3UsesAnchorer, TypeCorrect, S3TypeCorrect, PTL DEF S3Spec

-----------------------------------------------------------------------------
(* The sidecars and the objects                                            *)

(* However requests are retried, lost, raced or applied late, no sidecar   *)
(* lies in the bucket whose record is not accepted and the call's own, or  *)
(* whose object the bucket had not applied before                          *)
THEOREM SidecarsAreAnchored == S3Spec => []SidecarsAnchored
  <1>1. TypeOK /\ ChainInv /\ CallsInv /\ S3Inv => SidecarsAnchored
    <2> SUFFICES ASSUME TypeOK, ChainInv, CallsInv, S3Inv,
                        NEW n \in Names, bucket[n].kind = "sidecar"
                 PROVE  /\ n = NameOf(SidecarBy(bucket[n].by))
                        /\ tx[bucket[n].by] \in accepted /\ posted[tx[bucket[n].by]].by = bucket[n].by
                        /\ ObjectOf(bucket[n].by) \in applied
      BY DEF SidecarsAnchored
    <2> DEFINE p == bucket[n].by
    <2>1. p \in Puts /\ n = SidecarOf[key[p]] /\ SidecarBy(p) \in applied
      BY DEF S3Inv, BucketInv
    <2>2. p \in Calls /\ p \in Writers
      BY <2>1, S3Assumption DEF Writers
    <2>3. pc[p] = "returned" /\ ObjectOf(p) \in applied
      BY <2>1 DEF S3Inv, RequestsInv
    <2>4. tx[p] \in accepted /\ tx[p] # 0
      BY <2>2, <2>3 DEF CallsInv, ChainInv, WritersInv
    <2>5. posted[tx[p]].by = p
      BY <2>2, <2>4 DEF ChainInv, WritersInv
    <2> HIDE DEF p
    <2>6. NameOf(SidecarBy(p)) = SidecarOf[key[p]]
      BY <2>1, RequestFacts
    <2> QED
      BY <2>1, <2>3, <2>4, <2>5, <2>6 DEF p
  <1>2. ChainInv => WritersInv
    BY DEF ChainInv
  <1>3. Spec => []CallsInv
    BY <1>2, TypeInit, TypeNext, ChainCorrect, CallsInit, CallsNext, PTL DEF Spec
  <1> QED
    BY <1>1, <1>3, S3Correct, S3UsesAnchorer, TypeCorrect, ChainCorrect, PTL

(* A name of a put with an applied request holds content of that put, or   *)
(* of one that disturbed it                                                *)
LEMMA UndisturbedNames ==
  ASSUME TypeOK, S3TypeOK, S3Inv, NEW p \in Puts, Undisturbed(p), NEW r \in applied, r[1] = p
  PROVE  bucket[NameOf(r)].kind # "nothing" /\ bucket[NameOf(r)].by = p
  <1>1. r = ObjectOf(p) \/ r = SidecarBy(p)
    BY RequestFacts DEF S3TypeOK
  <1>2. key[p] \in Keys /\ NameOf(r) \in Names /\ NameOf(r) \in Written(p)
    <2>1. NameOf(r) \in Names
      BY NamesAreNames DEF S3Inv
    <2>2. key[p] \in Keys
      BY <1>1 DEF S3Inv, RequestsInv
    <2> QED
      BY <1>1, <2>1, <2>2, S3Assumption DEF Written
  <1>3. bucket[NameOf(r)].kind # "nothing"
    BY DEF S3Inv, BucketInv
  <1> DEFINE q == bucket[NameOf(r)].by
  <1>4. /\ q \in Puts /\ NameOf(r) \in {key[q], SidecarOf[key[q]]}
        /\ ObjectOf(q) \in applied \/ SidecarBy(q) \in applied
    <2>1. bucket[NameOf(r)] \in Contents
      BY <1>2 DEF S3TypeOK
    <2>2. bucket[NameOf(r)].kind \in {"object", "sidecar"}
      BY <1>3, <2>1 DEF Contents, Nothing, Object, Sidecar
    <2> QED
      BY <1>2, <2>2 DEF S3Inv, BucketInv
  <1> HIDE DEF q
  <1>5. put[q] # "idle" /\ key[q] \in Keys
    BY <1>4 DEF S3Inv, RequestsInv
  <1>6. NameOf(r) \in Written(q)
    <2>1. key[q] # NoName
      BY <1>5, S3Assumption
    <2> QED
      BY <1>4, <2>1, RequestFacts DEF Written
  <1>7. CASE q # p
    <2>1. q \in earlier[p]
      BY <1>2, <1>4, <1>5, <1>6, <1>7 DEF Undisturbed
    <2>2. bucket[NameOf(r)].by # q
      BY <1>3, <1>4, <2>1 DEF S3Inv, EarlierInv
    <2> QED
      BY <2>2 DEF q
  <1> QED
    BY <1>3, <1>7 DEF q

(* A put that resolved without another put of its names in its way left    *)
(* its object and the sidecar that verifies it, and an object beside the   *)
(* sidecar of another put is due to a race or to a put that did not        *)
(* resolve                                                                 *)
THEOREM ObjectsAreVerifiable == S3Spec => []ObjectsVerify
  <1>1. TypeOK /\ S3TypeOK /\ S3Inv => ObjectsVerify
    <2> SUFFICES ASSUME TypeOK, S3TypeOK, S3Inv PROVE ObjectsVerify
      OBVIOUS
    <2>0. \A n \in Names : bucket[n] \in Contents
      BY DEF S3TypeOK
    <2>1. ASSUME NEW p \in Puts, put[p] = "resolved", Undisturbed(p), version[p] = 1
          PROVE  /\ bucket[SidecarOf[key[p]]] = Sidecar(p)
                 /\ bucket[key[p]] = Object(p, hashed[p])
      <3>1. /\ ObjectOf(p) \in applied /\ SidecarBy(p) \in applied
            /\ key[p] \in Keys /\ hashed[p] = 1
        <4>1. ObjectOf(p) \in applied /\ SidecarBy(p) \in applied
          BY <2>1 DEF S3Inv, RequestsInv
        <4>2. pc[p] = "returned"
          BY <2>1 DEF S3TypeOK
        <4> QED
          BY <2>1, <4>1, <4>2 DEF S3Inv, RequestsInv
      <3>2. /\ key[p] \in Names /\ SidecarOf[key[p]] \in Names /\ SidecarOf[key[p]] # key[p]
        BY <3>1, S3Assumption
      <3>3. /\ bucket[key[p]].kind # "nothing" /\ bucket[key[p]].by = p
            /\ bucket[SidecarOf[key[p]]].kind # "nothing" /\ bucket[SidecarOf[key[p]]].by = p
        BY <2>1, <3>1, UndisturbedNames, RequestFacts
      <3>4. bucket[key[p]].kind = "object" /\ bucket[key[p]].version = 1
        <4>1. bucket[key[p]].kind # "sidecar"
          BY <3>2, <3>3 DEF S3Inv, BucketInv
        <4>2. bucket[key[p]].kind = "object"
          BY <2>0, <3>2, <3>3, <4>1 DEF Contents, Nothing, Object, Sidecar
        <4>3. bucket[key[p]].version \in 1 .. version[p]
          BY <3>2, <3>3, <4>2 DEF S3Inv, BucketInv
        <4> QED
          BY <2>1, <4>2, <4>3
      <3>5. bucket[SidecarOf[key[p]]].kind = "sidecar"
        <4>1. bucket[SidecarOf[key[p]]].kind # "object"
          BY <3>2, <3>3 DEF S3Inv, BucketInv
        <4> QED
          BY <2>0, <3>2, <3>3, <4>1 DEF Contents, Nothing, Object, Sidecar
      <3>6. bucket[key[p]] = Object(p, 1)
        BY <2>0, <3>2, <3>3, <3>4 DEF Contents, Nothing, Object, Sidecar
      <3>7. bucket[SidecarOf[key[p]]] = Sidecar(p)
        BY <2>0, <3>2, <3>3, <3>5 DEF Contents, Nothing, Object, Sidecar
      <3> QED
        BY <3>1, <3>6, <3>7
    <2>2. ASSUME NEW n \in Keys,
                 bucket[n].kind = "object", bucket[SidecarOf[n]].kind = "sidecar"
          PROVE  LET p == bucket[n].by
                     q == bucket[SidecarOf[n]].by
                 IN  IF p = q THEN version[p] = 1 => bucket[n].version = hashed[p]
                     ELSE p \notin earlier[q] /\ (q \in earlier[p] => put[p] # "resolved")
      <3> DEFINE p == bucket[n].by
                 q == bucket[SidecarOf[n]].by
      <3>1. n \in Names /\ SidecarOf[n] \in Names
        BY S3Assumption
      <3>2. /\ p \in Puts /\ n = key[p] /\ ObjectOf(p) \in applied /\ bucket[n].version \in 1 .. version[p]
            /\ q \in Puts /\ SidecarOf[n] = SidecarOf[key[q]] /\ SidecarBy(q) \in applied
        BY <2>2, <3>1 DEF S3Inv, BucketInv
      <3>3. /\ key[q] \in Keys /\ ObjectOf(q) \in applied /\ pc[q] = "returned"
        BY <3>2 DEF S3Inv, RequestsInv
      <3>4. key[q] = n
        BY <3>2, <3>3, S3Assumption
      <3>5. ASSUME p = q, version[p] = 1 PROVE bucket[n].version = hashed[p]
        <4>1. hashed[p] = 1
          BY <3>2, <3>3, <3>5 DEF S3Inv, RequestsInv
        <4>2. bucket[n].version \in 1 .. 1
          BY <3>2, <3>5
        <4> QED
          BY <4>1, <4>2
      <3>6. p \notin earlier[q]
        <4>1. NameOf(ObjectOf(q)) = n /\ ObjectOf(q)[1] = q
          BY <3>2, <3>4, RequestFacts
        <4> QED
          BY <2>2, <3>2, <3>3, <4>1 DEF S3Inv, EarlierInv
      <3>7. ASSUME q \in earlier[p] PROVE put[p] # "resolved"
        <4>1. SUFFICES ASSUME put[p] = "resolved" PROVE FALSE
          OBVIOUS
        <4>2. SidecarBy(p) \in applied
          BY <3>2, <4>1 DEF S3Inv, RequestsInv
        <4>3. NameOf(SidecarBy(p)) = SidecarOf[n] /\ SidecarBy(p)[1] = p
          BY <3>2, RequestFacts
        <4> QED
          BY <2>2, <3>2, <3>7, <4>2, <4>3 DEF S3Inv, EarlierInv
      <3> QED
        BY <3>5, <3>6, <3>7
    <2> QED
      BY <2>1, <2>2 DEF ObjectsVerify
  <1> QED
    BY <1>1, S3Correct, S3UsesAnchorer, TypeCorrect, S3TypeCorrect, PTL
=============================================================================
