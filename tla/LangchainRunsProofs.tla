------------------------- MODULE LangchainRunsProofs -------------------------
(***************************************************************************)
(* The LangChain callback handler, for any runs in any forest: it          *)
(* implements EventChains, a chain begins again once at most, and what its *)
(* maps keep is bounded by the runs under way.                             *)
(***************************************************************************)
EXTENDS LangchainRuns, TLAPS

(* What a report of run r does to the log and the chains, the chains of F  *)
(* being dropped after it                                                  *)
Reports(r, F) ==
  \/ /\ log' = log
     /\ chains' = [c \in Ids |-> IF c \in F THEN NewChain ELSE chains[c]]
  \/ /\ log' = Append(log, Event(r))
     /\ chains' = [c \in Ids |-> IF c \in F THEN NewChain
                                 ELSE IF c = Root(r) THEN Advanced(c) ELSE chains[c]]

Dropped(r) == IF Root(r) = r THEN {r} ELSE {}

Records == [run : Runs, root : Ids, seq : Nat, prev : Nat, after : SUBSET Runs]

(* The root of a run, as far as #rootOf knows it *)
RootTypes ==
  /\ parent \in [Runs -> Ids \cup {NoRun}]
  /\ rootOf \in [Runs -> Ids \cup {NoRun}]

ChainTypes ==
  /\ log \in Seq(Records)
  /\ chains \in [Ids -> [seq : Nat, last : 0 .. Len(log)]]
  /\ \A k \in Ids : chains[k].seq = 0 <=> chains[k].last = 0

PhaseTypes ==
  /\ phase \in [Runs -> {"idle", "running", "ended", "lost"}]
  /\ closed \in BOOLEAN

(* The type invariant, in three parts *)
LEMMA TypesSplit == TypeOK <=> RootTypes /\ ChainTypes /\ PhaseTypes
  BY DEF TypeOK, RootTypes, ChainTypes, PhaseTypes, Records

(* The root of a run is a run or the outer one *)
LEMMA RootType ==
  ASSUME RootTypes, NEW r \in Runs
  PROVE  Root(r) \in Ids
  BY RunsAssumption DEF RootTypes, Root, Ids

(* Starts and ends report *)
LEMMA StartReports ==
  ASSUME ChainTypes, RootTypes, NEW r \in Runs, Start(r)
  PROVE  Reports(r, {})
  <1>1. Root(r) \in Ids
    BY RootType
  <1>2. chains = [c \in Ids |-> chains[c]]
    BY DEF ChainTypes
  <1>3. Committed(r) = [c \in Ids |-> IF c = Root(r) THEN Advanced(c) ELSE chains[c]]
    BY <1>1, <1>2 DEF Committed
  <1> QED
    BY <1>2, <1>3 DEF Start, Emit, Skipped, Reports

(* The end of a run reports, and drops the chain endRun() drops *)
LEMMA EndReports ==
  ASSUME ChainTypes, RootTypes, NEW r \in Runs, End(r)
  PROVE  Reports(r, Dropped(r))
  <1>1. Root(r) \in Ids
    BY RootType
  <1>2. chains = [c \in Ids |-> chains[c]]
    BY DEF ChainTypes
  <1>3. Committed(r) = [c \in Ids |-> IF c = Root(r) THEN Advanced(c) ELSE chains[c]]
    BY <1>1, <1>2 DEF Committed
  <1>4. ASSUME NEW next, next = [c \in Ids |-> next[c]]
        PROVE  Released(r, next) = [c \in Ids |-> IF c \in Dropped(r) THEN NewChain ELSE next[c]]
    BY <1>4 DEF Released, Dropped, Ids
  <1>5. PICK next \in {Committed(r), Skipped(r)} : Emit(r, next) /\ chains' = Released(r, next)
    BY DEF End
  <1>6. CASE next = chains /\ log' = log
    BY <1>2, <1>4, <1>5, <1>6 DEF Reports
  <1>7. CASE next = Committed(r) /\ log' = Append(log, Event(r))
    <2>1. next = [c \in Ids |-> next[c]]
      BY <1>3, <1>7
    <2>2. \A c \in Ids : next[c] = IF c = Root(r) THEN Advanced(c) ELSE chains[c]
      BY <1>3, <1>7
    <2>3. chains' = [c \in Ids |-> IF c \in Dropped(r) THEN NewChain ELSE next[c]]
      BY <1>4, <1>5, <2>1
    <2>4. chains' = [c \in Ids |-> IF c \in Dropped(r) THEN NewChain
                                   ELSE IF c = Root(r) THEN Advanced(c) ELSE chains[c]]
      BY <2>2, <2>3
    <2> QED
      BY <1>7, <2>4 DEF Reports
  <1> QED
    BY <1>5, <1>6, <1>7 DEF Emit, Skipped

(* The log grows by an event of the root's chain *)
LEMMA LogGrows ==
  ASSUME ChainTypes, RootTypes, NEW r \in Runs, log' = Append(log, Event(r))
  PROVE  LET n == Len(log) + 1 IN
         /\ n \in Nat /\ n >= 1 /\ DOMAIN log = 1 .. n - 1 /\ DOMAIN log' = 1 .. n
         /\ Len(log') = n /\ log' \in Seq(Records)
         /\ log'[n].root = Root(r) /\ log'[n].after = Ended
         /\ log'[n].seq = chains[Root(r)].seq /\ log'[n].prev = chains[Root(r)].last
         /\ \A i \in DOMAIN log : log'[i] = log[i]
  <1>1. Root(r) \in Ids
    BY RootType
  <1>2. chains[Root(r)].seq \in Nat /\ chains[Root(r)].last \in 0 .. Len(log) /\ Len(log) \in Nat
    BY <1>1 DEF ChainTypes
  <1>3. Event(r) \in Records
    BY <1>1, <1>2 DEF Event, Records, Ended
  <1>4. /\ Event(r).root = Root(r) /\ Event(r).after = Ended
        /\ Event(r).seq = chains[Root(r)].seq /\ Event(r).prev = chains[Root(r)].last
    BY DEF Event
  <1>5. log \in Seq(Records)
    BY DEF ChainTypes
  <1> QED
    BY <1>3, <1>4, <1>5

(* Chains stay well typed *)
LEMMA ChainTypesKept ==
  ASSUME ChainTypes, RootTypes, NEW r \in Runs, NEW F, Reports(r, F)
  PROVE  ChainTypes'
  <1> DEFINE n == Len(log) + 1
  <1>1. CASE /\ log' = log
             /\ chains' = [c \in Ids |-> IF c \in F THEN NewChain ELSE chains[c]]
    BY <1>1 DEF ChainTypes, NewChain
  <1>2. CASE /\ log' = Append(log, Event(r))
             /\ chains' = [c \in Ids |-> IF c \in F THEN NewChain
                                         ELSE IF c = Root(r) THEN Advanced(c) ELSE chains[c]]
    <2>1. n \in Nat /\ n >= 1 /\ Len(log) = n - 1 /\ Len(log') = n /\ log' \in Seq(Records)
      BY <1>2, LogGrows
    <2>2. /\ NewChain \in [seq : Nat, last : 0 .. n] /\ NewChain.seq = 0 /\ NewChain.last = 0
          /\ \A c \in Ids : /\ Advanced(c) \in [seq : Nat, last : 0 .. n]
                            /\ Advanced(c).seq # 0 /\ Advanced(c).last # 0
                            /\ chains[c] \in [seq : Nat, last : 0 .. n]
                            /\ chains[c].seq = 0 <=> chains[c].last = 0
      BY <2>1 DEF ChainTypes, Advanced, NewChain
    <2> HIDE DEF n
    <2>3. /\ chains' \in [Ids -> [seq : Nat, last : 0 .. n]]
          /\ \A c \in Ids : chains'[c].seq = 0 <=> chains'[c].last = 0
      BY <1>2, <2>2
    <2> QED
      BY <2>1, <2>3 DEF ChainTypes
  <1> QED
    BY <1>1, <1>2 DEF Reports

(* Every reachable state of the handler is well typed *)
THEOREM TypeCorrect == Spec => []TypeOK
  <1>1. Init => TypeOK
    <2> SUFFICES ASSUME Init PROVE TypeOK
      OBVIOUS
    <2>1. PhaseTypes
      BY DEF Init, PhaseTypes
    <2>2. RootTypes
      BY RunsAssumption DEF Init, RootTypes
    <2>3. ChainTypes
      BY DEF Init, ChainTypes, NewChain
    <2> QED
      BY <2>1, <2>2, <2>3, TypesSplit
  <1>2. TypeOK /\ [Next]_vars => TypeOK'
    <2> SUFFICES ASSUME TypeOK, [Next]_vars PROVE TypeOK'
      OBVIOUS
    <2>a. RootTypes /\ ChainTypes /\ PhaseTypes
      BY TypesSplit
    <2>b. RootTypes' /\ ChainTypes' /\ PhaseTypes' => TypeOK'
      BY DEF TypeOK, RootTypes, ChainTypes, PhaseTypes, Records
    <2>1. CASE Close
      BY <2>1, <2>a, <2>b DEF Close, RootTypes, ChainTypes, PhaseTypes
    <2>2. ASSUME NEW r \in Runs, Lose(r) PROVE TypeOK'
      <3>1. PhaseTypes'
        BY <2>2, <2>a DEF Lose, PhaseTypes
      <3> QED
        BY <2>2, <3>1, <2>a, <2>b DEF Lose, RootTypes, ChainTypes
    <2>3. ASSUME NEW r \in Runs, Start(r) PROVE TypeOK'
      <3>1. Root(r) \in Ids
        BY <2>a, RootType
      <3>2. RootTypes' /\ PhaseTypes'
        BY <2>3, <3>1, <2>a DEF Start, RootTypes, PhaseTypes
      <3>3. Reports(r, {})
        BY <2>3, <2>a, StartReports
      <3>4. ChainTypes'
        BY <3>3, <2>a, ChainTypesKept
      <3> QED
        BY <3>2, <3>4, <2>b
    <2>4. ASSUME NEW r \in Runs, End(r) PROVE TypeOK'
      <3>1. RootTypes' /\ PhaseTypes'
        BY <2>4, <2>a DEF End, RootTypes, PhaseTypes
      <3>2. Reports(r, Dropped(r))
        BY <2>4, <2>a, EndReports
      <3>3. ChainTypes'
        BY <3>2, <2>a, ChainTypesKept
      <3> QED
        BY <3>1, <3>3, <2>b
    <2>5. CASE UNCHANGED vars
      BY <2>5, <2>a, <2>b DEF vars, RootTypes, ChainTypes, PhaseTypes
    <2> QED
      BY <2>1, <2>2, <2>3, <2>4, <2>5 DEF Next
  <1> QED
    BY <1>1, <1>2, PTL DEF Spec

-----------------------------------------------------------------------------
(* The events and the chains as EventChains sees them *)
Log == [n \in DOMAIN log |-> [key |-> log[n].root, seq |-> log[n].seq, prev |-> log[n].prev]]
Ahead == [k \in Ids |-> [seq |-> chains[k].seq, prev |-> chains[k].last]]

(* A report extends the chain of its root, or drops one *)
LEMMA ChainsStep ==
  ASSUME ChainTypes, RootTypes, NEW r \in Runs, NEW F \in SUBSET Ids, Reports(r, F)
  PROVE  Promise!Next
  <1>1. CASE /\ log' = log
             /\ chains' = [c \in Ids |-> IF c \in F THEN NewChain ELSE chains[c]]
    <2>1. Log' = Log
      BY <1>1 DEF Log
    <2>2. Ahead' = [c \in Ids |-> IF c \in F THEN Promise!Fresh ELSE Ahead[c]]
      BY <1>1 DEF Ahead, Promise!Fresh, NewChain
    <2>3. Promise!Forget(F)
      BY <2>1, <2>2 DEF Promise!Forget, Log, Ahead
    <2> QED
      BY <2>3 DEF Promise!Next
  <1>2. CASE /\ log' = Append(log, Event(r))
             /\ chains' = [c \in Ids |-> IF c \in F THEN NewChain
                                         ELSE IF c = Root(r) THEN Advanced(c) ELSE chains[c]]
    <2> DEFINE n == Len(log) + 1
               k == Root(r)
               event == [key |-> k, seq |-> Ahead[k].seq, prev |-> Ahead[k].prev]
    <2>1. k \in Ids
      BY RootType
    <2>2. /\ n \in Nat /\ n >= 1 /\ DOMAIN log = 1 .. n - 1 /\ DOMAIN log' = 1 .. n
          /\ log'[n].root = k /\ log'[n].seq = chains[k].seq /\ log'[n].prev = chains[k].last
          /\ \A i \in DOMAIN log : log'[i] = log[i]
      BY <1>2, LogGrows
    <2> HIDE DEF k
    <2>3. Ahead[k].seq = chains[k].seq /\ Ahead[k].prev = chains[k].last
      BY <2>1 DEF Ahead
    <2>4. Log' = Append(Log, event) /\ Len(Log) = n - 1
      <3>1. DOMAIN Log = 1 .. n - 1 /\ Len(Log) = n - 1
        BY <2>2 DEF Log
      <3>2. DOMAIN Log' = 1 .. n
        BY <2>2 DEF Log
      <3>3. Log'[n] = event
        BY <2>2, <2>3 DEF Log
      <3>4. \A i \in 1 .. n - 1 : Log'[i] = Log[i]
        BY <2>2 DEF Log
      <3>5. Append(Log, event) = [i \in 1 .. n |-> IF i = n THEN event ELSE Log[i]]
        BY <3>1, <2>2
      <3>6. Log' = [i \in 1 .. n |-> Log'[i]]
        BY <3>2 DEF Log
      <3> HIDE DEF n
      <3> QED
        BY <3>1, <3>3, <3>4, <3>5, <3>6, <2>2
    <2>5. Ahead' = [c \in Ids |-> IF c \in F THEN Promise!Fresh
                                  ELSE IF c = k THEN [seq |-> Ahead[k].seq + 1, prev |-> Len(Log) + 1]
                                  ELSE Ahead[c]]
      <3>1. Ahead' = [c \in Ids |-> [seq |-> chains'[c].seq, prev |-> chains'[c].last]]
        BY DEF Ahead
      <3>2. ASSUME NEW c \in F
            PROVE  [seq |-> chains'[c].seq, prev |-> chains'[c].last] = Promise!Fresh
        BY <1>2 DEF NewChain, Promise!Fresh
      <3>3. ASSUME NEW c \in Ids, c \notin F, c = k
            PROVE  [seq |-> chains'[c].seq, prev |-> chains'[c].last]
                     = [seq |-> Ahead[k].seq + 1, prev |-> Len(Log) + 1]
        <4>1. chains'[c] = Advanced(k)
          BY <1>2, <3>3 DEF k
        <4>2. Advanced(k).seq = Ahead[k].seq + 1 /\ Advanced(k).last = Len(Log) + 1
          BY <2>2, <2>3, <2>4 DEF Advanced
        <4> QED
          BY <4>1, <4>2
      <3>4. ASSUME NEW c \in Ids, c \notin F, c # k
            PROVE  [seq |-> chains'[c].seq, prev |-> chains'[c].last] = Ahead[c]
        BY <1>2, <3>4 DEF Ahead, k
      <3> QED
        BY <3>1, <3>2, <3>3, <3>4
    <2>6. Promise!Emit(k, F)
      BY <2>4, <2>5 DEF Promise!Emit, Log, Ahead
    <2> QED
      BY <2>1, <2>6 DEF Promise!Next
  <1> QED
    BY <1>1, <1>2 DEF Reports

(* The handler numbers and links its events as EventChains promises *)
THEOREM HandlerImplementsChains == Spec => ImplementsEventChains
  <1>1. Init => Promise!Init
    <2> SUFFICES ASSUME Init PROVE Promise!Init
      OBVIOUS
    <2>1. Log = <<>> /\ Ahead = [k \in Ids |-> Promise!Fresh]
      BY DEF Init, Log, Ahead, NewChain, Promise!Fresh
    <2> QED
      BY <2>1 DEF Promise!Init, Log, Ahead
  <1>2. TypeOK /\ [Next]_vars => [Promise!Next]_Promise!vars
    <2> SUFFICES ASSUME TypeOK, [Next]_vars PROVE [Promise!Next]_Promise!vars
      OBVIOUS
    <2> USE TypesSplit
    <2>1. ASSUME log' = log, chains' = chains PROVE UNCHANGED Promise!vars
      BY <2>1 DEF Promise!vars
    <2>2. ASSUME NEW r \in Runs, Start(r) PROVE Promise!Next
      <3>1. Reports(r, {}) /\ {} \in SUBSET Ids
        BY <2>2, StartReports
      <3> QED
        BY <3>1, ChainsStep
    <2>3. ASSUME NEW r \in Runs, End(r) PROVE Promise!Next
      <3>1. PICK F \in SUBSET Ids : F = Dropped(r)
        BY DEF Dropped, Ids
      <3>2. Reports(r, F)
        BY <2>3, <3>1, EndReports
      <3> QED
        BY <3>2, ChainsStep
    <2>4. \/ UNCHANGED vars
          \/ Close
          \/ \E r \in Runs : Lose(r) \/ Start(r) \/ End(r)
      BY DEF Next
    <2> QED
      BY <2>1, <2>2, <2>3, <2>4 DEF vars, Close, Lose
  <1> QED
    BY <1>1, <1>2, TypeCorrect, PTL DEF Spec, ImplementsEventChains, Promise!Spec

-----------------------------------------------------------------------------
(* The roots #rootOf knows have begun, and those that have a parent of     *)
(* their own were only taken for roots after they had ended                *)
RootGood(k) ==
  k \in Runs => phase[k] # "idle" /\ (parent[k] # NoRun => phase[k] = "ended")

RunsInv ==
  \A r \in Runs :
    /\ rootOf[r] # NoRun <=> phase[r] \in {"running", "lost"}
    /\ phase[r] # "idle" /\ parent[r] \in Runs => phase[parent[r]] # "idle"
    /\ rootOf[r] # NoRun => RootGood(rootOf[r])

(* Where a run that starts or ends takes its root from *)
LEMMA RootCases ==
  ASSUME RootTypes, PhaseTypes, RunsInv, NEW r \in Runs,
         parent[r] \in Runs => phase[parent[r]] # "idle", phase[r] \in {"idle", "running"}
  PROVE  \/ Root(r) = r /\ parent[r] = NoRun
         \/ Root(r) # r /\ parent[r] # NoRun /\ RootGood(Root(r))
  <1>1. CASE parent[r] = NoRun
    BY <1>1 DEF Root
  <1>2. CASE parent[r] \in Runs /\ rootOf[parent[r]] # NoRun
    <2>1. Root(r) = rootOf[parent[r]] /\ parent[r] # NoRun
      BY <1>2, RunsAssumption DEF Root, Ids
    <2>2. RootGood(Root(r))
      BY <1>2, <2>1 DEF RunsInv
    <2>3. Root(r) # r
      <3>1. ASSUME Root(r) = r PROVE FALSE
        <4>1. phase[r] # "idle" /\ phase[r] = "ended"
          BY <2>1, <2>2, <3>1 DEF RootGood
        <4> QED
          BY <4>1
      <3> QED
        BY <3>1
    <2> QED
      BY <2>1, <2>2, <2>3
  <1>3. CASE parent[r] # NoRun /\ ~(parent[r] \in Runs /\ rootOf[parent[r]] # NoRun)
    <2>1. Root(r) = parent[r]
      BY <1>3 DEF Root
    <2>2. ASSUME parent[r] \in Runs PROVE phase[parent[r]] = "ended"
      <3>1. phase[parent[r]] # "idle" /\ phase[parent[r]] \notin {"running", "lost"}
        BY <1>3, <2>2 DEF RunsInv
      <3> QED
        BY <2>2, <3>1 DEF PhaseTypes
    <2>3. RootGood(Root(r))
      BY <2>1, <2>2 DEF RootGood
    <2>4. Root(r) # r
      BY <2>1, <2>2
    <2> QED
      BY <1>3, <2>3, <2>4
  <1> QED
    BY <1>1, <1>2, <1>3

(* The step of one run leaves what it must *)
LEMMA RunsNext ==
  ASSUME RootTypes, PhaseTypes, RunsInv, [Next]_vars
  PROVE  RunsInv'
  <1>1. ASSUME parent' = parent, phase' = phase, rootOf' = rootOf PROVE RunsInv'
    BY <1>1 DEF RunsInv, RootGood
  <1>2. ASSUME NEW r \in Runs, Lose(r) PROVE RunsInv'
    <2>1. /\ parent' = parent /\ rootOf' = rootOf /\ phase[r] = "running" /\ phase'[r] = "lost"
          /\ \A q \in Runs \ {r} : phase'[q] = phase[q]
      BY <1>2 DEF Lose, PhaseTypes
    <2>2. \A k : RootGood(k) => RootGood(k)'
      BY <2>1 DEF RootGood
    <2>3. ASSUME NEW q \in Runs
          PROVE  /\ rootOf'[q] # NoRun <=> phase'[q] \in {"running", "lost"}
                 /\ phase'[q] # "idle" /\ parent'[q] \in Runs => phase'[parent'[q]] # "idle"
                 /\ rootOf'[q] # NoRun => RootGood(rootOf[q])'
      BY <2>1, <2>2 DEF RunsInv
    <2> QED
      BY <2>1, <2>3 DEF RunsInv
  <1>3. ASSUME NEW r \in Runs, Start(r) PROVE RunsInv'
    <2>1. /\ parent' = parent /\ phase[r] = "idle" /\ phase'[r] = "running" /\ rootOf'[r] = Root(r)
          /\ \A q \in Runs \ {r} : phase'[q] = phase[q] /\ rootOf'[q] = rootOf[q]
          /\ parent[r] \in Runs => phase[parent[r]] # "idle"
      BY <1>3 DEF Start, PhaseTypes, RootTypes
    <2>2. PICK k \in Ids : k = Root(r) /\ k # NoRun
      BY RootType, RunsAssumption
    <2>3. \A c : RootGood(c) => RootGood(c)'
      BY <2>1 DEF RootGood
    <2>4. (k = r /\ parent[r] = NoRun) \/ RootGood(k)
      BY <2>1, <2>2, RootCases
    <2>5. RootGood(k)'
      BY <2>1, <2>3, <2>4 DEF RootGood
    <2>6. ASSUME NEW q \in Runs
          PROVE  /\ rootOf'[q] # NoRun <=> phase'[q] \in {"running", "lost"}
                 /\ phase'[q] # "idle" /\ parent'[q] \in Runs => phase'[parent'[q]] # "idle"
                 /\ rootOf'[q] # NoRun => RootGood(rootOf[q])'
      <3>1. CASE q = r
        <4>1. rootOf'[r] = k
          BY <2>1, <2>2
        <4>2. RootGood(rootOf[r])'
          BY <2>5, <4>1 DEF RootGood
        <4> QED
          BY <2>1, <2>2, <3>1, <4>2
      <3>2. CASE q # r
        <4>1. rootOf'[q] = rootOf[q] /\ phase'[q] = phase[q]
          BY <2>1, <3>2
        <4>2. rootOf[q] # NoRun => RootGood(rootOf[q])
          BY DEF RunsInv
        <4>3. rootOf'[q] # NoRun => RootGood(rootOf[q])'
          BY <2>1, <4>1, <4>2 DEF RootGood
        <4>4. phase[q] # "idle" /\ parent[q] \in Runs => phase[parent[q]] # "idle"
          BY DEF RunsInv
        <4>5. rootOf[q] # NoRun <=> phase[q] \in {"running", "lost"}
          BY DEF RunsInv
        <4> QED
          BY <2>1, <4>1, <4>3, <4>4, <4>5
      <3> QED
        BY <3>1, <3>2
    <2> QED
      BY <2>6 DEF RunsInv
  <1>4. ASSUME NEW r \in Runs, End(r) PROVE RunsInv'
    <2>1. /\ parent' = parent /\ phase[r] = "running" /\ phase'[r] = "ended" /\ rootOf'[r] = NoRun
          /\ \A q \in Runs \ {r} : phase'[q] = phase[q] /\ rootOf'[q] = rootOf[q]
      BY <1>4 DEF End, PhaseTypes, RootTypes
    <2>2. ASSUME NEW q \in Runs
          PROVE  /\ rootOf'[q] # NoRun <=> phase'[q] \in {"running", "lost"}
                 /\ phase'[q] # "idle" /\ parent'[q] \in Runs => phase'[parent'[q]] # "idle"
                 /\ rootOf'[q] # NoRun => RootGood(rootOf[q])'
      <3>1. CASE q = r
        <4>1. parent[r] \in Runs => phase[parent[r]] # "idle"
          BY <2>1 DEF RunsInv
        <4> QED
          BY <2>1, <3>1, <4>1
      <3>2. CASE q # r
        <4>1. rootOf'[q] = rootOf[q] /\ phase'[q] = phase[q]
          BY <2>1, <3>2
        <4>2. rootOf[q] # NoRun => RootGood(rootOf[q])
          BY DEF RunsInv
        <4>3. rootOf'[q] # NoRun => RootGood(rootOf[q])'
          BY <2>1, <4>1, <4>2 DEF RootGood
        <4>4. phase[q] # "idle" /\ parent[q] \in Runs => phase[parent[q]] # "idle"
          BY DEF RunsInv
        <4>5. rootOf[q] # NoRun <=> phase[q] \in {"running", "lost"}
          BY DEF RunsInv
        <4> QED
          BY <2>1, <4>1, <4>3, <4>4, <4>5
      <3> QED
        BY <3>1, <3>2
    <2> QED
      BY <2>2 DEF RunsInv
  <1>5. Close => parent' = parent /\ phase' = phase /\ rootOf' = rootOf
    BY DEF Close
  <1>6. UNCHANGED vars => parent' = parent /\ phase' = phase /\ rootOf' = rootOf
    BY DEF vars
  <1> QED
    BY <1>1, <1>2, <1>3, <1>4, <1>5, <1>6 DEF Next

-----------------------------------------------------------------------------
(* A chain with an entry continues from an event of its own, which came    *)
(* after the root's end if the root has ended; one without an entry has    *)
(* only events from before the root's end                                  *)
ChainGood(k) ==
  /\ chains[k] # NewChain =>
       /\ chains[k].last \in DOMAIN log
       /\ log[chains[k].last].root = k
       /\ RootGood(k)
       /\ k \in Ended => k \in log[chains[k].last].after
  /\ chains[k] = NewChain =>
       \A i \in DOMAIN log : log[i].root = k => k \in Ended \ log[i].after

ChainsInv ==
  /\ \A i \in DOMAIN log : log[i].after \subseteq Ended
  /\ ChainsRestartOnce
  /\ \A k \in Ids : ChainGood(k)

(* A report keeps the chains right, if its root is one and is dropped with *)
(* its end                                                                 *)
LEMMA ReportKeepsChains ==
  ASSUME ChainTypes, RootTypes, ChainsInv, NEW r \in Runs, NEW F \in SUBSET {r}, Reports(r, F),
         NEW k \in Ids, k = Root(r), RootGood(k)', \A c : RootGood(c) => RootGood(c)',
         r \notin Ended, Ended \subseteq Ended', Ended' \subseteq Ended \cup {r},
         F # {} => r \in Ended',
         r \in Ended' => F = {r} \/ (k # r /\ parent[r] # NoRun)
  PROVE  ChainsInv'
  <1> DEFINE n == Len(log) + 1
  <1>1. \A i \in DOMAIN log : log[i].after \subseteq Ended
    BY DEF ChainsInv
  <1>2. ASSUME r \in Ended', F # {r}, chains[r] # NewChain PROVE FALSE
    <2>1. RootGood(r) /\ parent[r] # NoRun
      BY <1>2 DEF ChainsInv, ChainGood, Ids
    <2> QED
      BY <2>1 DEF RootGood, Ended
  <1>3. \A c \in Ids : ChainGood(c)
    BY DEF ChainsInv
  <1>4. CASE /\ log' = log
             /\ chains' = [c \in Ids |-> IF c \in F THEN NewChain ELSE chains[c]]
    <2>1. ASSUME NEW c \in Ids PROVE ChainGood(c)'
      <3>1. CASE c \in F
        BY <1>1, <1>4, <3>1 DEF ChainGood
      <3>2. CASE c \notin F
        <4>1. chains'[c] = chains[c]
          BY <1>4, <3>2
        <4>2. ASSUME chains[c] # NewChain, c \in Ended' PROVE c \in Ended
          BY <1>2, <3>2, <4>2
        <4> QED
          BY <1>3, <1>4, <4>1, <4>2 DEF ChainGood
      <3> QED
        BY <3>1, <3>2
    <2>2. \A i \in DOMAIN log' : log'[i].after \subseteq Ended'
      BY <1>1, <1>4
    <2>3. ChainsRestartOnce'
      BY <1>4 DEF ChainsInv, ChainsRestartOnce
    <2> QED
      BY <2>1, <2>2, <2>3 DEF ChainsInv
  <1>5. CASE /\ log' = Append(log, Event(r))
             /\ chains' = [c \in Ids |-> IF c \in F THEN NewChain
                                         ELSE IF c = Root(r) THEN Advanced(c) ELSE chains[c]]
    <2>1. /\ n \in Nat /\ n >= 1 /\ DOMAIN log = 1 .. n - 1 /\ DOMAIN log' = 1 .. n
          /\ log'[n].root = k /\ log'[n].after = Ended /\ log'[n].prev = chains[k].last
          /\ \A i \in DOMAIN log : log'[i] = log[i]
      BY <1>5, LogGrows
    <2>2. Advanced(k).last = n /\ Advanced(k) # NewChain
      BY <2>1 DEF Advanced, NewChain, ChainTypes
    <2> HIDE DEF n
    <2>3. \A i \in DOMAIN log' : i = n \/ i \in DOMAIN log
      BY <2>1
    <2>4. \A i \in DOMAIN log' : log'[i].after \subseteq Ended
      BY <1>1, <2>1, <2>3
    <2>5. ASSUME NEW c \in Ids PROVE ChainGood(c)'
      <3>1. CASE c \in F
        <4>1. chains'[c] = NewChain /\ c = r /\ r \in Ended'
          BY <1>5, <3>1
        <4> QED
          BY <2>4, <4>1 DEF ChainGood
      <3>2. CASE c \notin F /\ c = k
        <4>1. chains'[c] = Advanced(k)
          BY <1>5, <3>2
        <4>2. k \in Ended' => k \in Ended
          BY <3>2
        <4>3. n \in DOMAIN log'
          BY <2>1
        <4> QED
          BY <2>1, <2>2, <3>2, <4>1, <4>2, <4>3 DEF ChainGood
      <3>3. CASE c \notin F /\ c # k
        <4>1. chains'[c] = chains[c]
          BY <1>5, <3>3
        <4>2. ASSUME chains[c] # NewChain, c \in Ended' PROVE c \in Ended
          BY <1>2, <3>3, <4>2
        <4>3. \A i \in DOMAIN log' : log'[i].root = c => i \in DOMAIN log
          BY <2>1, <2>3, <3>3
        <4>4. DOMAIN log \subseteq DOMAIN log'
          BY <2>1
        <4>5. ASSUME chains[c] # NewChain
              PROVE  /\ chains[c].last \in DOMAIN log' /\ log'[chains[c].last].root = c
                     /\ RootGood(c)'
                     /\ c \in Ended' => c \in log'[chains[c].last].after
          BY <1>3, <2>1, <4>2, <4>4, <4>5 DEF ChainGood
        <4>6. ASSUME chains[c] = NewChain, NEW i \in DOMAIN log', log'[i].root = c
              PROVE  c \in Ended' \ log'[i].after
          BY <1>3, <2>1, <4>3, <4>6 DEF ChainGood
        <4> QED
          BY <4>1, <4>5, <4>6 DEF ChainGood
      <3> QED
        BY <3>1, <3>2, <3>3
    <2>6. ChainsRestartOnce'
      <3> SUFFICES ASSUME NEW j \in DOMAIN log', log'[j].prev = 0,
                          NEW i \in 1 .. j - 1, log'[i].root = log'[j].root
                   PROVE  log'[j].root \in log'[j].after \ log'[i].after
        BY DEF ChainsRestartOnce
      <3>1. i \in DOMAIN log /\ log'[i] = log[i]
        BY <2>1
      <3>2. CASE j \in DOMAIN log
        BY <2>1, <3>1, <3>2 DEF ChainsInv, ChainsRestartOnce
      <3>3. CASE j = n
        <4>1. chains[k] = NewChain
          BY <2>1, <3>3 DEF ChainTypes, NewChain
        <4>2. k \in Ended \ log[i].after
          BY <1>3, <2>1, <3>1, <3>3, <4>1 DEF ChainGood
        <4> QED
          BY <2>1, <3>1, <3>3, <4>2
      <3> QED
        BY <2>3, <3>2, <3>3
    <2>7. \A i \in DOMAIN log' : log'[i].after \subseteq Ended'
      BY <2>4
    <2> QED
      BY <2>5, <2>6, <2>7 DEF ChainsInv
  <1> QED
    BY <1>4, <1>5 DEF Reports

(* Chains are right whatever the runs do *)
LEMMA ChainsNext ==
  ASSUME RootTypes, PhaseTypes, ChainTypes, RunsInv, ChainsInv, [Next]_vars
  PROVE  ChainsInv'
  <1>1. ASSUME log' = log, chains' = chains, parent' = parent, Ended' = Ended,
               \A q \in Runs : phase[q] # "idle" => phase'[q] # "idle",
               \A q \in Runs : phase[q] = "ended" => phase'[q] = "ended"
        PROVE  ChainsInv'
    <2>1. \A c : RootGood(c) => RootGood(c)'
      BY <1>1 DEF RootGood
    <2>2. ASSUME NEW c \in Ids PROVE ChainGood(c)'
      <3>1. ChainGood(c)
        BY DEF ChainsInv
      <3> QED
        BY <1>1, <2>1, <3>1 DEF ChainGood
    <2> QED
      BY <1>1, <2>2 DEF ChainsInv, ChainsRestartOnce
  <1>2. ASSUME NEW r \in Runs, Start(r) PROVE ChainsInv'
    <2>1. /\ parent' = parent /\ phase[r] = "idle" /\ phase'[r] = "running"
          /\ \A q \in Runs \ {r} : phase'[q] = phase[q]
          /\ parent[r] \in Runs => phase[parent[r]] # "idle"
      BY <1>2 DEF Start, PhaseTypes
    <2>2. PICK k \in Ids : k = Root(r)
      BY RootType
    <2>3. \A c : RootGood(c) => RootGood(c)'
      BY <2>1 DEF RootGood
    <2>4. (k = r /\ parent[r] = NoRun) \/ RootGood(k)
      BY <2>1, <2>2, RootCases
    <2>5. RootGood(k)'
      BY <2>1, <2>3, <2>4 DEF RootGood
    <2>6. Ended' = Ended /\ r \notin Ended
      BY <2>1 DEF Ended
    <2>7. Reports(r, {})
      BY <1>2, StartReports
    <2> QED
      BY <2>2, <2>3, <2>5, <2>6, <2>7, ReportKeepsChains
  <1>3. ASSUME NEW r \in Runs, End(r) PROVE ChainsInv'
    <2>1. /\ parent' = parent /\ phase[r] = "running" /\ phase'[r] = "ended"
          /\ \A q \in Runs \ {r} : phase'[q] = phase[q]
          /\ parent[r] \in Runs => phase[parent[r]] # "idle"
      BY <1>3 DEF End, PhaseTypes, RunsInv
    <2>2. PICK k \in Ids : k = Root(r)
      BY RootType
    <2>3. \A c : RootGood(c) => RootGood(c)'
      BY <2>1 DEF RootGood
    <2>a. \/ Root(r) = r /\ parent[r] = NoRun
          \/ Root(r) # r /\ parent[r] # NoRun /\ RootGood(Root(r))
      BY <2>1, RootCases
    <2>4. \/ k = r /\ parent[r] = NoRun
          \/ k # r /\ parent[r] # NoRun /\ RootGood(k)
      BY <2>2, <2>a
    <2>5. RootGood(k)'
      BY <2>1, <2>3, <2>4 DEF RootGood
    <2>6. Ended' = Ended \cup {r} /\ r \notin Ended
      BY <2>1 DEF Ended
    <2>7. PICK F \in SUBSET {r} : F = Dropped(r)
      BY DEF Dropped
    <2>8. Reports(r, F)
      BY <1>3, <2>7, EndReports
    <2>9. k = r => F = {r}
      BY <2>2, <2>7 DEF Dropped
    <2> QED
      BY <2>2, <2>3, <2>4, <2>5, <2>6, <2>8, <2>9, ReportKeepsChains
  <1>4. ASSUME NEW r \in Runs, Lose(r) PROVE ChainsInv'
    <2>1. /\ parent' = parent /\ log' = log /\ chains' = chains
          /\ phase[r] = "running" /\ phase'[r] = "lost" /\ \A q \in Runs \ {r} : phase'[q] = phase[q]
      BY <1>4 DEF Lose, PhaseTypes
    <2>2. Ended' = Ended
      BY <2>1 DEF Ended
    <2> QED
      BY <1>1, <2>1, <2>2
  <1>5. CASE Close \/ UNCHANGED vars
    BY <1>1, <1>5 DEF Close, vars, Ended
  <1> QED
    BY <1>2, <1>3, <1>4, <1>5 DEF Next

HandlerInv == RootTypes /\ PhaseTypes /\ ChainTypes /\ RunsInv /\ ChainsInv

(* The invariant of the handler holds in every reachable state *)
LEMMA HandlerCorrect == Spec => []HandlerInv
  <1>1. Init => RunsInv /\ ChainsInv
    BY DEF Init, RunsInv, RootGood, ChainsInv, ChainsRestartOnce, ChainGood, NewChain
  <1>2. TypeOK <=> RootTypes /\ PhaseTypes /\ ChainTypes
    BY TypesSplit
  <1> QED
    BY <1>1, <1>2, TypeCorrect, RunsNext, ChainsNext, PTL DEF Spec, HandlerInv

(* A chain begins again at most once, for runs that outlived its root *)
THEOREM ChainsRestart == Spec => []ChainsRestartOnce
  <1>1. HandlerInv => ChainsRestartOnce
    BY DEF HandlerInv, ChainsInv
  <1> QED
    BY <1>1, HandlerCorrect, PTL

(* The maps keep nothing of a run that ended but what the property names *)
THEOREM MapsStayBounded == Spec => []MapsBounded
  <1>1. HandlerInv => MapsBounded
    <2> SUFFICES ASSUME HandlerInv PROVE MapsBounded
      OBVIOUS
    <2>1. \A r \in Runs : rootOf[r] # NoRun <=> phase[r] \in {"running", "lost"}
      BY DEF HandlerInv, RunsInv
    <2>2. ASSUME NEW k \in Runs, chains[k] # NewChain, phase[k] \notin {"running", "lost"}
          PROVE  \E j \in DOMAIN log : log[j].root = k /\ k \in log[j].after
      <3>1. ChainGood(k)
        BY DEF HandlerInv, ChainsInv, Ids
      <3>2. phase[k] = "ended"
        BY <2>2, <3>1 DEF ChainGood, RootGood, HandlerInv, PhaseTypes
      <3>3. k \in Ended
        BY <3>2 DEF Ended
      <3> QED
        BY <2>2, <3>1, <3>3 DEF ChainGood
    <2> QED
      BY <2>1, <2>2 DEF MapsBounded
  <1> QED
    BY <1>1, HandlerCorrect, PTL

-----------------------------------------------------------------------------
(* The lineage of a run is the run with its parent's lineage *)
LEMMA LineageUp ==
  ASSUME NEW r \in Runs
  PROVE  /\ r \in Lineage(r) /\ Lineage(r) \subseteq Runs /\ Closed(Lineage(r))
         /\ parent[r] \in Runs => Lineage(r) = {r} \cup Lineage(parent[r])
         /\ parent[r] \notin Runs => Lineage(r) = {r}
  <1>1. \A q \in Runs : q \in Lineage(q) /\ Lineage(q) \subseteq Runs /\ Closed(Lineage(q))
    BY DEF Lineage, Closed
  <1>2. ASSUME NEW S \in SUBSET Runs, r \in S, Closed(S) PROVE Lineage(r) \subseteq S
    BY <1>2 DEF Lineage
  <1>3. ASSUME parent[r] \in Runs PROVE Lineage(r) = {r} \cup Lineage(parent[r])
    <2>1. Lineage(parent[r]) \subseteq Lineage(r)
      BY <1>3 DEF Lineage, Closed
    <2>2. Closed({r} \cup Lineage(parent[r]))
      BY <1>1, <1>3 DEF Closed
    <2> QED
      BY <1>1, <1>2, <1>3, <2>1, <2>2
  <1>4. ASSUME parent[r] \notin Runs PROVE Lineage(r) = {r}
    <2>1. Closed({r})
      BY <1>4 DEF Closed
    <2> QED
      BY <1>1, <1>2, <2>1
  <1> QED
    BY <1>1, <1>3, <1>4

(* A lineage ends in one run only, so a run has one root at most *)
LEMMA TopUnique ==
  ASSUME NEW r \in Runs, NEW k \in Ids, IsTop(k, r)
  PROVE  Top(r) = k
  <1>1. ASSUME NEW a \in Lineage(r), NEW b \in Lineage(r),
               parent[a] \notin Runs, parent[b] \notin Runs
        PROVE  a = b
    <2> DEFINE S == {c \in Lineage(r) : a \in Lineage(c)}
    <2>1. r \in S /\ S \in SUBSET Runs
      BY LineageUp
    <2>2. Closed(S)
      <3> SUFFICES ASSUME NEW c \in S, parent[c] \in Runs PROVE parent[c] \in S
        BY DEF Closed
      <3>1. c \in Runs /\ parent[c] \in Lineage(r)
        BY LineageUp DEF Closed
      <3>2. a # c /\ a \in Lineage(c)
        BY <1>1
      <3>3. a \in Lineage(parent[c])
        BY <3>1, <3>2, LineageUp
      <3> QED
        BY <3>1, <3>3
    <2>3. b \in S
      BY <2>1, <2>2 DEF Lineage
    <2>4. b \in Runs /\ Lineage(b) = {b}
      BY <1>1, LineageUp
    <2> QED
      BY <2>3, <2>4
  <1>2. \A c \in Ids : IsTop(c, r) => c = k
    BY <1>1 DEF IsTop
  <1>3. Top(r) \in Ids /\ IsTop(Top(r), r)
    BY Zenon DEF Top
  <1> QED
    BY <1>2, <1>3

(* k is the root of run r, or a run between them is one of E, the ended    *)
RootSound(k, r, E) ==
  IsTop(k, r) \/ \E a \in Lineage(r) \cap E : parent[a] # NoRun

RootsInv ==
  /\ \A r \in Runs : rootOf[r] # NoRun => RootSound(rootOf[r], r, Ended)
  /\ \A j \in DOMAIN log : RootSound(log[j].root, log[j].run, log[j].after)

(* What is sound of a run's parent is sound of the run *)
LEMMA SoundBelow ==
  ASSUME NEW r \in Runs, parent[r] \in Runs, NEW k, RootSound(k, parent[r], Ended)
  PROVE  RootSound(k, r, Ended)
  <1>1. Lineage(parent[r]) \subseteq Lineage(r)
    BY LineageUp
  <1> QED
    BY <1>1 DEF RootSound, IsTop

(* The root that an event of a run is given is sound *)
LEMMA RootIsSound ==
  ASSUME RootTypes, PhaseTypes, RunsInv, RootsInv, NEW r \in Runs,
         parent[r] \in Runs => phase[parent[r]] # "idle"
  PROVE  RootSound(Root(r), r, Ended)
  <1>1. CASE parent[r] = NoRun
    <2>1. r \in Lineage(r) /\ Root(r) = r /\ parent[r] \notin Runs /\ parent[r] # Outer
      BY <1>1, LineageUp, RunsAssumption DEF Root, Ids
    <2> QED
      BY <2>1 DEF RootSound, IsTop
  <1>2. CASE parent[r] = Outer
    <2>1. r \in Lineage(r) /\ Root(r) = Outer /\ parent[r] \notin Runs
      BY <1>2, LineageUp, RunsAssumption DEF Root, Ids
    <2> QED
      BY <1>2, <2>1 DEF RootSound, IsTop
  <1>3. CASE parent[r] \in Runs
    <2> DEFINE p == parent[r]
    <2>1. CASE rootOf[p] # NoRun
      <3>1. Root(r) = rootOf[p]
        BY <1>3, <2>1, RunsAssumption DEF Root, Ids
      <3> QED
        BY <1>3, <2>1, <3>1, SoundBelow DEF RootsInv
    <2>2. CASE rootOf[p] = NoRun
      <3>1. Root(r) = p /\ p \in Ended
        BY <1>3, <2>2, RunsAssumption DEF Root, Ids, Ended, RunsInv, PhaseTypes
      <3>2. p \in Lineage(p)
        BY <1>3, LineageUp
      <3>3. RootSound(p, p, Ended)
        <4>1. CASE p \in Runs /\ parent[p] = NoRun
          BY <3>2, <4>1, RunsAssumption DEF RootSound, IsTop, Ids
        <4>2. CASE parent[p] # NoRun
          BY <3>1, <3>2, <4>2 DEF RootSound
        <4> QED
          BY <1>3, <4>1, <4>2
      <3> QED
        BY <1>3, <3>1, <3>3, SoundBelow
    <2> QED
      BY <2>1, <2>2
  <1> QED
    BY <1>1, <1>2, <1>3 DEF RootTypes, Ids

(* Every step keeps the invariant of the roots *)
LEMMA RootsNext == HandlerInv /\ RootsInv /\ [Next]_vars => RootsInv'
  <1> SUFFICES ASSUME HandlerInv, RootsInv, [Next]_vars PROVE RootsInv'
    OBVIOUS
  <1> USE DEF HandlerInv
  <1>1. parent' = parent /\ Ended \subseteq Ended'
    <2>1. ASSUME NEW r \in Runs, Start(r) \/ End(r) \/ Lose(r)
          PROVE  parent' = parent /\ Ended \subseteq Ended'
      BY <2>1 DEF Start, End, Lose, Ended, PhaseTypes
    <2> QED
      BY <2>1 DEF Next, Close, vars, Ended
  <1>2. \A k, r, E : RootSound(k, r, E)' <=> RootSound(k, r, E)
    BY <1>1 DEF RootSound, IsTop, Lineage, Closed
  <1>3. \A k, r : RootSound(k, r, Ended) => RootSound(k, r, Ended')
    BY <1>1 DEF RootSound
  (* The log, in a step of run r *)
  <1>4. ASSUME NEW r \in Runs, NEW F, Reports(r, F), RootSound(Root(r), r, Ended)
        PROVE  \A j \in DOMAIN log' : RootSound(log'[j].root, log'[j].run, log'[j].after)
    <2>1. CASE log' = log
      BY <2>1 DEF RootsInv
    <2>2. CASE log' = Append(log, Event(r))
      <3>1. log'[Len(log) + 1] = Event(r)
        BY <2>2 DEF ChainTypes
      <3>2. Event(r).root = Root(r) /\ Event(r).run = r /\ Event(r).after = Ended
        BY DEF Event
      <3>3. /\ \A j \in DOMAIN log' : j \in DOMAIN log \/ j = Len(log) + 1
            /\ \A j \in DOMAIN log : log'[j] = log[j]
        BY <2>2 DEF ChainTypes
      <3> QED
        BY <1>4, <3>1, <3>2, <3>3 DEF RootsInv
    <2> QED
      BY <1>4, <2>1, <2>2 DEF Reports
  <1>5. ASSUME NEW r \in Runs, Start(r) PROVE RootsInv'
    <2>1. RootSound(Root(r), r, Ended) /\ Reports(r, {})
      BY <1>5, RootIsSound, StartReports DEF Start
    <2>2. rootOf'[r] = Root(r) /\ \A q \in Runs \ {r} : rootOf'[q] = rootOf[q]
      BY <1>5 DEF Start, RootTypes
    <2>3. \A q \in Runs : rootOf'[q] # NoRun => RootSound(rootOf'[q], q, Ended')
      BY <1>3, <2>1, <2>2 DEF RootsInv
    <2> QED
      BY <1>2, <1>4, <2>1, <2>3 DEF RootsInv
  <1>6. ASSUME NEW r \in Runs, End(r) PROVE RootsInv'
    <2>1. RootSound(Root(r), r, Ended) /\ Reports(r, Dropped(r))
      BY <1>6, RootIsSound, EndReports DEF End, RunsInv
    <2>2. rootOf'[r] = NoRun /\ \A q \in Runs \ {r} : rootOf'[q] = rootOf[q]
      BY <1>6 DEF End, RootTypes
    <2>3. \A q \in Runs : rootOf'[q] # NoRun => RootSound(rootOf'[q], q, Ended')
      BY <1>3, <2>2 DEF RootsInv
    <2> QED
      BY <1>2, <1>4, <2>1, <2>3 DEF RootsInv
  <1>7. ASSUME log' = log, rootOf' = rootOf PROVE RootsInv'
    BY <1>2, <1>3, <1>7 DEF RootsInv
  <1> QED
    BY <1>5, <1>6, <1>7 DEF Next, Close, Lose, vars

(* In any forest an event names the root of its tree, unless a run between *)
(* the two had ended                                                       *)
THEOREM RootsAreTrue == Spec => []RootsTrue
  <1>1. Init => RootsInv
    BY DEF Init, RootsInv
  <1>2. HandlerInv /\ RootsInv => RootsTrue
    <2> SUFFICES ASSUME HandlerInv, RootsInv, NEW j \in DOMAIN log
                 PROVE  \/ log[j].root = Top(log[j].run)
                        \/ \E a \in Lineage(log[j].run) \cap log[j].after : parent[a] # NoRun
      BY DEF RootsTrue
    <2>1. log[j] \in Records
      BY DEF HandlerInv, ChainTypes
    <2>2. log[j].root \in Ids /\ log[j].run \in Runs
      BY <2>1 DEF Records
    <2> QED
      BY <2>2, TopUnique DEF RootsInv, RootSound
  <1> QED
    BY <1>1, <1>2, HandlerCorrect, RootsNext, PTL DEF Spec
=============================================================================
