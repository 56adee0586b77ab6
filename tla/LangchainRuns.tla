--------------------------- MODULE LangchainRuns ----------------------------
(***************************************************************************)
(* The callback handler of packages/langchain/src/index.ts: the runs of a  *)
(* tree report their starts and ends, in any order the framework calls     *)
(* them (parallel branches outlive a parent that failed), and each report  *)
(* is an event on the chain of its root run.  #emit() finds the root       *)
(* through the parent, and #endRun() forgets the run and, with the root,   *)
(* its chain.                                                              *)
(***************************************************************************)
EXTENDS Naturals, Sequences

CONSTANTS
  Runs,        \* the runs the handler hears of
  Outer,       \* a run it does not hear of, being attached further down
  NoRun,       \* "undefined"
  Forests,     \* the parent of each run, in every tree considered
  Retrievers   \* the runs that end without a callback when they fail

Ids == Runs \cup {Outer}

ASSUME RunsAssumption ==
  /\ Outer \notin Runs /\ NoRun \notin Ids
  /\ Forests \subseteq [Runs -> Ids \cup {NoRun}]
  /\ Retrievers \subseteq Runs

VARIABLES
  parent,  \* parentRunId of each run
  phase,   \* "idle", "running", "ended", or "lost": failed without a callback
  rootOf,  \* #rootOf, NoRun for no entry
  chains,  \* #chains: [seq, last] of each root, seq 0 for no entry
  log,     \* the events the batch took; "after" is history: the runs ended by then
  closed   \* close() was called

vars == <<parent, phase, rootOf, chains, log, closed>>

NewChain == [seq |-> 0, last |-> 0]

Ended == {r \in Runs : phase[r] = "ended"}

Init ==
  /\ parent \in Forests
  /\ phase = [r \in Runs |-> "idle"]
  /\ rootOf = [r \in Runs |-> NoRun]
  /\ chains = [k \in Ids |-> NewChain]
  /\ log = <<>>
  /\ closed = FALSE

-----------------------------------------------------------------------------
(* #emit()                                                                 *)

(* mutant: the parent is taken for the root *)
BugRoot(r) == IF parent[r] = NoRun THEN r ELSE parent[r]

(* The parent's root; the parent itself when its entry is gone or never was *)
Root(r) ==
  IF parent[r] = NoRun THEN r
  ELSE IF parent[r] \in Runs /\ rootOf[parent[r]] # NoRun THEN rootOf[parent[r]]
  ELSE parent[r]

(* mutant: the pointer to the last event is never set *)
BugAdvanced(k) == [seq |-> chains[k].seq + 1, last |-> chains[k].last]

Advanced(k) == [seq |-> chains[k].seq + 1, last |-> Len(log) + 1]

Event(r) ==
  [run |-> r, root |-> Root(r), seq |-> chains[Root(r)].seq,
   prev |-> chains[Root(r)].last, after |-> Ended]

Committed(r) == [chains EXCEPT ![Root(r)] = Advanced(Root(r))]

(* mutant: an event that is opted out consumes a number *)
BugSkipped(r) == Committed(r)

Skipped(r) == chains

(* The event is committed, or opted out by mapPayload(), not serialisable  *)
(* or refused by a closed batch; next is what is left of the chains        *)
Emit(r, next) ==
  \/ ~closed /\ next = Committed(r) /\ log' = Append(log, Event(r))
  \/ next = Skipped(r) /\ UNCHANGED log

-----------------------------------------------------------------------------
(* The callbacks                                                           *)

(* A run starts some time after its parent *)
Start(r) ==
  /\ phase[r] = "idle"
  /\ parent[r] \in Runs => phase[parent[r]] # "idle"
  /\ phase' = [phase EXCEPT ![r] = "running"]
  /\ rootOf' = [rootOf EXCEPT ![r] = Root(r)]
  /\ \E next \in {Committed(r), Skipped(r)} : Emit(r, next) /\ chains' = next
  /\ UNCHANGED <<parent, closed>>

(* mutant: only the run's own entry is dropped *)
BugReleased(r, next) == next

(* The root's end drops the chain *)
Released(r, next) == IF Root(r) = r THEN [next EXCEPT ![r] = NewChain] ELSE next

(* handle...End() and handle...Error(): #emit(), then #endRun(), in one go *)
End(r) ==
  /\ phase[r] = "running"
  /\ phase' = [phase EXCEPT ![r] = "ended"]
  /\ rootOf' = [rootOf EXCEPT ![r] = NoRun]
  /\ \E next \in {Committed(r), Skipped(r)} :
       Emit(r, next) /\ chains' = Released(r, next)
  /\ UNCHANGED <<parent, closed>>

(* There is no handleRetrieverError() *)
Lose(r) ==
  /\ r \in Retrievers /\ phase[r] = "running"
  /\ phase' = [phase EXCEPT ![r] = "lost"]
  /\ UNCHANGED <<parent, rootOf, chains, log, closed>>

Close ==
  /\ ~closed /\ closed' = TRUE
  /\ UNCHANGED <<parent, phase, rootOf, chains, log>>

Next == Close \/ \E r \in Runs : Start(r) \/ End(r) \/ Lose(r)

Spec == Init /\ [][Next]_vars
-----------------------------------------------------------------------------
(* Properties                                                              *)

(* The types; a chain that has an entry has a number and a last event *)
TypeOK ==
  /\ parent \in [Runs -> Ids \cup {NoRun}]
  /\ phase \in [Runs -> {"idle", "running", "ended", "lost"}]
  /\ rootOf \in [Runs -> Ids \cup {NoRun}]
  /\ chains \in [Ids -> [seq : Nat, last : 0 .. Len(log)]]
  /\ \A k \in Ids : chains[k].seq = 0 <=> chains[k].last = 0
  /\ log \in Seq([run : Runs, root : Ids, seq : Nat, prev : Nat, after : SUBSET Runs])
  /\ closed \in BOOLEAN

(* However the runs of several trees interleave and whatever is left out,  *)
(* the events of a root's chain are numbered and linked without a gap or a *)
(* fork, and a chain only begins again where #endRun() has dropped it      *)
Promise ==
  INSTANCE EventChains WITH
    Keys <- Ids,
    log <- [n \in DOMAIN log |-> [key |-> log[n].root, seq |-> log[n].seq, prev |-> log[n].prev]],
    next <- [k \in Ids |-> [seq |-> chains[k].seq, prev |-> chains[k].last]]

ImplementsEventChains == Promise!Spec

(* A chain begins again at most once: all its events so far are from       *)
(* before its root's end, and the new one is from after it, of a run that  *)
(* outlived the root                                                       *)
ChainsRestartOnce ==
  \A j \in DOMAIN log : log[j].prev = 0 =>
    \A i \in 1 .. j - 1 :
      log[i].root = log[j].root => log[j].root \in log[j].after \ log[i].after

(* A run and the ancestors of it the handler hears of: they are in every   *)
(* set that has the run and the parents of what it has                     *)
Closed(S) == \A a \in S : parent[a] \in Runs => parent[a] \in S

Lineage(r) == {a \in Runs : \A S \in SUBSET Runs : r \in S /\ Closed(S) => a \in S}

(* The root of a run's tree *)
IsTop(k, r) ==
  \E a \in Lineage(r) : parent[a] \notin Runs /\ k = (IF parent[a] = Outer THEN Outer ELSE a)

Top(r) == CHOOSE k \in Ids : IsTop(k, r)

(* An event names the root of its tree, whatever depth and however many    *)
(* events were left out on the way, unless a run between the two had       *)
(* already ended                                                           *)
RootsTrue ==
  \A j \in DOMAIN log :
    \/ log[j].root = Top(log[j].run)
    \/ \E a \in Lineage(log[j].run) \cap log[j].after : parent[a] # NoRun

(* "Bounds memory for long-lived handlers": the maps keep nothing of a run *)
(* that ended, except for a retriever that failed, a chain of an outer run *)
(* and a chain that runs which outlived its root have begun again          *)
MapsBounded ==
  /\ \A r \in Runs : rootOf[r] # NoRun <=> phase[r] \in {"running", "lost"}
  /\ \A k \in Runs : chains[k] # NewChain =>
       \/ phase[k] \in {"running", "lost"}
       \/ \E j \in DOMAIN log : log[j].root = k /\ k \in log[j].after
=============================================================================
