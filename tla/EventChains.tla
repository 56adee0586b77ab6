---------------------------- MODULE EventChains -----------------------------
(***************************************************************************)
(* What the adapters promise of the events they anchor: each belongs to a  *)
(* chain, carries the next number of it and names the event before it, so  *)
(* that "a dropped or reordered event leaves a dangling pointer an auditor *)
(* can see".  An adapter may forget a chain, which then begins again.      *)
(* #emit() of packages/vercel/src/index.ts and of packages/langchain/src/  *)
(* index.ts are shown to implement it.                                     *)
(***************************************************************************)
EXTENDS Naturals, Sequences

CONSTANT Keys  \* the names of the chains

VARIABLES
  log,  \* the events the batch took: key, seq and prev, an index of log or 0
  next  \* what the next event of each chain will carry

vars == <<log, next>>

Fresh == [seq |-> 0, prev |-> 0]

Init ==
  /\ log = <<>>
  /\ next = [k \in Keys |-> Fresh]

(* The next event of chain k, after which the chains F are forgotten *)
Emit(k, F) ==
  /\ log' = Append(log, [key |-> k, seq |-> next[k].seq, prev |-> next[k].prev])
  /\ next' = [c \in Keys |-> IF c \in F THEN Fresh
                             ELSE IF c = k THEN [seq |-> next[k].seq + 1, prev |-> Len(log) + 1]
                             ELSE next[c]]

Forget(F) ==
  /\ next' = [c \in Keys |-> IF c \in F THEN Fresh ELSE next[c]]
  /\ UNCHANGED log

Next == \E F \in SUBSET Keys : Forget(F) \/ \E k \in Keys : Emit(k, F)

Spec == Init /\ [][Next]_vars

-----------------------------------------------------------------------------
(* The events of the chain of event j before it *)
Before(j) == {i \in 1 .. j - 1 : log[i].key = log[j].key}

(* No gap, no fork and no reordering: an event begins its chain anew, or   *)
(* follows the event before it on its chain in number and in name          *)
Linked ==
  \A j \in DOMAIN log :
    \/ log[j].seq = 0 /\ log[j].prev = 0
    \/ /\ log[j].prev \in Before(j)
       /\ \A i \in Before(j) : i <= log[j].prev
       /\ log[j].seq = log[log[j].prev].seq + 1
=============================================================================
