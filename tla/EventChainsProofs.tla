-------------------------- MODULE EventChainsProofs --------------------------
(***************************************************************************)
(* What an auditor gets from EventChains: the chains are linked.           *)
(***************************************************************************)
EXTENDS EventChains, TLAPS

ChainTypes ==
  /\ log \in Seq([key : Keys, seq : Nat, prev : Nat])
  /\ next \in [Keys -> [seq : Nat, prev : Nat]]

(* A chain continues from its latest event, or begins *)
Continues(k) ==
  \/ next[k] = Fresh
  \/ /\ next[k].prev \in DOMAIN log
     /\ log[next[k].prev].key = k
     /\ \A i \in DOMAIN log : log[i].key = k => i <= next[k].prev
     /\ next[k].seq = log[next[k].prev].seq + 1

ChainInv == ChainTypes /\ Linked /\ \A k \in Keys : Continues(k)

(* There are no events at first *)
LEMMA ChainsBegin == Init => ChainInv
  BY DEF Init, ChainInv, ChainTypes, Linked, Continues, Fresh

(* Forgetting a chain leaves what was linked *)
LEMMA ChainsForget ==
  ASSUME ChainInv, NEW F \in SUBSET Keys, Forget(F)
  PROVE  ChainInv'
  <1>1. ChainTypes'
    BY DEF ChainInv, ChainTypes, Forget, Fresh
  <1>2. Linked'
    BY DEF ChainInv, Linked, Before, Forget
  <1>3. ASSUME NEW k \in Keys PROVE Continues(k)'
    <2>1. next'[k] = Fresh \/ next'[k] = next[k]
      BY DEF Forget
    <2>2. Continues(k) /\ log' = log
      BY DEF ChainInv, Forget
    <2> QED
      BY <2>1, <2>2 DEF Continues, Fresh
  <1> QED
    BY <1>1, <1>2, <1>3 DEF ChainInv

(* An event links to where its chain was, and the chain is where it is *)
LEMMA ChainsExtend ==
  ASSUME ChainInv, NEW k \in Keys, NEW F \in SUBSET Keys, Emit(k, F)
  PROVE  ChainInv'
  <1> DEFINE n == Len(log) + 1
             event == [key |-> k, seq |-> next[k].seq, prev |-> next[k].prev]
  <1>1. /\ ChainTypes /\ next[k] \in [seq : Nat, prev : Nat]
        /\ event \in [key : Keys, seq : Nat, prev : Nat]
    BY DEF ChainInv, ChainTypes
  <1>2. /\ log' = Append(log, event) /\ log' \in Seq([key : Keys, seq : Nat, prev : Nat])
        /\ n \in Nat /\ DOMAIN log = 1 .. n - 1 /\ DOMAIN log' = 1 .. n
        /\ log'[n] = event /\ \A i \in DOMAIN log : log'[i] = log[i]
    BY <1>1 DEF ChainTypes, Emit
  <1>3. ChainTypes'
    <2>1. next'\in [Keys -> [seq : Nat, prev : Nat]]
      BY <1>1, <1>2 DEF ChainTypes, Emit, Fresh
    <2> QED
      BY <1>2, <2>1 DEF ChainTypes
  <1>4. Linked'
    <2> SUFFICES ASSUME NEW j \in DOMAIN log'
                 PROVE  \/ log'[j].seq = 0 /\ log'[j].prev = 0
                        \/ /\ log'[j].prev \in {i \in 1 .. j - 1 : log'[i].key = log'[j].key}
                           /\ \A i \in {h \in 1 .. j - 1 : log'[h].key = log'[j].key} : i <= log'[j].prev
                           /\ log'[j].seq = log'[log'[j].prev].seq + 1
      BY DEF Linked, Before
    <2>1. CASE j \in DOMAIN log
      <3>1. 1 .. j - 1 \subseteq DOMAIN log /\ log'[j] = log[j]
        BY <1>2, <2>1
      <3>2. \A i \in 1 .. j - 1 : log'[i] = log[i]
        BY <1>2, <3>1
      <3>3. \/ log[j].seq = 0 /\ log[j].prev = 0
            \/ /\ log[j].prev \in {i \in 1 .. j - 1 : log[i].key = log[j].key}
               /\ \A i \in {h \in 1 .. j - 1 : log[h].key = log[j].key} : i <= log[j].prev
               /\ log[j].seq = log[log[j].prev].seq + 1
        BY <2>1 DEF ChainInv, Linked, Before
      <3> QED
        BY <3>1, <3>2, <3>3
    <2>2. CASE j = n
      <3>1. Continues(k)
        BY DEF ChainInv
      <3>2. 1 .. j - 1 = DOMAIN log /\ log'[j] = event
        BY <1>2, <2>2
      <3>3. CASE next[k] = Fresh
        BY <3>2, <3>3 DEF Fresh
      <3>4. CASE next[k] # Fresh
        <4> DEFINE p == next[k].prev
        <4>1. /\ p \in DOMAIN log /\ log[p].key = k
              /\ \A i \in DOMAIN log : log[i].key = k => i <= p
              /\ next[k].seq = log[p].seq + 1
          BY <3>1, <3>4 DEF Continues
        <4>2. /\ log'[j].prev = p /\ log'[j].key = k /\ log'[j].seq = next[k].seq
              /\ log'[p] = log[p]
          BY <1>2, <3>2, <4>1
        <4>3. p \in {i \in 1 .. j - 1 : log'[i].key = k}
          BY <1>2, <3>2, <4>1
        <4>4. \A i \in {h \in 1 .. j - 1 : log'[h].key = k} : i <= p
          BY <1>2, <3>2, <4>1
        <4> QED
          BY <4>1, <4>2, <4>3, <4>4
      <3> QED
        BY <3>3, <3>4
    <2>3. j \in DOMAIN log \/ j = n
      BY <1>2
    <2> QED
      BY <2>1, <2>2, <2>3
  <1>5. ASSUME NEW c \in Keys PROVE Continues(c)'
    <2>1. CASE next'[c] = Fresh
      BY <2>1 DEF Continues, Fresh
    <2>2. CASE c = k /\ next'[c] # Fresh
      <3>1. next'[c] = [seq |-> next[k].seq + 1, prev |-> n]
        BY <2>2 DEF Emit
      <3> QED
        BY <1>2, <2>2, <3>1 DEF Continues
    <2>3. CASE c # k /\ next'[c] # Fresh
      <3>1. next'[c] = next[c] /\ next[c] # Fresh
        BY <2>3 DEF Emit
      <3>2. /\ next[c].prev \in DOMAIN log /\ log[next[c].prev].key = c
            /\ \A i \in DOMAIN log : log[i].key = c => i <= next[c].prev
            /\ next[c].seq = log[next[c].prev].seq + 1
        BY <3>1 DEF ChainInv, Continues
      <3>3. \A i \in DOMAIN log' : log'[i].key = c => i \in DOMAIN log
        BY <1>2, <2>3
      <3>4. /\ next[c].prev \in DOMAIN log' /\ log'[next[c].prev].key = c
            /\ log'[next[c].prev].seq = log[next[c].prev].seq
        BY <1>2, <3>2
      <3>5. \A i \in DOMAIN log' : log'[i].key = c => i <= next[c].prev
        BY <1>2, <3>2, <3>3
      <3> QED
        BY <3>1, <3>2, <3>4, <3>5 DEF Continues
    <2> QED
      BY <2>1, <2>2, <2>3
  <1> QED
    BY <1>3, <1>4, <1>5 DEF ChainInv

(* Whatever implements EventChains commits chains without a gap or a fork *)
THEOREM ChainsLinked == Spec => []Linked
  <1>1. ChainInv /\ [Next]_vars => ChainInv'
    <2> SUFFICES ASSUME ChainInv, [Next]_vars PROVE ChainInv'
      OBVIOUS
    <2>1. CASE Next
      BY <2>1, ChainsForget, ChainsExtend DEF Next
    <2>2. CASE UNCHANGED vars
      BY <2>2 DEF vars, ChainInv, ChainTypes, Linked, Before, Continues
    <2> QED
      BY <2>1, <2>2
  <1>2. ChainInv => Linked
    BY DEF ChainInv
  <1> QED
    BY <1>1, <1>2, ChainsBegin, PTL DEF Spec
=============================================================================
