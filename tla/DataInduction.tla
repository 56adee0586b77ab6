--------------------------- MODULE DataInduction ---------------------------
(***************************************************************************)
(* Induction on the natural numbers with sets in the place of predicates,  *)
(* and the functions it defines: what the proofs about definitions by      *)
(* recursion rest on.                                                      *)
(***************************************************************************)
EXTENDS Naturals, WellFoundedInduction, TLAPS

Less == {p \in Nat \X Nat : p[1] < p[2]}

(* There is no infinite descent below a number *)
LEMMA LessWellFounded == IsWellFoundedOn(Less, Nat)
  <1>1. Less = OpToRel(<, Nat)
    BY DEF Less, OpToRel
  <1> QED
    BY <1>1, NatLessThanWellFounded

(* A set of numbers that is not empty has a least one *)
LEMMA LeastNumber ==
  ASSUME NEW T \in SUBSET Nat, T # {}
  PROVE  \E n \in T : \A m \in T : n <= m
  <1>1. PICK n \in T : \A m \in T : ~(<<m, n>> \in Less)
    BY WFMin, LessWellFounded
  <1>2. \A m \in T : ~(m < n)
    BY <1>1 DEF Less
  <1> QED
    BY <1>2

(* S has 0, and hands on up to N *)
Inductive(S, N) == 0 \in S /\ \A n \in 1 .. N : n - 1 \in S => n \in S

(* Such a set has all numbers up to N *)
LEMMA Induction ==
  ASSUME NEW N \in Nat, NEW S, Inductive(S, N)
  PROVE  \A n \in 0 .. N : n \in S
  <1> SUFFICES ASSUME ~(0 .. N \subseteq S) PROVE FALSE
    OBVIOUS
  <1> DEFINE T == {n \in 0 .. N : n \notin S}
  <1>0. T \in SUBSET Nat /\ T # {}
    OBVIOUS
  <1>1. PICK n \in T : \A m \in T : n <= m
    <2> HIDE DEF T
    <2> QED
      BY <1>0, LeastNumber
  <1>2. n \in 1 .. N /\ n - 1 \in 0 .. N /\ n - 1 \notin T
    BY <1>1 DEF Inductive
  <1> QED
    BY <1>1, <1>2 DEF Inductive

(* f begins with x and takes a step of its own from each value to the next *)
Steps(f, x, step, N) == f[0] = x /\ \A n \in 1 .. N : f[n] = step[n][f[n - 1]]

(* There is such a function for any first value and any steps *)
LEMMA Recursion ==
  ASSUME NEW N \in Nat, NEW X, NEW x \in X, NEW step \in [1 .. N -> [X -> X]]
  PROVE  \E f \in [0 .. N -> X] : Steps(f, x, step, N)
  <1> DEFINE S == {k \in 0 .. N : \E f \in [0 .. k -> X] : Steps(f, x, step, k)}
  <1>1. 0 \in S
    <2> DEFINE g == [n \in 0 .. 0 |-> x]
    <2>1. g \in [0 .. 0 -> X] /\ g[0] = x
      OBVIOUS
    <2> HIDE DEF g
    <2>2. \E f \in [0 .. 0 -> X] : Steps(f, x, step, 0)
      BY <2>1 DEF Steps
    <2> QED
      BY <2>2
  <1>2. ASSUME NEW k \in 1 .. N, k - 1 \in S PROVE k \in S
    <2>1. PICK f \in [0 .. k - 1 -> X] : Steps(f, x, step, k - 1)
      BY <1>2
    <2> DEFINE g == [n \in 0 .. k |-> IF n = k THEN step[k][f[k - 1]] ELSE f[n]]
    <2>2. step[k][f[k - 1]] \in X
      BY <2>1
    <2>3. g \in [0 .. k -> X]
      BY <2>1, <2>2
    <2>4. ASSUME NEW n \in 1 .. k PROVE g[n] = step[n][g[n - 1]]
      <3>1. g[n - 1] = f[n - 1]
        OBVIOUS
      <3>2. CASE n = k
        BY <3>1, <3>2
      <3>3. CASE n # k
        BY <2>1, <3>1, <3>3 DEF Steps
      <3> QED
        BY <3>2, <3>3
    <2>5. g[0] = x
      BY <2>1 DEF Steps
    <2> HIDE DEF g
    <2>6. \E h \in [0 .. k -> X] : Steps(h, x, step, k)
      BY <2>3, <2>4, <2>5 DEF Steps
    <2> QED
      BY <2>6
  <1> HIDE DEF S
  <1>3. N \in S
    <2>1. Inductive(S, N)
      BY <1>1, <1>2 DEF Inductive
    <2> QED
      BY <2>1, Induction
  <1> QED
    BY <1>3 DEF S
=============================================================================
