------------------------ MODULE TurboUploaderProofs -------------------------
(***************************************************************************)
(* What anchorEnvelopeBytes() reports and how often upload() posts, proved *)
(* for any number of uploads, configurations and values of maxRetries; and *)
(* that the items it builds read back and verify, whatever their lengths.  *)
(***************************************************************************)
EXTENDS TurboUploader, DataInduction, FiniteSetTheorems, TLAPS

(***************************************************************************)
(* Numbers and their digits                                                *)
(***************************************************************************)

(* The bases the format counts in *)
Bases == {128, 256}

(* Division with a rest, by what bytes are made of *)
LEMMA Division ==
  ASSUME NEW m \in Nat, NEW base \in Bases
  PROVE  /\ m \div base \in Nat /\ m % base \in 0 .. base - 1
         /\ (m % base) + base * (m \div base) = m
         /\ m < base => m % base = m /\ m \div base = 0
         /\ m >= base => m \div base < m
<1>1. CASE base = 128
  BY <1>1
<1>2. CASE base = 256
  BY <1>2
<1> QED
  BY <1>1, <1>2 DEF Bases

(* left is what is left of n after each of so many divisions *)
Leaves(left, n, base, times) ==
  /\ left \in [0 .. times -> Nat] /\ left[0] = n
  /\ \A i \in 1 .. times : left[i] = left[i - 1] \div base

(* So are the values of Shifted() *)
LEMMA ShiftedForm ==
  ASSUME NEW n \in Nat, NEW base \in Bases, NEW times \in Nat
  PROVE  Leaves(Shifted(n, base, times), n, base, times)
<1> DEFINE step == [i \in 1 .. times |-> [m \in Nat |-> m \div base]]
           Is(f) == f = [i \in 0 .. times |-> IF i = 0 THEN n ELSE f[i - 1] \div base]
           left == CHOOSE f : Is(f)
<1>1. Shifted(n, base, times) = left
  BY DEF Shifted
<1>2. step \in [1 .. times -> [Nat -> Nat]]
  <2>1. \A m \in Nat : m \div base \in Nat
    BY DEF Bases
  <2> QED
    BY <2>1
<1>3. PICK f \in [0 .. times -> Nat] : Steps(f, n, step, times)
  <2> HIDE DEF step
  <2> QED
    BY <1>2, Recursion, Zenon
<1>4. f[0] = n /\ \A i \in 1 .. times : f[i] = f[i - 1] \div base
  <2>1. ASSUME NEW i \in 1 .. times PROVE f[i] = f[i - 1] \div base
    <3>1. f[i] = step[i][f[i - 1]] /\ f[i - 1] \in Nat
      <4> HIDE DEF step
      <4> QED
        BY <1>3 DEF Steps
    <3> QED
      BY <3>1
  <2> QED
    BY <1>3, <2>1 DEF Steps
<1>5. Is(f)
  BY <1>4
<1>6. Is(left)
  <2> HIDE DEF Is
  <2> QED
    BY <1>5
<1> HIDE DEF left
<1>7. left[0] = n /\ \A i \in 1 .. times : left[i] = left[i - 1] \div base
  BY <1>6
<1>8. \A i \in 0 .. times : left[i] \in Nat
  <2> DEFINE S == {i \in 0 .. times : left[i] \in Nat}
  <2>1. 0 \in S
    BY <1>7
  <2>2. ASSUME NEW i \in 1 .. times, i - 1 \in S PROVE i \in S
    <3>1. left[i - 1] \in Nat /\ left[i] = left[i - 1] \div base
      BY <1>7, <2>2
    <3>2. left[i] \in Nat
      BY <3>1, Division, Zenon
    <3> QED
      BY <3>2
  <2>3. Inductive(S, times)
    <3> HIDE DEF S
    <3> QED
      BY <2>1, <2>2 DEF Inductive
  <2> HIDE DEF S
  <2>4. \A i \in 0 .. times : i \in S
    BY <2>3, Induction
  <2> QED
    BY <2>4 DEF S
<1>9. left \in [0 .. times -> Nat]
  BY <1>6, <1>8
<1> QED
  BY <1>1, <1>7, <1>9 DEF Leaves

(* What Number() adds up, from the last digit on *)
AddsUp(last, d, base) ==
  last[0] = 0 /\ \A n \in 1 .. Len(d) : last[n] = d[Len(d) + 1 - n] + base * last[n - 1]

(* The number is what it ends with *)
LEMMA NumberForm ==
  ASSUME NEW d \in Seq(Nat), NEW base \in Bases
  PROVE  \E last \in [0 .. Len(d) -> Nat] : AddsUp(last, d, base) /\ Number(d, base) = last[Len(d)]
<1> DEFINE k == Len(d)
           add(n, m) == d[k + 1 - n] + base * m
           step == [n \in 1 .. k |-> [m \in Nat |-> add(n, m)]]
           Is(f) == f = [n \in 0 .. k |-> IF n = 0 THEN 0 ELSE add(n, f[n - 1])]
           last == CHOOSE f : Is(f)
<1>1. Number(d, base) = last[k]
  BY DEF Number
<1>2. k \in Nat
  OBVIOUS
<1>a. \A n \in 1 .. k, m \in Nat : add(n, m) \in Nat
  <2>1. ASSUME NEW n \in 1 .. k, NEW m \in Nat PROVE add(n, m) \in Nat
    <3>1. d[k + 1 - n] \in Nat
      OBVIOUS
    <3>2. base * m \in Nat
      BY DEF Bases
    <3> QED
      BY <3>1, <3>2
  <2> QED
    BY <2>1
<1> HIDE DEF k, add
<1>3. step \in [1 .. k -> [Nat -> Nat]]
  BY <1>a
<1>4. PICK f \in [0 .. k -> Nat] : Steps(f, 0, step, k)
  <2> HIDE DEF step
  <2> QED
    BY <1>2, <1>3, Recursion, Zenon
<1>5. \A n \in 1 .. k : f[n] = add(n, f[n - 1])
  <2>1. ASSUME NEW n \in 1 .. k PROVE f[n] = add(n, f[n - 1])
    <3>1. f[n] = step[n][f[n - 1]] /\ f[n - 1] \in Nat
      <4> HIDE DEF step
      <4> QED
        BY <1>2, <1>4 DEF Steps
    <3> QED
      BY <1>2, <3>1
  <2> QED
    BY <2>1
<1>6. Is(f)
  BY <1>2, <1>4, <1>5 DEF Steps
<1>7. Is(last)
  <2> HIDE DEF Is
  <2> QED
    BY <1>6
<1> HIDE DEF last
<1>8. last[0] = 0 /\ \A n \in 1 .. k : last[n] = add(n, last[n - 1])
  BY <1>2, <1>7
<1>9. \A n \in 0 .. k : last[n] \in Nat
  <2> DEFINE S == {n \in 0 .. k : last[n] \in Nat}
  <2>1. 0 \in S
    BY <1>2, <1>8
  <2>2. ASSUME NEW n \in 1 .. k, n - 1 \in S PROVE n \in S
    <3>1. last[n - 1] \in Nat /\ n \in 0 .. k
      BY <1>2, <2>2
    <3> QED
      BY <1>a, <1>8, <3>1
  <2>3. Inductive(S, k)
    <3> HIDE DEF S
    <3> QED
      BY <2>1, <2>2 DEF Inductive
  <2> HIDE DEF S
  <2>4. \A n \in 0 .. k : n \in S
    BY <1>2, <2>3, Induction
  <2> QED
    BY <2>4 DEF S
<1>10. last \in [0 .. k -> Nat]
  BY <1>7, <1>9
<1> QED
  BY <1>1, <1>8, <1>10 DEF k, add, AddsUp

(* d has the remainders of the divisions, up to the last one *)
Digits(d, left, base, k) ==
  /\ \A i \in 0 .. k : left[i] \in Nat
  /\ \A i \in 1 .. k : left[i] = left[i - 1] \div base
  /\ left[k] < base /\ Len(d) = k + 1
  /\ \A i \in 1 .. k + 1 : d[i] = left[i - 1] % base

(* They are the digits of the number *)
LEMMA DigitsReadBack ==
  ASSUME NEW base \in Bases, NEW k \in Nat, NEW left, NEW d \in Seq(Nat), Digits(d, left, base, k)
  PROVE  Number(d, base) = left[0]
<1>0. /\ \A i \in 0 .. k : left[i] \in Nat
      /\ \A i \in 1 .. k : left[i] = left[i - 1] \div base
      /\ left[k] < base /\ Len(d) = k + 1
      /\ \A i \in 1 .. k + 1 : d[i] = left[i - 1] % base
  BY DEF Digits
<1>1. PICK last \in [0 .. Len(d) -> Nat] : AddsUp(last, d, base) /\ Number(d, base) = last[Len(d)]
  BY NumberForm, Zenon
<1>a. last[0] = 0 /\ \A n \in 1 .. k + 1 : last[n] = d[k + 2 - n] + base * last[n - 1]
  BY <1>0, <1>1 DEF AddsUp
<1> DEFINE S == {n \in 0 .. k : last[n + 1] = left[k - n]}
<1>2. 0 \in S
  <2>1. last[1] = d[k + 1] + base * 0
    BY <1>a
  <2>2. d[k + 1] = left[k] % base /\ left[k] \in Nat /\ left[k] < base
    BY <1>0
  <2>3. d[k + 1] = left[k]
    BY <2>2, Division, Zenon
  <2>4. base * 0 = 0 /\ last[1] = d[k + 1]
    BY <2>1, <2>2, <2>3 DEF Bases
  <2> QED
    BY <2>3, <2>4
<1>3. ASSUME NEW n \in 1 .. k, n - 1 \in S PROVE n \in S
  <2>1. last[n + 1] = d[k + 1 - n] + base * last[n]
    BY <1>a
  <2>2. last[n] = left[k - n + 1]
    BY <1>3
  <2>3. d[k + 1 - n] = left[k - n] % base
    BY <1>0
  <2>4. left[k - n + 1] = left[k - n] \div base /\ left[k - n] \in Nat
    <3>1. k - n + 1 \in 1 .. k /\ k - n \in 0 .. k /\ (k - n + 1) - 1 = k - n
      OBVIOUS
    <3>2. left[k - n + 1] = left[(k - n + 1) - 1] \div base
      BY <1>0, <3>1, Zenon
    <3> QED
      BY <1>0, <3>1, <3>2, Zenon
  <2>5. (left[k - n] % base) + base * (left[k - n] \div base) = left[k - n]
    BY <2>4, Division, Zenon
  <2>6. last[n + 1] = (left[k - n] % base) + base * (left[k - n] \div base)
    BY <2>1, <2>2, <2>3, <2>4, Zenon
  <2>7. last[n + 1] = left[k - n]
    BY <2>5, <2>6, Zenon
  <2> QED
    BY <2>7
<1>4. Inductive(S, k)
  <2> HIDE DEF S
  <2> QED
    BY <1>2, <1>3 DEF Inductive
<1>5. k \in S
  <2> HIDE DEF S
  <2> QED
    BY <1>4, Induction
<1> QED
  BY <1>0, <1>1, <1>5

(* d is a field of so many bytes that has the number n *)
Field(d, n, width) == d \in Seq(Nat) /\ Len(d) = width /\ Number(d, 256) = n

(* A number that so many bytes have room for is read back from them *)
LEMMA LittleEndianReadsBack ==
  ASSUME NEW n \in Nat, NEW width \in Nat, width > 0, Fits(n, width)
  PROVE  Field(LittleEndian(n, width), n, width)
<1> DEFINE left == Shifted(n, 256, width)
           d == [i \in 1 .. width |-> left[i - 1] % 256]
           k == width - 1
<1>0. PICK base \in Bases : base = 256
  BY DEF Bases
<1>1. width \in Nat /\ k \in Nat /\ k + 1 = width
  OBVIOUS
<1>a. left = Shifted(n, base, width)
  BY <1>0
<1> HIDE DEF left
<1>b. /\ left \in [0 .. width -> Nat] /\ left[0] = n
      /\ \A i \in 1 .. width : left[i] = left[i - 1] \div base
  <2>1. width \in Nat
    OBVIOUS
  <2>2. Leaves(Shifted(n, base, width), n, base, width)
    BY <2>1, ShiftedForm, Zenon
  <2>3. Leaves(left, n, base, width)
    BY <1>a, <2>2, Zenon
  <2> QED
    BY <2>3, Zenon DEF Leaves
<1>2. /\ left \in [0 .. width -> Nat] /\ left[0] = n
      /\ \A i \in 1 .. width : left[i] = left[i - 1] \div 256
  BY <1>0, <1>b
<1>3. \A i \in 1 .. width : left[i - 1] \in Nat /\ left[i - 1] % 256 \in Nat
  <2>1. ASSUME NEW i \in 1 .. width PROVE left[i - 1] \in Nat
    BY <1>2
  <2>2. \A m \in Nat : m % 256 \in Nat
    OBVIOUS
  <2> QED
    BY <2>1, <2>2
<1>4. d \in Seq(Nat) /\ Len(d) = width /\ \A i \in 1 .. width : d[i] = left[i - 1] % 256
  BY <1>3
<1>5. left[k] < 256
  <2>1. left[width] = 0 /\ left[width] = left[k] \div 256 /\ left[k] \in Nat
    BY <1>2 DEF left, Fits
  <2> QED
    BY <2>1
<1>6. LittleEndian(n, width) = d
  BY DEF LittleEndian, left
<1> HIDE DEF d
<1>7. \A i \in 0 .. k : left[i] \in Nat
  BY <1>2
<1>8. /\ k \in Nat /\ Len(d) = k + 1
      /\ \A i \in 1 .. k : left[i] = left[i - 1] \div base
      /\ left[k] < base /\ \A i \in 1 .. k + 1 : d[i] = left[i - 1] % base
  BY <1>0, <1>1, <1>2, <1>4, <1>5
<1> HIDE DEF k
<1>9. Number(d, base) = left[0]
  <2>1. d \in Seq(Nat) /\ k \in Nat /\ Digits(d, left, base, k)
    BY <1>4, <1>7, <1>8, Zenon DEF Digits
  <2> QED
    BY <2>1, DigitsReadBack, Zenon
<1> QED
  BY <1>0, <1>2, <1>4, <1>6, <1>9 DEF Field

(* g is a varint of u: it ends with its first byte below 128 *)
Varint(g, u) ==
  /\ g \in Seq(Nat) /\ Len(g) >= 1
  /\ g[Len(g)] < 128 /\ \A i \in 1 .. Len(g) - 1 : g[i] >= 128
  /\ Number([i \in 1 .. Len(g) |-> g[i] % 128], 128) = u

(* The loop of the encoder ends, with a varint *)
LEMMA GroupsForm ==
  ASSUME NEW u \in Nat
  PROVE  Varint(Groups(u), u)
<1> DEFINE left == Shifted(u, 128, u)
           Ends(m) == left[m] < 128 /\ \A i \in 0 .. m - 1 : left[i] >= 128
           more == CHOOSE m \in 0 .. u : Ends(m)
           g == [i \in 1 .. more + 1 |-> IF i <= more THEN 128 + (left[i - 1] % 128) ELSE left[i - 1]]
<1>0. PICK base \in Bases : base = 128
  BY DEF Bases
<1>1. u \in Nat
  OBVIOUS
<1>a. left = Shifted(u, base, u)
  BY <1>0
<1>3. Groups(u) = g
  BY DEF Groups
<1> HIDE DEF left
<1>b. /\ left \in [0 .. u -> Nat] /\ left[0] = u
      /\ \A i \in 1 .. u : left[i] = left[i - 1] \div base
  <2>1. Leaves(Shifted(u, base, u), u, base, u)
    BY <1>1, ShiftedForm, Zenon
  <2>2. Leaves(left, u, base, u)
    BY <1>a, <2>1, Zenon
  <2> QED
    BY <2>2, Zenon DEF Leaves
<1>2. /\ left \in [0 .. u -> Nat] /\ left[0] = u
      /\ \A i \in 1 .. u : left[i] = left[i - 1] \div 128
  BY <1>0, <1>b
<1>c. \A a \in Nat : a >= 128 => a \div 128 < a /\ a \div 128 \in Nat
  OBVIOUS
<1>d. left \in [0 .. u -> Nat]
  BY <1>2
<1>4. \E m \in 0 .. u : left[m] < 128
  <2> SUFFICES ASSUME \A m \in 0 .. u : left[m] >= 128 PROVE FALSE
    BY <1>2
  <2> DEFINE S == {m \in 0 .. u : left[m] <= u - m}
  <2>1. 0 \in S
    BY <1>2
  <2>2. ASSUME NEW m \in 1 .. u, m - 1 \in S PROVE m \in S
    <3>1. left[m - 1] \in Nat /\ left[m - 1] >= 128
      BY <1>d
    <3>a. left[m - 1] \div 128 < left[m - 1] /\ left[m - 1] \div 128 \in Nat
      BY <1>c, <3>1, Zenon
    <3>b. left[m] = left[m - 1] \div 128
      BY <1>2, Zenon
    <3>2. left[m] < left[m - 1] /\ left[m] \in Nat
      BY <3>a, <3>b, Zenon
    <3>3. left[m - 1] <= u - (m - 1)
      BY <2>2
    <3>4. left[m] <= u - m
      BY <3>1, <3>2, <3>3
    <3> QED
      BY <3>4
  <2>3. Inductive(S, u)
    <3> HIDE DEF S
    <3> QED
      BY <2>1, <2>2 DEF Inductive
  <2>4. u \in S
    <3> HIDE DEF S
    <3> QED
      BY <2>3, Induction
  <2>5. left[u] <= 0 /\ u \in 0 .. u /\ left[u] >= 128
    <3>1. left[u] <= u - u
      BY <2>4
    <3> QED
      BY <3>1
  <2>6. left[u] \in Nat
    BY <1>2, <2>5
  <2> QED
    BY <2>5, <2>6
<1>5. \E m \in 0 .. u : Ends(m)
  <2> DEFINE T == {m \in 0 .. u : left[m] < 128}
  <2>1. T \in SUBSET Nat /\ T # {}
    BY <1>4
  <2>2. PICK m \in T : \A i \in T : m <= i
    <3> HIDE DEF T
    <3> QED
      BY <2>1, LeastNumber
  <2>3. ASSUME NEW i \in 0 .. m - 1 PROVE left[i] >= 128
    BY <1>2, <2>2
  <2> QED
    BY <2>2, <2>3
<1>6. more \in 0 .. u /\ Ends(more)
  <2> HIDE DEF Ends
  <2> QED
    BY <1>5
<1> HIDE DEF more
<1>7. \A i \in 0 .. more : left[i] \in Nat
  BY <1>2, <1>6
<1>8. \A i \in 1 .. more + 1 : left[i - 1] \in Nat
  BY <1>6, <1>7
<1>9. ASSUME NEW i \in 1 .. more + 1
      PROVE  /\ g[i] \in Nat /\ g[i] % 128 = left[i - 1] % 128
             /\ i <= more => g[i] >= 128
             /\ i = more + 1 => g[i] < 128
  <2>1. \A m \in Nat : 128 + (m % 128) \in Nat /\ (128 + (m % 128)) % 128 = m % 128
    OBVIOUS
  <2>2. left[i - 1] \in Nat
    BY <1>8
  <2>3. CASE i <= more
    <3>1. g[i] = 128 + (left[i - 1] % 128) /\ left[i - 1] % 128 \in Nat
      BY <2>2, <2>3
    <3> QED
      BY <1>6, <2>1, <2>2, <2>3, <3>1
  <2>4. CASE i = more + 1
    <3>1. g[i] = left[more] /\ i - 1 = more
      BY <1>6, <2>4
    <3>2. left[i - 1] < 128 /\ g[i] = left[i - 1]
      BY <1>6, <3>1
    <3> HIDE DEF g
    <3> QED
      BY <1>6, <2>2, <2>4, <3>2
  <2> QED
    BY <1>6, <2>3, <2>4
<1>10. g \in Seq(Nat) /\ Len(g) = more + 1
  BY <1>6, <1>9
<1> HIDE DEF g
<1> DEFINE d == [i \in 1 .. more + 1 |-> g[i] % 128]
<1>11. d \in Seq(Nat) /\ Len(d) = more + 1 /\ \A i \in 1 .. more + 1 : d[i] = left[i - 1] % 128
  <2>1. \A m \in Nat : m % 128 \in Nat
    OBVIOUS
  <2>2. \A i \in 1 .. more + 1 : g[i] % 128 \in Nat
    BY <1>9, <2>1
  <2> QED
    BY <1>6, <1>9, <2>2
<1> HIDE DEF d
<1>12. /\ \A i \in 1 .. more : left[i] = left[i - 1] \div base
       /\ left[more] < base /\ \A i \in 1 .. more + 1 : d[i] = left[i - 1] % base
  BY <1>0, <1>2, <1>6, <1>11
<1>13. more \in Nat
  BY <1>6
<1>14. Number(d, base) = left[0]
  <2>1. d \in Seq(Nat) /\ Digits(d, left, base, more)
    BY <1>7, <1>11, <1>12, Zenon DEF Digits
  <2> QED
    BY <1>13, <2>1, DigitsReadBack, Zenon
<1>15. Number([i \in 1 .. Len(g) |-> g[i] % 128], 128) = u
  BY <1>0, <1>2, <1>10, <1>14 DEF d
<1> QED
  BY <1>3, <1>6, <1>9, <1>10, <1>15 DEF Varint

(***************************************************************************)
(* What stands where in a sequence of bytes                                *)
(***************************************************************************)

(* What a sequence holds *)
LEMMA Element ==
  ASSUME NEW X, NEW s \in Seq(X), NEW i \in 1 .. Len(s)
  PROVE  s[i] \in X
  OBVIOUS

(* s stands in b from place p on *)
At(b, p, s) ==
  /\ p >= 1 /\ p - 1 + Len(s) <= Len(b)
  /\ \A i \in 1 .. Len(s) : b[p - 1 + i] = s[i]

(* It is what a reader cuts out there *)
LEMMA CutOut ==
  ASSUME NEW X, NEW b \in Seq(X), NEW s \in Seq(X), NEW p \in Nat, At(b, p, s)
  PROVE  SubSeq(b, p, p - 1 + Len(s)) = s
<1>1. p >= 1 /\ p - 1 + Len(s) <= Len(b) /\ \A i \in 1 .. Len(s) : b[p - 1 + i] = s[i]
  BY DEF At
<1>2. SubSeq(b, p, p - 1 + Len(s)) \in Seq(X) /\ Len(SubSeq(b, p, p - 1 + Len(s))) = Len(s)
  <2>1. CASE Len(s) = 0
    BY <1>1, <2>1
  <2>2. CASE Len(s) # 0
    BY <1>1, <2>2
  <2> QED
    BY <2>1, <2>2
<1>3. ASSUME NEW i \in 1 .. Len(s) PROVE SubSeq(b, p, p - 1 + Len(s))[i] = s[i]
  BY <1>1, <1>3
<1> DEFINE cut == SubSeq(b, p, p - 1 + Len(s))
<1>4. cut = [i \in 1 .. Len(s) |-> cut[i]] /\ s = [i \in 1 .. Len(s) |-> s[i]]
  <2>1. \A q \in Seq(X) : q = [i \in 1 .. Len(q) |-> q[i]]
    OBVIOUS
  <2> QED
    BY <1>2, <2>1, Zenon
<1> QED
  BY <1>3, <1>4, Zenon

(* A part stands where the parts before it end *)
LEMMA AtParts ==
  ASSUME NEW X, NEW a \in Seq(X), NEW s \in Seq(X)
  PROVE  a \o s \in Seq(X) /\ Len(a \o s) = Len(a) + Len(s) /\ At(a \o s, Len(a) + 1, s)
<1>1. a \o s \in Seq(X) /\ Len(a \o s) = Len(a) + Len(s)
  OBVIOUS
<1>2. ASSUME NEW i \in 1 .. Len(s) PROVE (a \o s)[Len(a) + i] = s[i]
  OBVIOUS
<1> QED
  BY <1>1, <1>2 DEF At

(* It stays there when another part follows *)
LEMMA AtBefore ==
  ASSUME NEW X, NEW b \in Seq(X), NEW s \in Seq(X), NEW c \in Seq(X), NEW p \in Nat, At(b, p, s)
  PROVE  At(b \o c, p, s)
<1>1. p >= 1 /\ p - 1 + Len(s) <= Len(b) /\ \A i \in 1 .. Len(s) : b[p - 1 + i] = s[i]
  BY DEF At
<1>2. Len(b \o c) = Len(b) + Len(c)
  OBVIOUS
<1>3. ASSUME NEW i \in 1 .. Len(s) PROVE (b \o c)[p - 1 + i] = s[i]
  <2>1. p - 1 + i \in 1 .. Len(b)
    BY <1>1
  <2> QED
    BY <1>1, <2>1
<1> QED
  BY <1>1, <1>2, <1>3 DEF At

(* It moves on by the length of a part that precedes *)
LEMMA AtAfter ==
  ASSUME NEW X, NEW b \in Seq(X), NEW s \in Seq(X), NEW a \in Seq(X), NEW p \in Nat, At(b, p, s)
  PROVE  At(a \o b, Len(a) + p, s)
<1>1. p >= 1 /\ p - 1 + Len(s) <= Len(b) /\ \A i \in 1 .. Len(s) : b[p - 1 + i] = s[i]
  BY DEF At
<1>2. Len(a \o b) = Len(a) + Len(b)
  OBVIOUS
<1>3. ASSUME NEW i \in 1 .. Len(s) PROVE (a \o b)[Len(a) + p - 1 + i] = s[i]
  <2>1. p - 1 + i \in 1 .. Len(b)
    BY <1>1
  <2>2. (a \o b)[Len(a) + (p - 1 + i)] = b[p - 1 + i]
    BY <2>1
  <2> QED
    BY <1>1, <2>2
<1> QED
  BY <1>1, <1>2, <1>3 DEF At

(* What stands in a part of what stands somewhere *)
LEMMA AtWithin ==
  ASSUME NEW X, NEW b \in Seq(X), NEW s \in Seq(X), NEW t \in Seq(X), NEW p \in Nat, NEW q \in Nat,
         At(b, p, s), At(s, q, t)
  PROVE  At(b, p - 1 + q, t)
<1>1. p >= 1 /\ p - 1 + Len(s) <= Len(b) /\ \A i \in 1 .. Len(s) : b[p - 1 + i] = s[i]
  BY DEF At
<1>2. q >= 1 /\ q - 1 + Len(t) <= Len(s) /\ \A i \in 1 .. Len(t) : s[q - 1 + i] = t[i]
  BY DEF At
<1>3. ASSUME NEW i \in 1 .. Len(t) PROVE b[(p - 1 + q) - 1 + i] = t[i]
  <2>1. q - 1 + i \in 1 .. Len(s)
    BY <1>2
  <2>2. b[p - 1 + (q - 1 + i)] = s[q - 1 + i]
    BY <1>1, <2>1
  <2> QED
    BY <1>2, <2>2
<1> QED
  BY <1>1, <1>2, <1>3 DEF At

(***************************************************************************)
(* Avro's longs and strings read back                                      *)
(***************************************************************************)

(* VarintLong() writes bytes, at least one *)
LEMMA LongForm ==
  ASSUME NEW n \in Nat
  PROVE  Varint(VarintLong(n), 2 * n) /\ VarintLong(n) \in Seq(Nat) /\ Len(VarintLong(n)) >= 1
<1>1. 2 * n \in Nat
  OBVIOUS
<1>2. Varint(Groups(2 * n), 2 * n)
  BY <1>1, GroupsForm
<1> QED
  BY <1>2 DEF VarintLong, Varint

(* The first byte without a continuation bit is the last of the long, and *)
(* its bytes have the number                                               *)
LEMMA LongReadsBack ==
  ASSUME NEW bytes \in Seq(Nat), NEW p \in Nat, NEW n \in Nat, At(bytes, p, VarintLong(n))
  PROVE  /\ LongEnd(bytes, p) = p - 1 + Len(VarintLong(n))
         /\ LongAt(bytes, p) = n
<1> DEFINE g == VarintLong(n)
           q == p - 1 + Len(g)
           Ends(r) == bytes[r] < 128 /\ \A s \in p .. r - 1 : bytes[s] >= 128
<1>1. /\ g \in Seq(Nat) /\ Len(g) >= 1
      /\ g[Len(g)] < 128 /\ \A i \in 1 .. Len(g) - 1 : g[i] >= 128
      /\ Number([i \in 1 .. Len(g) |-> g[i] % 128], 128) = 2 * n
  BY LongForm DEF Varint
<1>2. p >= 1 /\ q <= Len(bytes) /\ \A i \in 1 .. Len(g) : bytes[p - 1 + i] = g[i]
  BY DEF At
<1> HIDE DEF g
<1>3. q \in p .. Len(bytes) /\ q \in Nat
  BY <1>1, <1>2
<1>4. bytes[q] < 128
  <2>1. Len(g) \in 1 .. Len(g) /\ g[Len(g)] < 128
    BY <1>1
  <2> QED
    BY <1>2, <2>1
<1>5. ASSUME NEW s \in p .. q - 1 PROVE bytes[s] >= 128
  <2>1. s - p + 1 \in 1 .. Len(g) - 1
    BY <1>1
  <2>2. s - p + 1 \in 1 .. Len(g) /\ p - 1 + (s - p + 1) = s
    BY <1>1
  <2>3. bytes[p - 1 + (s - p + 1)] = g[s - p + 1]
    BY <1>2, <2>2, Zenon
  <2>4. g[s - p + 1] >= 128
    BY <1>1, <2>1, Zenon
  <2> QED
    BY <2>2, <2>3, <2>4, Zenon
<1>6. ASSUME NEW r \in p .. Len(bytes), Ends(r) PROVE r = q
  <2>1. r \in Nat /\ q \in Nat /\ r >= p /\ q >= p
    BY <1>2, <1>3
  <2>a. bytes[r] < 128 /\ bytes[q] < 128
    BY <1>4, <1>6, Zenon
  <2>b. bytes[r] \in Nat /\ bytes[q] \in Nat
    <3>1. r \in 1 .. Len(bytes) /\ q \in 1 .. Len(bytes)
      BY <1>2, <1>3
    <3> QED
      BY <3>1, Element, Zenon
  <2>2. ~(r < q)
    <3>1. ASSUME r < q PROVE bytes[r] >= 128
      <4>1. r \in p .. q - 1
        BY <2>1, <3>1
      <4> QED
        BY <1>5, <4>1, Zenon
    <3> QED
      BY <2>a, <2>b, <3>1
  <2>3. ~(q < r)
    <3>1. ASSUME q < r PROVE bytes[q] >= 128
      <4>1. q \in p .. r - 1
        BY <2>1, <3>1
      <4> QED
        BY <1>6, <4>1, Zenon
    <3> QED
      BY <2>a, <2>b, <3>1
  <2> QED
    BY <1>3, <2>2, <2>3
<1>7. LongEnd(bytes, p) = q
  <2>1. Ends(q)
    BY <1>4, <1>5
  <2>2. LongEnd(bytes, p) = CHOOSE r \in p .. Len(bytes) : Ends(r)
    BY DEF LongEnd
  <2> HIDE DEF Ends, q
  <2> QED
    BY <1>3, <1>6, <2>1, <2>2
<1>8. LongAt(bytes, p) = Number([i \in 1 .. Len(g) |-> g[i] % 128], 128) \div 2
  <2>1. LongEnd(bytes, p) + 1 - p = Len(g)
    BY <1>1, <1>7
  <2>2. [i \in 1 .. Len(g) |-> bytes[p - 1 + i] % 128] = [i \in 1 .. Len(g) |-> g[i] % 128]
    BY <1>2
  <2> QED
    BY <2>1, <2>2 DEF LongAt
<1>9. (2 * n) \div 2 = n
  OBVIOUS
<1> QED
  BY <1>1, <1>7, <1>8, <1>9 DEF g

(* A string is its length and its bytes *)
LEMMA StringForm ==
  ASSUME NEW s \in Seq(Nat)
  PROVE  /\ AvroString(s) \in Seq(Nat) /\ Len(AvroString(s)) = Len(VarintLong(Len(s))) + Len(s)
         /\ VarintLong(Len(s)) \in Seq(Nat)
         /\ At(AvroString(s), 1, VarintLong(Len(s)))
         /\ At(AvroString(s), Len(VarintLong(Len(s))) + 1, s)
<1> DEFINE g == VarintLong(Len(s))
<1>1. g \in Seq(Nat)
  BY LongForm
<1>2. AvroString(s) = g \o s
  BY DEF AvroString
<1> HIDE DEF g
<1>3. At(g, 1, g)
  BY <1>1 DEF At
<1>4. At(g \o s, 1, g)
  BY <1>1, <1>3, AtBefore
<1>5. g \o s \in Seq(Nat) /\ Len(g \o s) = Len(g) + Len(s) /\ At(g \o s, Len(g) + 1, s)
  BY <1>1, AtParts
<1> QED
  BY <1>1, <1>2, <1>4, <1>5 DEF g

(* A string is read where it stands, and ends where the next begins *)
LEMMA StringReadsBack ==
  ASSUME NEW bytes \in Seq(Nat), NEW p \in Nat, NEW s \in Seq(Nat), At(bytes, p, AvroString(s))
  PROVE  /\ StringEnd(bytes, p) = p - 1 + Len(AvroString(s))
         /\ StringAt(bytes, p) = s
<1> DEFINE g == VarintLong(Len(s))
           a == AvroString(s)
<1>1. /\ a \in Seq(Nat) /\ Len(a) = Len(g) + Len(s) /\ g \in Seq(Nat)
      /\ At(a, 1, g) /\ At(a, Len(g) + 1, s)
  BY StringForm
<1>2. Len(s) \in Nat /\ Len(g) \in Nat /\ At(bytes, p, a)
  BY <1>1
<1> HIDE DEF a
<1>3. At(bytes, p - 1 + 1, g) /\ At(bytes, p - 1 + (Len(g) + 1), s)
  <2> HIDE DEF g
  <2>1. Len(g) + 1 \in Nat
    BY <1>2
  <2> QED
    BY <1>1, <1>2, <2>1, AtWithin
<1>4. p - 1 + 1 = p
  OBVIOUS
<1>5. LongEnd(bytes, p) = p - 1 + Len(g) /\ LongAt(bytes, p) = Len(s)
  BY <1>2, <1>3, <1>4, LongReadsBack
<1> HIDE DEF g
<1>6. StringEnd(bytes, p) = p - 1 + Len(a)
  BY <1>1, <1>2, <1>5 DEF StringEnd
<1>7. StringAt(bytes, p) = s
  <2> DEFINE start == p - 1 + (Len(g) + 1)
  <2>1. start \in Nat /\ LongEnd(bytes, p) + 1 = start /\ StringEnd(bytes, p) = start - 1 + Len(s)
    BY <1>1, <1>2, <1>5, <1>6
  <2>2. At(bytes, start, s)
    BY <1>3
  <2> HIDE DEF start
  <2>3. SubSeq(bytes, start, start - 1 + Len(s)) = s
    BY <2>1, <2>2, CutOut
  <2> QED
    BY <2>1, <2>3 DEF StringAt
<1> QED
  BY <1>6, <1>7 DEF a

(***************************************************************************)
(* Avro's array of tags reads back                                         *)
(***************************************************************************)

(* What sequences are, joined one after the other *)
Joined(cat, seqs, X) ==
  /\ cat \in [0 .. Len(seqs) -> Seq(X)]
  /\ cat[0] = <<>> /\ \A k \in 1 .. Len(seqs) : cat[k] = cat[k - 1] \o seqs[k]

(* FlattenSeq() is such a join *)
LEMMA FlattenJoins ==
  ASSUME NEW seqs \in Seq(Seq(Nat)), Len(seqs) >= 1
  PROVE  \E cat : Joined(cat, seqs, Nat) /\ FlattenSeq(seqs) = cat[Len(seqs)]
<1> DEFINE last == Len(seqs)
           X == Seq(Nat)
           x == <<>>
           step == [k \in 1 .. last |-> [s \in X |-> s \o seqs[k]]]
           Is(f) == f = [k \in 1 .. last |-> IF k = 1 THEN seqs[k] ELSE f[k - 1] \o seqs[k]]
           flat == CHOOSE f : Is(f)
<1>1. last \in Nat /\ last >= 1 /\ x \in X /\ \A k \in 1 .. last : seqs[k] \in X
  OBVIOUS
<1>2. FlattenSeq(seqs) = flat[last]
  BY <1>1 DEF FlattenSeq
<1>3. step \in [1 .. last -> [X -> X]]
  <2>1. ASSUME NEW k \in 1 .. last PROVE [s \in X |-> s \o seqs[k]] \in [X -> X]
    <3>1. seqs[k] \in Seq(Nat)
      BY <1>1
    <3> QED
      BY <3>1
  <2> QED
    BY <2>1
<1> HIDE DEF last
<1>4. PICK cat \in [0 .. last -> X] : Steps(cat, x, step, last)
  <2> HIDE DEF step, X, x
  <2> QED
    BY <1>1, <1>3, Recursion, Zenon
<1>5. cat[0] = <<>> /\ \A k \in 1 .. last : cat[k] = cat[k - 1] \o seqs[k]
  <2>1. ASSUME NEW k \in 1 .. last PROVE cat[k] = cat[k - 1] \o seqs[k]
    <3>1. cat[k] = step[k][cat[k - 1]] /\ cat[k - 1] \in X
      <4> HIDE DEF step
      <4> QED
        BY <1>1, <1>4 DEF Steps
    <3> QED
      BY <3>1
  <2> QED
    BY <1>4, <2>1 DEF Steps
<1>a. 1 \in 1 .. last /\ cat[1] = seqs[1]
  <2>1. 1 \in 1 .. last /\ 1 - 1 = 0 /\ seqs[1] \in Seq(Nat)
    BY <1>1
  <2>2. cat[1] = <<>> \o seqs[1]
    BY <1>5, <2>1, Zenon
  <2>3. <<>> \o seqs[1] = seqs[1]
    BY <2>1
  <2> QED
    BY <2>1, <2>2, <2>3
<1>6. Is([k \in 1 .. last |-> cat[k]])
  <2>1. ASSUME NEW k \in 1 .. last, k # 1
        PROVE  k - 1 \in 1 .. last
    BY <1>1, <2>1
  <2>2. \A k \in 1 .. last : cat[k] = IF k = 1 THEN seqs[k] ELSE [j \in 1 .. last |-> cat[j]][k - 1] \o seqs[k]
    BY <1>5, <1>a, <2>1, Zenon
  <2> QED
    BY <2>2, Zenon
<1>7. Is(flat)
  <2> HIDE DEF Is
  <2> QED
    BY <1>6
<1> HIDE DEF flat
<1>8. \A k \in 1 .. last : flat[k] = IF k = 1 THEN seqs[k] ELSE flat[k - 1] \o seqs[k]
  BY <1>1, <1>7
<1> DEFINE S == {k \in 0 .. last : k >= 1 => flat[k] = cat[k]}
<1>9. Inductive(S, last)
  <2>1. 0 \in S
    BY <1>1
  <2>2. ASSUME NEW k \in 1 .. last, k - 1 \in S PROVE k \in S
    <3>1. CASE k = 1
      <4>1. flat[1] = seqs[1]
        BY <1>8, <1>a, Zenon
      <4> QED
        BY <1>1, <1>a, <3>1, <4>1
    <3>2. CASE k # 1
      <4>1. flat[k - 1] = cat[k - 1]
        BY <1>1, <2>2, <3>2
      <4>2. flat[k] = cat[k]
        BY <1>5, <1>8, <3>2, <4>1
      <4> QED
        BY <1>1, <4>2
    <3> QED
      BY <3>1, <3>2
  <2> HIDE DEF S
  <2> QED
    BY <2>1, <2>2 DEF Inductive
<1>10. last \in S
  <2> HIDE DEF S
  <2> QED
    BY <1>1, <1>9, Induction
<1>11. Joined(cat, seqs, Nat) /\ flat[last] = cat[last]
  <2> HIDE DEF Is
  <2> QED
    BY <1>1, <1>4, <1>5, <1>10 DEF Joined, last
<1> QED
  BY <1>2, <1>11 DEF last

(* Each stands where those before it end *)
LEMMA JoinedAt ==
  ASSUME NEW Y, NEW seqs \in Seq(Seq(Y)), NEW cat, Joined(cat, seqs, Y), NEW k \in 1 .. Len(seqs)
  PROVE  At(cat[Len(seqs)], Len(cat[k - 1]) + 1, seqs[k])
<1> DEFINE last == Len(seqs)
           Stands(n, j) == At(cat[n], Len(cat[j - 1]) + 1, seqs[j])
           S == {n \in 0 .. last : \A j \in 1 .. n : Stands(n, j)}
<1>1. last \in Nat /\ \A j \in 1 .. last : seqs[j] \in Seq(Y)
  OBVIOUS
<1>2. /\ \A n \in 0 .. last : cat[n] \in Seq(Y)
      /\ \A n \in 1 .. last : cat[n] = cat[n - 1] \o seqs[n]
  BY DEF Joined
<1> HIDE DEF last
<1>3. 0 \in S
  BY <1>1
<1>4. ASSUME NEW n \in 1 .. last, n - 1 \in S PROVE n \in S
  <2>0. n \in 1 .. last /\ n - 1 \in 0 .. last
    BY <1>1
  <2>1. cat[n - 1] \in Seq(Y) /\ seqs[n] \in Seq(Y) /\ cat[n] = cat[n - 1] \o seqs[n]
    BY <1>1, <1>2, <2>0, Zenon
  <2>2. Stands(n, n)
    BY <2>1, AtParts
  <2>3. ASSUME NEW j \in 1 .. n - 1 PROVE Stands(n, j)
    <3>1. At(cat[n - 1], Len(cat[j - 1]) + 1, seqs[j])
      BY <1>4
    <3>2. seqs[j] \in Seq(Y) /\ cat[j - 1] \in Seq(Y)
      BY <1>1, <1>2
    <3>3. Len(cat[j - 1]) + 1 \in Nat
      BY <3>2
    <3> QED
      BY <2>1, <3>1, <3>2, <3>3, AtBefore
  <2> HIDE DEF Stands
  <2>4. \A j \in 1 .. n : Stands(n, j)
    BY <2>2, <2>3
  <2> QED
    BY <1>1, <2>4
<1>5. Inductive(S, last)
  <2> HIDE DEF S
  <2> QED
    BY <1>3, <1>4 DEF Inductive
<1>6. last \in S
  <2> HIDE DEF S
  <2> QED
    BY <1>1, <1>5, Induction
<1> QED
  BY <1>6 DEF last

(* A tag: a name and a value of bytes, and how Avro has it *)
TagSpace == [name : Seq(Nat), value : Seq(Nat)]

Pair(tag) == AvroString(tag.name) \o AvroString(tag.value)

(* Its parts stand one after the other *)
LEMMA PairForm ==
  ASSUME NEW t \in TagSpace
  PROVE  /\ t.name \in Seq(Nat) /\ t.value \in Seq(Nat)
         /\ AvroString(t.name) \in Seq(Nat) /\ AvroString(t.value) \in Seq(Nat)
         /\ Pair(t) \in Seq(Nat)
         /\ Len(Pair(t)) = Len(AvroString(t.name)) + Len(AvroString(t.value))
         /\ At(Pair(t), 1, AvroString(t.name))
         /\ At(Pair(t), Len(AvroString(t.name)) + 1, AvroString(t.value))
<1> DEFINE a == AvroString(t.name)
           b == AvroString(t.value)
<1>1. t.name \in Seq(Nat) /\ t.value \in Seq(Nat)
  BY DEF TagSpace
<1>2. a \in Seq(Nat) /\ b \in Seq(Nat)
  BY <1>1, StringForm
<1> HIDE DEF a, b
<1>3. At(a, 1, a)
  BY <1>2 DEF At
<1>4. At(a \o b, 1, a)
  BY <1>2, <1>3, AtBefore
<1>5. a \o b \in Seq(Nat) /\ Len(a \o b) = Len(a) + Len(b) /\ At(a \o b, Len(a) + 1, b)
  BY <1>2, AtParts
<1> QED
  BY <1>1, <1>2, <1>4, <1>5 DEF a, b, Pair

(* Where it stands, its name is read, and after that its value *)
LEMMA PairReadsBack ==
  ASSUME NEW bytes \in Seq(Nat), NEW p \in Nat, NEW t \in TagSpace, At(bytes, p, Pair(t))
  PROVE  /\ StringAt(bytes, p) = t.name
         /\ StringEnd(bytes, p) + 1 = p + Len(AvroString(t.name))
         /\ StringAt(bytes, p + Len(AvroString(t.name))) = t.value
         /\ StringEnd(bytes, p + Len(AvroString(t.name))) + 1 = p + Len(Pair(t))
<1> DEFINE a == AvroString(t.name)
           b == AvroString(t.value)
           c == Pair(t)
           q == p + Len(a)
<1>1. /\ t.name \in Seq(Nat) /\ t.value \in Seq(Nat) /\ a \in Seq(Nat) /\ b \in Seq(Nat)
      /\ c \in Seq(Nat) /\ Len(c) = Len(a) + Len(b) /\ At(c, 1, a) /\ At(c, Len(a) + 1, b)
  BY PairForm
<1>2. At(bytes, p, c)
  OBVIOUS
<1> HIDE DEF c
<1>3. At(bytes, p, a)
  <2> HIDE DEF a
  <2>1. At(bytes, p - 1 + 1, a)
    BY <1>1, <1>2, AtWithin
  <2>2. p - 1 + 1 = p
    OBVIOUS
  <2> QED
    BY <2>1, <2>2
<1>4. At(bytes, q, b)
  <2> HIDE DEF a, b
  <2>1. Len(a) + 1 \in Nat
    BY <1>1
  <2>2. At(bytes, p - 1 + (Len(a) + 1), b)
    BY <1>1, <1>2, <2>1, AtWithin
  <2>3. p - 1 + (Len(a) + 1) = q
    BY <1>1
  <2> QED
    BY <2>2, <2>3
<1>5. StringEnd(bytes, p) = p - 1 + Len(a) /\ StringAt(bytes, p) = t.name
  BY <1>1, <1>3, StringReadsBack
<1>6. q \in Nat
  BY <1>1
<1> HIDE DEF q
<1>7. StringEnd(bytes, q) = q - 1 + Len(b) /\ StringAt(bytes, q) = t.value
  BY <1>1, <1>4, <1>6, StringReadsBack
<1> HIDE DEF a, b
<1>8. p - 1 + Len(a) + 1 = p + Len(a) /\ q - 1 + Len(b) + 1 = p + Len(c)
  BY <1>1 DEF q
<1> QED
  BY <1>5, <1>7, <1>8 DEF a, b, c, q

(* What encodeAvroTags() writes of tags there are *)
LEMMA TagsForm ==
  ASSUME NEW tags \in Seq(TagSpace), Len(tags) \in 1 .. 127
  PROVE  \E cat :
           /\ cat \in [0 .. Len(tags) -> Seq(Nat)] /\ cat[0] = <<>>
           /\ \A n \in 1 .. Len(tags) :
                /\ Len(cat[n]) = Len(cat[n - 1]) + Len(Pair(tags[n]))
                /\ At(cat[Len(tags)], Len(cat[n - 1]) + 1, Pair(tags[n]))
           /\ EncodeAvroTags(tags) = VarintLong(Len(tags)) \o cat[Len(tags)] \o VarintLong(0)
<1> DEFINE last == Len(tags)
           seqs == [n \in DOMAIN tags |-> Pair(tags[n])]
<1>1. last \in Nat /\ last \in 1 .. 127 /\ DOMAIN tags = 1 .. last
  OBVIOUS
<1>2. \A n \in 1 .. last : tags[n] \in TagSpace /\ Pair(tags[n]) \in Seq(Nat)
  <2>1. \A n \in 1 .. last : tags[n] \in TagSpace
    OBVIOUS
  <2> QED
    BY <2>1, PairForm, Zenon
<1>3. seqs \in Seq(Seq(Nat)) /\ Len(seqs) = last /\ Len(seqs) >= 1
  BY <1>1, <1>2
<1>4. \A n \in 1 .. last : seqs[n] = Pair(tags[n])
  BY <1>1
<1>5. EncodeAvroTags(tags) = VarintLong(last) \o FlattenSeq(seqs) \o VarintLong(0)
  <2>1. tags # <<>>
    BY <1>1
  <2>2. ~(Len(tags) > 127)
    <3>1. \A k \in 1 .. 127 : ~(k > 127)
      OBVIOUS
    <3> QED
      BY <1>1, <3>1, Zenon
  <2> QED
    BY <2>1, <2>2, Zenon DEF EncodeAvroTags, Pair
<1> HIDE DEF last, seqs
<1>6. PICK cat : Joined(cat, seqs, Nat) /\ FlattenSeq(seqs) = cat[Len(seqs)]
  BY <1>3, FlattenJoins
<1>7. /\ cat \in [0 .. last -> Seq(Nat)] /\ cat[0] = <<>>
      /\ \A n \in 1 .. last : cat[n] = cat[n - 1] \o seqs[n]
  BY <1>3, <1>6 DEF Joined
<1>8. ASSUME NEW n \in 1 .. last
      PROVE  /\ Len(cat[n]) = Len(cat[n - 1]) + Len(Pair(tags[n]))
             /\ At(cat[last], Len(cat[n - 1]) + 1, Pair(tags[n]))
  <2>1. n - 1 \in 0 .. last
    BY <1>1
  <2>2. cat[n - 1] \in Seq(Nat) /\ Pair(tags[n]) \in Seq(Nat) /\ cat[n] = cat[n - 1] \o Pair(tags[n])
    BY <1>2, <1>4, <1>7, <2>1, Zenon
  <2>3. Len(cat[n]) = Len(cat[n - 1]) + Len(Pair(tags[n]))
    BY <2>2
  <2>4. n \in 1 .. Len(seqs)
    BY <1>3
  <2>5. At(cat[last], Len(cat[n - 1]) + 1, seqs[n])
    BY <1>3, <1>6, <2>4, JoinedAt
  <2> QED
    BY <1>4, <2>3, <2>5
<1> QED
  BY <1>3, <1>5, <1>6, <1>7, <1>8 DEF last

(* The even places and the odd ones *)
LEMMA Halves ==
  ASSUME NEW k \in Nat, NEW m \in 1 .. 2 * k
  PROVE  /\ m % 2 = 0 => \E n \in 1 .. k : m = 2 * n
         /\ m % 2 # 0 => \E n \in 1 .. k : m = 2 * n - 1
<1>1. ASSUME m % 2 = 0 PROVE m \div 2 \in 1 .. k /\ m = 2 * (m \div 2)
  BY <1>1
<1>2. ASSUME m % 2 # 0 PROVE (m + 1) \div 2 \in 1 .. k /\ m = 2 * ((m + 1) \div 2) - 1
  BY <1>2
<1> QED
  BY <1>1, <1>2

(* Half of them is what they are twice of, or next to it *)
LEMMA Halved ==
  ASSUME NEW n \in Nat, n >= 1
  PROVE  /\ (2 * n) % 2 = 0 /\ (2 * n) \div 2 = n
         /\ (2 * n - 1) % 2 # 0 /\ (2 * n - 1 + 1) \div 2 = n
         /\ (2 * n - 2) % 2 = 0 /\ (2 * n - 2) \div 2 = n - 1
  OBVIOUS

(* encodeAvroTags() loses nothing: its reader finds the tags it was given *)
THEOREM TagsReadBack ==
  ASSUME NEW tags \in Seq(TagSpace), Len(tags) \in 1 .. 127
  PROVE  /\ EncodeAvroTags(tags) \in Seq(Nat) /\ EncodeAvroTags(tags) # <<>>
         /\ ReadTags(EncodeAvroTags(tags)) = tags
<1> DEFINE last == Len(tags)
           head == VarintLong(last)
           tail == VarintLong(0)
<1>1. /\ last \in Nat /\ last >= 1
      /\ tags = [n \in 1 .. last |-> tags[n]] /\ \A n \in 1 .. last : tags[n] \in TagSpace
  <2>1. last \in Nat /\ last >= 1
    <3>1. \A k \in 1 .. 127 : k \in Nat /\ k >= 1
      OBVIOUS
    <3> QED
      BY <3>1, Zenon
  <2>2. tags = [n \in 1 .. last |-> tags[n]]
    OBVIOUS
  <2>3. \A n \in 1 .. last : tags[n] \in TagSpace
    OBVIOUS
  <2> QED
    BY <2>1, <2>2, <2>3
<1>a. last \in Nat /\ last >= 1
  BY <1>1
<1>2. PICK cat :
        /\ cat \in [0 .. last -> Seq(Nat)] /\ cat[0] = <<>>
        /\ \A n \in 1 .. last :
             /\ Len(cat[n]) = Len(cat[n - 1]) + Len(Pair(tags[n]))
             /\ At(cat[last], Len(cat[n - 1]) + 1, Pair(tags[n]))
        /\ EncodeAvroTags(tags) = head \o cat[last] \o tail
  BY TagsForm
<1> DEFINE flat == cat[last]
           bytes == head \o flat \o tail
           place(n) == Len(head) + Len(cat[n]) + 1
           middle(n) == place(n - 1) + Len(AvroString(tags[n].name))
<1>3. head \in Seq(Nat) /\ tail \in Seq(Nat) /\ Len(head) >= 1
  BY <1>1, LongForm
<1> HIDE DEF last, head, tail
<1>4. flat \in Seq(Nat) /\ \A n \in 0 .. last : cat[n] \in Seq(Nat) /\ Len(cat[n]) \in Nat
  BY <1>1, <1>2
<1> HIDE DEF flat
<1>5. head \o flat \in Seq(Nat) /\ bytes \in Seq(Nat) /\ Len(bytes) >= 1
  BY <1>3, <1>4
<1>6. At(bytes, 1, head)
  <2>1. At(head, 1, head)
    BY <1>3 DEF At
  <2>2. At(head \o flat, 1, head)
    BY <1>3, <1>4, <2>1, AtBefore
  <2> QED
    BY <1>3, <1>5, <2>2, AtBefore
<1>7. LongEnd(bytes, 1) = Len(head) /\ LongAt(bytes, 1) = last
  <2>1. At(bytes, 1, VarintLong(last))
    BY <1>6 DEF head
  <2>2. LongEnd(bytes, 1) = 1 - 1 + Len(head) /\ LongAt(bytes, 1) = last
    <3> HIDE DEF bytes
    <3> QED
      BY <1>1, <1>5, <2>1, LongReadsBack DEF head
  <2> QED
    BY <1>3, <2>2
<1>8. ASSUME NEW n \in 1 .. last
      PROVE  /\ tags[n] \in TagSpace /\ place(n - 1) \in Nat /\ At(bytes, place(n - 1), Pair(tags[n]))
             /\ place(n - 1) + Len(Pair(tags[n])) = place(n)
  <2>1. n - 1 \in 0 .. last /\ n \in 0 .. last /\ tags[n] \in TagSpace
    BY <1>1
  <2>2. cat[n - 1] \in Seq(Nat) /\ Len(cat[n - 1]) \in Nat /\ Pair(tags[n]) \in Seq(Nat)
    BY <1>4, <2>1, PairForm, Zenon
  <2>3. Len(cat[n - 1]) + 1 \in Nat /\ Len(head) \in Nat
    BY <1>3, <2>2
  <2>4. At(flat, Len(cat[n - 1]) + 1, Pair(tags[n]))
    BY <1>2 DEF flat
  <2>5. At(head \o flat, Len(head) + (Len(cat[n - 1]) + 1), Pair(tags[n]))
    BY <1>3, <1>4, <2>2, <2>3, <2>4, AtAfter
  <2>6. Len(head) + (Len(cat[n - 1]) + 1) = place(n - 1) /\ place(n - 1) \in Nat
    BY <2>2, <2>3
  <2>7. place(n - 1) + Len(Pair(tags[n])) = place(n)
    <3>1. Len(cat[n]) = Len(cat[n - 1]) + Len(Pair(tags[n]))
      BY <1>2, Zenon
    <3>2. Len(Pair(tags[n])) \in Nat /\ Len(cat[n - 1]) \in Nat
      BY <2>2
    <3>3. \A h, a, b \in Nat : h + a + 1 + b = h + (a + b) + 1
      OBVIOUS
    <3>4. Len(head) \in Nat
      BY <2>3
    <3>5. Len(head) + Len(cat[n - 1]) + 1 + Len(Pair(tags[n]))
            = Len(head) + (Len(cat[n - 1]) + Len(Pair(tags[n]))) + 1
      BY <3>2, <3>3, <3>4, Zenon
    <3> QED
      BY <3>1, <3>5, Zenon
  <2> HIDE DEF place
  <2>8. At(bytes, place(n - 1), Pair(tags[n]))
    BY <1>3, <1>5, <2>2, <2>5, <2>6, AtBefore
  <2> QED
    BY <2>1, <2>6, <2>7, <2>8
<1>9. ASSUME NEW n \in 1 .. last
      PROVE  /\ StringAt(bytes, place(n - 1)) = tags[n].name
             /\ StringEnd(bytes, place(n - 1)) + 1 = middle(n)
             /\ StringAt(bytes, middle(n)) = tags[n].value
             /\ StringEnd(bytes, middle(n)) + 1 = place(n)
  <2> HIDE DEF bytes, place
  <2> QED
    BY <1>5, <1>8, PairReadsBack
<1>10. place(0) = LongEnd(bytes, 1) + 1
  <2>1. Len(cat[0]) = 0 /\ Len(head) \in Nat
    BY <1>2, <1>3
  <2> HIDE DEF bytes
  <2> QED
    BY <1>7, <2>1
<1> HIDE DEF bytes, place, middle
<1> DEFINE to(n, f) == IF n = 0 THEN LongEnd(bytes, 1) + 1 ELSE StringEnd(bytes, f[n - 1]) + 1
           Is(f) == f = [n \in 0 .. 2 * last |-> to(n, f)]
           start == CHOOSE f : Is(f)
           w == [m \in 0 .. 2 * last |->
                   IF m % 2 = 0 THEN place(m \div 2) ELSE middle((m + 1) \div 2)]
<1>11. ReadTags(bytes) = [n \in 1 .. last |-> [name |-> StringAt(bytes, start[2 * n - 2]),
                                               value |-> StringAt(bytes, start[2 * n - 1])]]
  BY <1>7, Zenon DEF ReadTags
<1>12. Is(w)
  <2>1. ASSUME NEW m \in 0 .. 2 * last PROVE w[m] = to(m, w)
    <3>1. CASE m = 0
      <4>1. w[0] = place(0)
        BY <1>1
      <4> HIDE DEF w
      <4> QED
        BY <1>10, <3>1, <4>1
    <3>2. CASE m # 0 /\ m % 2 = 0
      <4>1. PICK n \in 1 .. last : m = 2 * n
        BY <1>1, <3>2, Halves
      <4>2. w[m] = place(n)
        BY <4>1
      <4>3. w[m - 1] = middle(n)
        <5>1. n \in Nat /\ n >= 1 /\ m - 1 = 2 * n - 1
          BY <1>a, <4>1
        <5>2. m - 1 \in 0 .. 2 * last
          BY <1>a, <4>1
        <5>3. (m - 1) % 2 # 0 /\ (m - 1 + 1) \div 2 = n
          BY <5>1, Halved, Zenon
        <5> QED
          BY <5>2, <5>3
      <4> HIDE DEF w
      <4> QED
        BY <1>9, <3>2, <4>1, <4>2, <4>3
    <3>3. CASE m # 0 /\ m % 2 # 0
      <4>1. PICK n \in 1 .. last : m = 2 * n - 1
        BY <1>1, <3>3, Halves
      <4>2. w[m] = middle(n)
        <5>1. m % 2 # 0 /\ (m + 1) \div 2 = n
          BY <4>1, <3>3
        <5> QED
          BY <5>1
      <4>3. w[m - 1] = place(n - 1)
        <5>1. n \in Nat /\ n >= 1 /\ m - 1 = 2 * n - 2
          BY <1>a, <4>1
        <5>2. m - 1 \in 0 .. 2 * last
          BY <1>a, <4>1
        <5>3. (m - 1) % 2 = 0 /\ (m - 1) \div 2 = n - 1
          BY <5>1, Halved, Zenon
        <5> QED
          BY <5>2, <5>3
      <4> HIDE DEF w
      <4> QED
        BY <1>9, <3>3, <4>1, <4>2, <4>3
    <3> QED
      BY <3>1, <3>2, <3>3
  <2> HIDE DEF to
  <2>2. w = [m \in 0 .. 2 * last |-> w[m]]
    OBVIOUS
  <2> HIDE DEF w
  <2> QED
    BY <2>1, <2>2
<1>13. Is(start)
  <2> HIDE DEF Is, w
  <2> QED
    BY <1>12
<1> HIDE DEF start, w
<1>14. \A m \in 0 .. 2 * last : start[m] = to(m, start)
  <2> HIDE DEF to
  <2> QED
    BY <1>13
<1> DEFINE S == {n \in 0 .. last : /\ start[2 * n] = place(n)
                                   /\ n >= 1 => start[2 * n - 2] = place(n - 1)
                                   /\ n >= 1 => start[2 * n - 1] = middle(n)}
<1>15. Inductive(S, last)
  <2>1. 0 \in S
    <3>1. 0 \in 0 .. 2 * last /\ 2 * 0 = 0 /\ 0 \in 0 .. last
      BY <1>1
    <3>2. start[0] = place(0)
      BY <1>10, <1>14, <3>1
    <3> QED
      BY <3>1, <3>2
  <2>2. ASSUME NEW n \in 1 .. last, n - 1 \in S PROVE n \in S
    <3>1. /\ 2 * n - 1 \in 0 .. 2 * last /\ 2 * n \in 0 .. 2 * last
          /\ 2 * n # 0 /\ 2 * n - 1 # 0 /\ 2 * n - 1 - 1 = 2 * n - 2 /\ 2 * (n - 1) = 2 * n - 2
          /\ n \in 0 .. last
      BY <1>1
    <3>2. start[2 * n - 2] = place(n - 1)
      BY <2>2, <3>1
    <3>3. start[2 * n - 1] = middle(n)
      <4>1. start[2 * n - 1] = StringEnd(bytes, start[2 * n - 1 - 1]) + 1
        BY <1>14, <3>1, Zenon
      <4> QED
        BY <1>9, <3>1, <3>2, <4>1, Zenon
    <3>4. start[2 * n] = place(n)
      <4>1. start[2 * n] = StringEnd(bytes, start[2 * n - 1]) + 1
        BY <1>14, <3>1, Zenon
      <4> QED
        BY <1>9, <3>3, <4>1, Zenon
    <3> QED
      BY <3>1, <3>2, <3>3, <3>4
  <2> HIDE DEF S
  <2> QED
    BY <2>1, <2>2 DEF Inductive
<1>16. \A n \in 0 .. last : n \in S
  <2> HIDE DEF S
  <2> QED
    BY <1>1, <1>15, Induction
<1>17. ASSUME NEW n \in 1 .. last
       PROVE  [name |-> StringAt(bytes, start[2 * n - 2]), value |-> StringAt(bytes, start[2 * n - 1])]
                = tags[n]
  <2>1. n \in 0 .. last /\ n >= 1
    BY <1>1
  <2>2. start[2 * n - 2] = place(n - 1) /\ start[2 * n - 1] = middle(n)
    BY <1>16, <2>1
  <2>3. StringAt(bytes, start[2 * n - 2]) = tags[n].name /\ StringAt(bytes, start[2 * n - 1]) = tags[n].value
    BY <1>9, <2>2
  <2>4. tags[n] = [name |-> tags[n].name, value |-> tags[n].value]
    BY <1>1 DEF TagSpace
  <2> QED
    BY <2>3, <2>4, Zenon
<1>18. ReadTags(bytes) = tags
  BY <1>1, <1>11, <1>17, Zenon
<1>19. bytes # <<>>
  BY <1>5
<1> QED
  BY <1>2, <1>5, <1>18, <1>19 DEF bytes, flat

(***************************************************************************)
(* buildTags()                                                             *)
(***************************************************************************)

(* A text is as long as it says *)
LEMMA TextForm ==
  ASSUME NEW n \in Nat, NEW byte \in Nat
  PROVE  Text(n, byte) \in Seq(Nat) /\ Len(Text(n, byte)) = n
  BY DEF Text

(* Every name makes a tag of a value *)
LEMMA TagForm ==
  ASSUME NEW name \in DOMAIN TagName, NEW value \in Seq(Nat)
  PROVE  Tag(name, value) \in TagSpace
<1>1. \A n \in DOMAIN TagName : TagName[n] \in Seq(Nat)
  <2>1. /\ Text(12, 1) \in Seq(Nat) /\ Text(8, 2) \in Seq(Nat) /\ Text(11, 3) \in Seq(Nat)
        /\ Text(11, 4) \in Seq(Nat) /\ Text(5, 5) \in Seq(Nat) /\ Text(12, 6) \in Seq(Nat)
    BY TextForm
  <2> QED
    BY <2>1 DEF TagName
<1> QED
  BY <1>1 DEF Tag, TagSpace

(* An option adds a tag where it is given *)
LEMMA OptionalForm ==
  ASSUME NEW name \in DOMAIN TagName, NEW option, IsOption(option)
  PROVE  /\ Optional(name, option) \in Seq(TagSpace) /\ Len(Optional(name, option)) \in 0 .. 1
         /\ Range(Optional(name, option)) = {Tag(name, v) : v \in option}
<1> DEFINE S == {Tag(name, v) : v \in option}
           f == CHOOSE g \in [1 .. Cardinality(S) -> S] : IsInjective(g)
<1>1. Optional(name, option) = f
  BY DEF Optional, SetToSeq
<1>2. S \subseteq TagSpace
  BY TagForm DEF IsOption
<1>3. S = {} \/ \E x \in S : S = {x}
  BY DEF IsOption
<1> HIDE DEF S
<1>4. CASE S = {}
  <2>1. Cardinality(S) = 0
    BY <1>4, FS_EmptySet
  <2>2. [i \in 1 .. 0 |-> i] \in [1 .. 0 -> S] /\ IsInjective([i \in 1 .. 0 |-> i])
    BY DEF IsInjective
  <2>3. f \in [1 .. 0 -> S]
    BY <2>1, <2>2
  <2> HIDE DEF f
  <2>4. f \in Seq(TagSpace) /\ Len(f) = 0 /\ DOMAIN f = {}
    BY <1>2, <2>3
  <2>5. Range(f) = S
    BY <1>4, <2>4 DEF Range
  <2> QED
    BY <1>1, <2>4, <2>5 DEF S
<1>5. CASE \E x \in S : S = {x}
  <2>1. PICK x \in S : S = {x}
    BY <1>5
  <2>2. Cardinality(S) = 1
    BY <2>1, FS_Singleton
  <2>3. [i \in 1 .. 1 |-> x] \in [1 .. 1 -> S] /\ IsInjective([i \in 1 .. 1 |-> x])
    BY DEF IsInjective
  <2>4. f \in [1 .. 1 -> S]
    BY <2>2, <2>3
  <2> HIDE DEF f
  <2>5. f \in Seq(TagSpace) /\ Len(f) = 1 /\ DOMAIN f = {1} /\ f[1] = x
    BY <1>2, <2>1, <2>4
  <2>6. Range(f) = S
    BY <2>1, <2>5 DEF Range
  <2> QED
    BY <1>1, <2>5, <2>6 DEF S
<1> QED
  BY <1>3, <1>4, <1>5

(* What is in two sequences is in the one of both *)
Both(c, s, t, X) ==
  c \in Seq(X) /\ Len(c) = Len(s) + Len(t) /\ Range(c) = Range(s) \cup Range(t)

(* So it is of any two sequences over one set *)
LEMMA RangeParts ==
  ASSUME NEW X, NEW s \in Seq(X), NEW t \in Seq(X)
  PROVE  Both(s \o t, s, t, X)
<1>1. s \o t \in Seq(X) /\ Len(s \o t) = Len(s) + Len(t)
  OBVIOUS
<1>2. ASSUME NEW i \in DOMAIN (s \o t) PROVE (s \o t)[i] \in Range(s) \cup Range(t)
  BY DEF Range
<1>3. ASSUME NEW i \in DOMAIN s PROVE s[i] \in Range(s \o t)
  <2>1. i \in DOMAIN (s \o t) /\ (s \o t)[i] = s[i]
    OBVIOUS
  <2> QED
    BY <2>1 DEF Range
<1>4. ASSUME NEW i \in DOMAIN t PROVE t[i] \in Range(s \o t)
  <2>1. Len(s) + i \in DOMAIN (s \o t) /\ (s \o t)[Len(s) + i] = t[i]
    OBVIOUS
  <2> QED
    BY <2>1 DEF Range
<1>5. /\ \A e \in Range(s \o t) : e \in Range(s) \cup Range(t)
      /\ \A e \in Range(s) : e \in Range(s \o t)
      /\ \A e \in Range(t) : e \in Range(s \o t)
  BY <1>2, <1>3, <1>4 DEF Range
<1> QED
  BY <1>1, <1>5 DEF Both

(* The tags an envelope should have, at least one and few of them *)
TagsSay(tags, environment, scope, contentHash) ==
  /\ tags \in Seq(TagSpace) /\ Len(tags) \in 1 .. 127
  /\ Range(tags) = Range(Fixed) \cup {Tag("environment", environment)}
                     \cup {Tag("scope", Sha256Hex(s)) : s \in scope}
                     \cup {Tag("contentHash", h) : h \in contentHash}

(* buildTags() makes them *)
LEMMA BuildTagsForm ==
  ASSUME NEW environment \in Seq(Nat), NEW scope, NEW contentHash, IsOption(scope),
         IsOption(contentHash), BuildTags(environment, scope, contentHash) # Refused
  PROVE  TagsSay(BuildTags(environment, scope, contentHash), environment, scope, contentHash)
<1> DEFINE hashes == {Sha256Hex(s) : s \in scope}
           e == <<Tag("environment", environment)>>
           o == Optional("scope", hashes)
           h == Optional("contentHash", contentHash)
<1>1. BuildTags(environment, scope, contentHash) = Fixed \o e \o o \o h /\ <<>> \notin scope
  BY DEF BuildTags, Refused
<1>2. {"contentType", "appName", "appVersion", "environment", "scope", "contentHash"} \subseteq DOMAIN TagName
  BY DEF TagName
<1>3. IsOption(hashes)
  <2>1. ASSUME NEW s \in scope PROVE Sha256Hex(s) \in Seq(Nat)
    <3>1. s[1] \in Nat
      BY <1>1 DEF IsOption
    <3> QED
      BY <3>1, TextForm DEF Sha256Hex
  <2> QED
    BY <2>1 DEF IsOption
<1>4. Fixed \in Seq(TagSpace) /\ Len(Fixed) = 3
  <2>1. /\ Text(16, 7) \in Seq(Nat) /\ Text(11, 8) \in Seq(Nat) /\ Text(14, 9) \in Seq(Nat)
    BY TextForm
  <2>2. /\ Tag("contentType", Text(16, 7)) \in TagSpace /\ Tag("appName", Text(11, 8)) \in TagSpace
        /\ Tag("appVersion", Text(14, 9)) \in TagSpace
    BY <1>2, <2>1, TagForm
  <2> QED
    BY <2>2 DEF Fixed
<1>5. e \in Seq(TagSpace) /\ Len(e) = 1 /\ Range(e) = {Tag("environment", environment)}
  <2>1. Tag("environment", environment) \in TagSpace
    BY <1>2, TagForm
  <2> QED
    BY <2>1 DEF Range
<1>6. /\ o \in Seq(TagSpace) /\ Len(o) \in 0 .. 1 /\ Range(o) = {Tag("scope", v) : v \in hashes}
  BY <1>2, <1>3, OptionalForm
<1>7. /\ h \in Seq(TagSpace) /\ Len(h) \in 0 .. 1 /\ Range(h) = {Tag("contentHash", v) : v \in contentHash}
  BY <1>2, OptionalForm
<1>8. {Tag("scope", v) : v \in hashes} = {Tag("scope", Sha256Hex(s)) : s \in scope}
  OBVIOUS
<1> HIDE DEF e, o, h, hashes
<1> DEFINE a == Fixed \o e
           b == a \o o
           c == b \o h
<1>9. Both(a, Fixed, e, TagSpace)
  BY <1>4, <1>5, RangeParts, Zenon
<1> HIDE DEF a
<1>10. Both(b, a, o, TagSpace)
  <2>1. a \in Seq(TagSpace) /\ o \in Seq(TagSpace)
    BY <1>6, <1>9 DEF Both
  <2> QED
    BY <2>1, RangeParts, Zenon
<1> HIDE DEF b
<1>11. Both(c, b, h, TagSpace)
  <2>1. b \in Seq(TagSpace) /\ h \in Seq(TagSpace)
    BY <1>7, <1>10 DEF Both
  <2> QED
    BY <2>1, RangeParts, Zenon
<1> HIDE DEF c
<1>12. Len(c) \in 1 .. 127
  <2>1. Len(Fixed) = 3 /\ Len(e) = 1 /\ Len(o) \in 0 .. 1 /\ Len(h) \in 0 .. 1
    BY <1>4, <1>5, <1>6, <1>7
  <2>2. Len(c) = Len(Fixed) + Len(e) + Len(o) + Len(h)
    BY <1>9, <1>10, <1>11, Zenon DEF Both
  <2>3. \A w, z, x, y : w = 3 /\ z = 1 /\ x \in 0 .. 1 /\ y \in 0 .. 1 => w + z + x + y \in 1 .. 127
    OBVIOUS
  <2>4. Len(Fixed) + Len(e) + Len(o) + Len(h) \in 1 .. 127
    BY <2>1, <2>3, Zenon
  <2> QED
    BY <2>2, <2>4, Zenon
<1>13. BuildTags(environment, scope, contentHash) = c
  BY <1>1, Zenon DEF a, b, c
<1> QED
  BY <1>5, <1>6, <1>7, <1>8, <1>9, <1>10, <1>11, <1>12, <1>13 DEF TagsSay, Both

(***************************************************************************)
(* buildSignedDataItem()                                                   *)
(***************************************************************************)

(* There is room for what fits in a byte *)
LEMMA SmallFits ==
  ASSUME NEW n \in 0 .. 255, NEW width \in Nat, width >= 1
  PROVE  Fits(n, width)
<1>0. PICK base \in Bases : base = 256
  BY DEF Bases
<1> DEFINE left == Shifted(n, base, width)
           S == {i \in 0 .. width : i >= 1 => left[i] = 0}
<1>1. n \in Nat /\ n < base /\ 0 < base /\ 0 \in Nat
  BY <1>0
<1>2. /\ left \in [0 .. width -> Nat] /\ left[0] = n
      /\ \A i \in 1 .. width : left[i] = left[i - 1] \div base
  <2>1. n \in Nat
    BY <1>1
  <2>2. Leaves(Shifted(n, base, width), n, base, width)
    BY <2>1, ShiftedForm, Zenon
  <2> QED
    BY <2>2, Zenon DEF Leaves
<1> HIDE DEF left
<1>3. n \div base = 0 /\ 0 \div base = 0
  BY <1>1, Division, Zenon
<1>4. 0 \in S
  OBVIOUS
<1>5. ASSUME NEW i \in 1 .. width, i - 1 \in S PROVE i \in S
  <2>1. left[i - 1] = n \/ left[i - 1] = 0
    <3>1. CASE i = 1
      <4>1. i - 1 = 0
        BY <3>1
      <4> QED
        BY <1>2, <4>1, Zenon
    <3>2. CASE i # 1
      <4>1. i - 1 >= 1
        BY <3>2
      <4> QED
        BY <1>5, <4>1
    <3> QED
      BY <3>1, <3>2
  <2>2. left[i] = 0
    BY <1>2, <1>3, <2>1, Zenon
  <2> QED
    BY <2>2
<1>6. Inductive(S, width)
  <2> HIDE DEF S
  <2> QED
    BY <1>4, <1>5 DEF Inductive
<1>7. width \in S
  <2> HIDE DEF S
  <2> QED
    BY <1>6, Induction
<1> QED
  BY <1>0, <1>7 DEF Fits, left

(* ... and is read back *)
LEMMA ByteReadsBack ==
  ASSUME NEW n \in 0 .. 255, NEW width \in Nat, width > 0
  PROVE  Field(LittleEndian(n, width), n, width)
<1>1. n \in Nat /\ width >= 1
  OBVIOUS
<1>2. Fits(n, width)
  BY <1>1, SmallFits
<1> QED
  BY <1>1, <1>2, LittleEndianReadsBack, Zenon

(* The eight parts of b are where the parts before them end *)
Laid(b, p1, p2, p3, p4, p5, p6, p7, p8) ==
  LET e2 == Len(p1) + Len(p2)
      e3 == e2 + Len(p3)
      e4 == e3 + Len(p4)
      e5 == e4 + Len(p5)
      e6 == e5 + Len(p6)
      e7 == e6 + Len(p7)
  IN /\ Len(b) = e7 + Len(p8)
     /\ At(b, 1, p1) /\ At(b, Len(p1) + 1, p2) /\ At(b, e2 + 1, p3) /\ At(b, e3 + 1, p4)
     /\ At(b, e4 + 1, p5) /\ At(b, e5 + 1, p6) /\ At(b, e6 + 1, p7) /\ At(b, e7 + 1, p8)

(* The parts of an item follow on each other *)
LEMMA Layout ==
  ASSUME NEW X, NEW p1 \in Seq(X), NEW p2 \in Seq(X), NEW p3 \in Seq(X), NEW p4 \in Seq(X),
         NEW p5 \in Seq(X), NEW p6 \in Seq(X), NEW p7 \in Seq(X), NEW p8 \in Seq(X)
  PROVE  LET b == p1 \o p2 \o p3 \o p4 \o p5 \o p6 \o p7 \o p8
         IN b \in Seq(X) /\ Laid(b, p1, p2, p3, p4, p5, p6, p7, p8)
<1> DEFINE b2 == p1 \o p2
           b3 == b2 \o p3
           b4 == b3 \o p4
           b5 == b4 \o p5
           b6 == b5 \o p6
           b7 == b6 \o p7
           b8 == b7 \o p8
           seqs == <<p1, p2, p3, p4, p5, p6, p7, p8>>
           cat == [k \in 0 .. 8 |-> IF k = 0 THEN <<>> ELSE <<p1, b2, b3, b4, b5, b6, b7, b8>>[k]]
<1>1. seqs \in Seq(Seq(X)) /\ Len(seqs) = 8
  OBVIOUS
<1>2. b2 \in Seq(X) /\ Len(b2) = Len(p1) + Len(p2)
  OBVIOUS
<1> HIDE DEF b2
<1>3. b3 \in Seq(X) /\ Len(b3) = Len(b2) + Len(p3)
  BY <1>2, AtParts, Zenon
<1> HIDE DEF b3
<1>4. b4 \in Seq(X) /\ Len(b4) = Len(b3) + Len(p4)
  BY <1>3, AtParts, Zenon
<1> HIDE DEF b4
<1>5. b5 \in Seq(X) /\ Len(b5) = Len(b4) + Len(p5)
  BY <1>4, AtParts, Zenon
<1> HIDE DEF b5
<1>6. b6 \in Seq(X) /\ Len(b6) = Len(b5) + Len(p6)
  BY <1>5, AtParts, Zenon
<1> HIDE DEF b6
<1>7. b7 \in Seq(X) /\ Len(b7) = Len(b6) + Len(p7)
  BY <1>6, AtParts, Zenon
<1> HIDE DEF b7
<1>8. b8 \in Seq(X) /\ Len(b8) = Len(b7) + Len(p8)
  BY <1>7, AtParts, Zenon
<1> HIDE DEF b8
<1>9. /\ cat[0] = <<>> /\ cat[1] = p1 /\ cat[2] = b2 /\ cat[3] = b3 /\ cat[4] = b4
      /\ cat[5] = b5 /\ cat[6] = b6 /\ cat[7] = b7 /\ cat[8] = b8
  OBVIOUS
<1>10. cat \in [0 .. 8 -> Seq(X)]
  <2>1. \A k \in 0 .. 8 : cat[k] \in Seq(X)
    <3>1. <<>> \in Seq(X)
      OBVIOUS
    <3>2. \A k \in 0 .. 8 : k = 0 \/ k = 1 \/ k = 2 \/ k = 3 \/ k = 4 \/ k = 5 \/ k = 6 \/ k = 7 \/ k = 8
      OBVIOUS
    <3> HIDE DEF cat
    <3> QED
      BY <1>2, <1>3, <1>4, <1>5, <1>6, <1>7, <1>8, <1>9, <3>1, <3>2, Zenon
  <2> QED
    BY <2>1
<1>11. /\ seqs[1] = p1 /\ seqs[2] = p2 /\ seqs[3] = p3 /\ seqs[4] = p4
       /\ seqs[5] = p5 /\ seqs[6] = p6 /\ seqs[7] = p7 /\ seqs[8] = p8
  OBVIOUS
<1>12. <<>> \o p1 = p1
  OBVIOUS
<1> HIDE DEF cat, seqs
<1>13. \A k \in 1 .. 8 : cat[k] = cat[k - 1] \o seqs[k]
  <2>1. \A k \in 1 .. 8 : k = 1 \/ k = 2 \/ k = 3 \/ k = 4 \/ k = 5 \/ k = 6 \/ k = 7 \/ k = 8
    OBVIOUS
  <2>2. /\ 1 - 1 = 0 /\ 2 - 1 = 1 /\ 3 - 1 = 2 /\ 4 - 1 = 3 /\ 5 - 1 = 4 /\ 6 - 1 = 5 /\ 7 - 1 = 6
        /\ 8 - 1 = 7
    OBVIOUS
  <2>3. /\ cat[1] = cat[0] \o seqs[1] /\ cat[2] = cat[1] \o seqs[2] /\ cat[3] = cat[2] \o seqs[3]
        /\ cat[4] = cat[3] \o seqs[4] /\ cat[5] = cat[4] \o seqs[5] /\ cat[6] = cat[5] \o seqs[6]
        /\ cat[7] = cat[6] \o seqs[7] /\ cat[8] = cat[7] \o seqs[8]
    BY <1>9, <1>11, <1>12, Zenon DEF b2, b3, b4, b5, b6, b7, b8
  <2>4. ASSUME NEW k \in 1 .. 8 PROVE cat[k] = cat[k - 1] \o seqs[k]
    <3>1. CASE k = 1
      BY <2>2, <2>3, <3>1, Zenon
    <3>2. CASE k = 2
      BY <2>2, <2>3, <3>2, Zenon
    <3>3. CASE k = 3
      BY <2>2, <2>3, <3>3, Zenon
    <3>4. CASE k = 4
      BY <2>2, <2>3, <3>4, Zenon
    <3>5. CASE k = 5
      BY <2>2, <2>3, <3>5, Zenon
    <3>6. CASE k = 6
      BY <2>2, <2>3, <3>6, Zenon
    <3>7. CASE k = 7
      BY <2>2, <2>3, <3>7, Zenon
    <3>8. CASE k = 8
      BY <2>2, <2>3, <3>8, Zenon
    <3> QED
      BY <2>1, <3>1, <3>2, <3>3, <3>4, <3>5, <3>6, <3>7, <3>8, Zenon
  <2> QED
    BY <2>4, Zenon
<1>14. Joined(cat, seqs, X)
  BY <1>1, <1>9, <1>10, <1>13 DEF Joined
<1>15. \A k \in 1 .. 8 : At(cat[8], Len(cat[k - 1]) + 1, seqs[k])
  BY <1>1, <1>14, JoinedAt
<1>16. /\ At(b8, 0 + 1, p1) /\ At(b8, Len(p1) + 1, p2) /\ At(b8, Len(b2) + 1, p3)
       /\ At(b8, Len(b3) + 1, p4) /\ At(b8, Len(b4) + 1, p5) /\ At(b8, Len(b5) + 1, p6)
       /\ At(b8, Len(b6) + 1, p7) /\ At(b8, Len(b7) + 1, p8)
  <2>1. Len(cat[0]) = 0
    BY <1>9
  <2>2. /\ At(cat[8], Len(cat[0]) + 1, seqs[1]) /\ At(cat[8], Len(cat[1]) + 1, seqs[2])
        /\ At(cat[8], Len(cat[2]) + 1, seqs[3]) /\ At(cat[8], Len(cat[3]) + 1, seqs[4])
        /\ At(cat[8], Len(cat[4]) + 1, seqs[5]) /\ At(cat[8], Len(cat[5]) + 1, seqs[6])
        /\ At(cat[8], Len(cat[6]) + 1, seqs[7]) /\ At(cat[8], Len(cat[7]) + 1, seqs[8])
    BY <1>15
  <2> QED
    BY <1>9, <1>11, <2>1, <2>2, Zenon
<1>17. 0 + 1 = 1
  OBVIOUS
<1>18. b8 = p1 \o p2 \o p3 \o p4 \o p5 \o p6 \o p7 \o p8
  BY Zenon DEF b2, b3, b4, b5, b6, b7, b8
<1> QED
  BY <1>2, <1>3, <1>4, <1>5, <1>6, <1>7, <1>8, <1>16, <1>17, <1>18, Zenon DEF Laid

(* A number of two bytes, as txIdFromDataItem() adds it up *)
LEMMA TwoDigits ==
  ASSUME NEW d \in Seq(Nat), Len(d) = 2
  PROVE  Number(d, 256) = d[1] + 256 * d[2]
<1>3. d[1] \in Nat /\ d[2] \in Nat
  <2>1. 1 \in 1 .. Len(d) /\ 2 \in 1 .. Len(d)
    OBVIOUS
  <2> QED
    BY <2>1, Element, Zenon
<1>0. PICK base \in Bases : base = 256
  BY DEF Bases
<1>1. PICK last \in [0 .. Len(d) -> Nat] : AddsUp(last, d, base) /\ Number(d, base) = last[Len(d)]
  BY NumberForm, Zenon
<1>2. last[0] = 0 /\ last[1] = d[2] + 256 * last[0] /\ last[2] = d[1] + 256 * last[1]
  BY <1>0, <1>1 DEF AddsUp
<1>4. last[2] = d[1] + 256 * d[2]
  BY <1>2, <1>3
<1> QED
  BY <1>0, <1>1, <1>4

(* A sequence over a set is one over any wider set *)
LEMMA WiderSeq ==
  ASSUME NEW X
  PROVE  \A q \in Seq(Nat) : q \in Seq(Nat \cup {X})
  OBVIOUS

(* What buildSignedDataItem() returns when it does not throw *)
LEMMA ItemForm ==
  ASSUME NEW wallet, NEW data, NEW tags, BuildSignedDataItem(wallet, data, tags) # Refused
  PROVE  LET avroTags == EncodeAvroTags(tags)
             signature == Sign(wallet, DeepHash(wallet.sigType, wallet.owner, avroTags, data))
         IN /\ ConfigSupported(wallet)
            /\ Len(wallet.owner) = wallet.ownerLength /\ Len(signature) = wallet.sigLength
            /\ BuildSignedDataItem(wallet, data, tags) =
                 LittleEndian(wallet.sigType, 2) \o signature \o wallet.owner \o <<0, 0>>
                   \o LittleEndian(Len(tags), 8) \o LittleEndian(Len(avroTags), 8) \o avroTags \o data
<1> DEFINE avroTags == EncodeAvroTags(tags)
           signature == Sign(wallet, DeepHash(wallet.sigType, wallet.owner, avroTags, data))
           item == LittleEndian(wallet.sigType, 2) \o signature \o wallet.owner \o <<0, 0>>
                     \o LittleEndian(Len(tags), 8) \o LittleEndian(Len(avroTags), 8) \o avroTags \o data
           throws == \/ data = <<>> \/ ~ConfigSupported(wallet) \/ avroTags = Refused
                     \/ Len(wallet.owner) # wallet.ownerLength \/ Len(signature) # wallet.sigLength
<1>1. BuildSignedDataItem(wallet, data, tags) = IF throws THEN Refused ELSE item
  BY Zenon DEF BuildSignedDataItem
<1>2. ~throws /\ BuildSignedDataItem(wallet, data, tags) = item
  <2> HIDE DEF throws, item
  <2> QED
    BY <1>1
<1> QED
  BY <1>2, Zenon

(* The widths of a wallet that is supported *)
LEMMA Widths ==
  ASSUME NEW wallet, ConfigSupported(wallet)
  PROVE  /\ wallet.sigType \in 0 .. 255
         /\ SigConfig[wallet.sigType].sigLength = wallet.sigLength
         /\ SigConfig[wallet.sigType].ownerLength = wallet.ownerLength
         /\ wallet.sigLength \in Nat /\ wallet.sigLength >= 1 /\ wallet.ownerLength \in Nat
<1>1. wallet.sigType = 1 \/ wallet.sigType = 2
  BY DEF ConfigSupported, SigConfig
<1>2. SigConfig[wallet.sigType] = [sigLength |-> wallet.sigLength, ownerLength |-> wallet.ownerLength]
  BY DEF ConfigSupported
<1>3. /\ SigConfig[1] = [sigLength |-> 512, ownerLength |-> 512]
      /\ SigConfig[2] = [sigLength |-> 64, ownerLength |-> 32]
  BY DEF SigConfig
<1>4. /\ SigConfig[wallet.sigType].sigLength = wallet.sigLength
      /\ SigConfig[wallet.sigType].ownerLength = wallet.ownerLength
  BY <1>2
<1>5. /\ SigConfig[wallet.sigType].sigLength \in {64, 512}
      /\ SigConfig[wallet.sigType].ownerLength \in {32, 512}
  BY <1>1, <1>3
<1> QED
  BY <1>1, <1>4, <1>5

(* A reader finds in the item what went into it, a signature that verifies, *)
(* and in that the id that was predicted                                    *)
ReadsBack(item, wallet, data, tags) ==
  LET read == ReadItem(item)
  IN /\ SignatureVerifies(read) /\ read.owner = wallet.owner
     /\ read.tagCount = Len(tags) /\ read.tags = tags /\ read.data = data
     /\ read.signature = TxIdFromDataItem(item)

(* buildSignedDataItem() makes such items, with a wallet of either type,  *)
(* of any data and of as many tags as Avro's one block takes              *)
THEOREM ItemReadsBack ==
  ASSUME NEW wallet, NEW data \in Seq(Nat), NEW tags \in Seq(TagSpace), Len(tags) \in 1 .. 127,
         wallet.owner \in Seq(Nat), wallet.signs \in Nat, Fits(Len(EncodeAvroTags(tags)), 8),
         BuildSignedDataItem(wallet, data, tags) # Refused
  PROVE  ReadsBack(BuildSignedDataItem(wallet, data, tags), wallet, data, tags)
<1> DEFINE avroTags == EncodeAvroTags(tags)
           deepHash == DeepHash(wallet.sigType, wallet.owner, avroTags, data)
           signature == Sign(wallet, deepHash)
           owner == wallet.owner
           type == wallet.sigType
           p1 == LittleEndian(type, 2)
           p5 == LittleEndian(Len(tags), 8)
           p6 == LittleEndian(Len(avroTags), 8)
           absent == <<0, 0>>
           item == p1 \o signature \o owner \o absent \o p5 \o p6 \o avroTags \o data
           signed == [key |-> wallet.owner, signed |-> deepHash]
           X == Nat \cup {signed}
<1>1. avroTags \in Seq(Nat) /\ ReadTags(avroTags) = tags
  BY TagsReadBack
<1>2. /\ ConfigSupported(wallet) /\ Len(owner) = wallet.ownerLength
      /\ Len(signature) = wallet.sigLength /\ BuildSignedDataItem(wallet, data, tags) = item
  BY ItemForm, Zenon
<1>3. /\ type \in 0 .. 255 /\ SigConfig[type].sigLength = Len(signature)
      /\ SigConfig[type].ownerLength = Len(owner)
      /\ Len(signature) \in Nat /\ Len(signature) >= 1 /\ Len(owner) \in Nat
  BY <1>2, Widths, Zenon
<1>4. Len(avroTags) \in Nat /\ Fits(Len(avroTags), 8) /\ owner \in Seq(Nat) /\ Len(tags) \in 0 .. 255
  <2> DEFINE n == Len(tags)
  <2>1. n \in 1 .. 127
    OBVIOUS
  <2>2. n \in 0 .. 255
    <3> HIDE DEF n
    <3> QED
      BY <2>1
  <2>3. owner \in Seq(Nat) /\ Fits(Len(avroTags), 8)
    OBVIOUS
  <2>4. Len(avroTags) \in Nat
    BY <1>1
  <2> QED
    BY <2>2, <2>3, <2>4, Zenon
<1>5. signature \in Seq(X) /\ signature[1] = signed
  <2>1. signature = [i \in 1 .. wallet.signs |-> IF i = 1 THEN signed ELSE i]
    BY Zenon DEF Sign
  <2> HIDE DEF signed
  <2>a. \A n \in Nat : [i \in 1 .. n |-> IF i = 1 THEN signed ELSE i] \in Seq(Nat \cup {signed})
    OBVIOUS
  <2>b. \A n \in Nat : Len([i \in 1 .. n |-> IF i = 1 THEN signed ELSE i]) = n
    OBVIOUS
  <2>2. signature \in Seq(X) /\ Len(signature) = wallet.signs
    BY <2>1, <2>a, <2>b, Zenon
  <2>3. 1 \in 1 .. wallet.signs
    <3> HIDE DEF signature
    <3> QED
      BY <1>3, <2>2
  <2> QED
    BY <2>1, <2>2, <2>3
<1> HIDE DEF signature
<1>6. p1 \in Seq(Nat) /\ Len(p1) = 2 /\ Number(p1, 256) = type
  <2>1. 2 \in Nat /\ 2 > 0
    OBVIOUS
  <2>2. type \in 0 .. 255
    BY <1>3
  <2>3. Field(LittleEndian(type, 2), type, 2)
    BY <2>1, <2>2, ByteReadsBack, Zenon
  <2> QED
    BY <2>3, Zenon DEF Field
<1>7. p5 \in Seq(Nat) /\ Len(p5) = 8 /\ Number(p5, 256) = Len(tags)
  <2> DEFINE n == Len(tags)
  <2>1. 8 \in Nat /\ 8 > 0
    OBVIOUS
  <2>2. n \in 0 .. 255
    BY <1>4, Zenon
  <2> HIDE DEF n
  <2>3. Field(LittleEndian(n, 8), n, 8)
    BY <2>1, <2>2, ByteReadsBack, Zenon
  <2>4. Field(p5, Len(tags), 8)
    BY <2>3, Zenon DEF n
  <2> QED
    BY <2>4, Zenon DEF Field
<1>8. p6 \in Seq(Nat) /\ Len(p6) = 8 /\ Number(p6, 256) = Len(avroTags)
  <2> DEFINE n == Len(avroTags)
  <2>1. Fits(n, 8) /\ n \in Nat
    BY <1>4, Zenon
  <2>2. 8 \in Nat /\ 8 > 0
    OBVIOUS
  <2> HIDE DEF n
  <2>3. Field(LittleEndian(n, 8), n, 8)
    BY <2>1, <2>2, LittleEndianReadsBack, Zenon
  <2> QED
    BY <2>3, Zenon DEF n, Field
<1>9. absent \in Seq(Nat) /\ Len(absent) = 2
  OBVIOUS
<1> HIDE DEF avroTags, deepHash, owner, type, p1, p5, p6, absent, signed
<1> DEFINE b == p1 \o signature \o owner \o absent \o p5 \o p6 \o avroTags \o data
           s == Len(signature)
           o == Len(owner)
           t == Len(avroTags)
<1>10. \A q \in Seq(Nat) : q \in Seq(X)
  BY WiderSeq
<1>11. /\ p1 \in Seq(X) /\ owner \in Seq(X) /\ absent \in Seq(X) /\ p5 \in Seq(X) /\ p6 \in Seq(X)
       /\ avroTags \in Seq(X) /\ data \in Seq(X)
  BY <1>1, <1>4, <1>6, <1>7, <1>8, <1>9, <1>10, Zenon
<1> HIDE DEF X
<1>12. b \in Seq(X) /\ Laid(b, p1, signature, owner, absent, p5, p6, avroTags, data)
  BY <1>5, <1>11, Layout, Zenon
<1>13. s \in Nat /\ o \in Nat /\ t \in Nat /\ Len(data) \in Nat
  <2>1. Len(data) \in Nat
    OBVIOUS
  <2> QED
    BY <1>3, <1>4, <2>1, Zenon DEF s, o, t
<1> HIDE DEF b, s, o, t
<1>14. /\ b \in Seq(X) /\ Len(b) = s + o + t + 20 + Len(data)
       /\ At(b, 1, p1) /\ At(b, 3, signature) /\ At(b, s + 3, owner)
       /\ At(b, s + o + 5, p5) /\ At(b, s + o + 13, p6) /\ At(b, s + o + 21, avroTags)
       /\ At(b, s + o + t + 21, data)
  <2>1. /\ Len(p1) = 2 /\ Len(absent) = 2 /\ Len(p5) = 8 /\ Len(p6) = 8
    BY <1>6, <1>7, <1>8, <1>9
  <2>2. /\ 2 + 1 = 3 /\ 2 + s + 1 = s + 3
        /\ 2 + s + o + 2 + 1 = s + o + 5 /\ 2 + s + o + 2 + 8 + 1 = s + o + 13
        /\ 2 + s + o + 2 + 8 + 8 + 1 = s + o + 21
        /\ 2 + s + o + 2 + 8 + 8 + t + 1 = s + o + t + 21
        /\ 2 + s + o + 2 + 8 + 8 + t + Len(data) = s + o + t + 20 + Len(data)
    BY <1>13
  <2> QED
    BY <1>12, <2>1, <2>2, Zenon DEF s, o, t, Laid
<1>15. /\ SubSeq(b, 1, 2) = p1 /\ SubSeq(b, 3, s + 2) = signature
       /\ SubSeq(b, s + 3, s + o + 2) = owner
       /\ SubSeq(b, s + o + 5, s + o + 12) = p5 /\ SubSeq(b, s + o + 13, s + o + 20) = p6
       /\ SubSeq(b, s + o + 21, s + o + t + 20) = avroTags
       /\ SubSeq(b, s + o + t + 21, s + o + t + 20 + Len(data)) = data
  <2> DEFINE f1 == 1
             f2 == 3
             f3 == s + 3
             f5 == s + o + 5
             f6 == s + o + 13
             f7 == s + o + 21
             f8 == s + o + t + 21
  <2>1. /\ f1 \in Nat /\ f2 \in Nat /\ f3 \in Nat /\ f5 \in Nat /\ f6 \in Nat /\ f7 \in Nat /\ f8 \in Nat
    BY <1>13
  <2>2. /\ f1 - 1 + 2 = 2 /\ f2 - 1 + s = s + 2 /\ f3 - 1 + o = s + o + 2
        /\ f5 - 1 + 8 = s + o + 12 /\ f6 - 1 + 8 = s + o + 20
        /\ f7 - 1 + t = s + o + t + 20 /\ f8 - 1 + Len(data) = s + o + t + 20 + Len(data)
    BY <1>13
  <2>3. /\ At(b, f1, p1) /\ At(b, f2, signature) /\ At(b, f3, owner) /\ At(b, f5, p5)
        /\ At(b, f6, p6) /\ At(b, f7, avroTags) /\ At(b, f8, data)
    BY <1>14
  <2>4. /\ Len(p1) = 2 /\ Len(signature) = s /\ Len(owner) = o /\ Len(p5) = 8 /\ Len(p6) = 8
        /\ Len(avroTags) = t
    BY <1>6, <1>7, <1>8 DEF s, o, t
  <2>b. \A f \in Nat, q \in Seq(X) : At(b, f, q) => SubSeq(b, f, f - 1 + Len(q)) = q
    BY <1>12, CutOut, Zenon
  <2> HIDE DEF f1, f2, f3, f5, f6, f7, f8
  <2>5. SubSeq(b, f1, f1 - 1 + Len(p1)) = p1
    BY <1>5, <1>11, <2>1, <2>3, <2>b, Zenon
  <2>6. SubSeq(b, f2, f2 - 1 + Len(signature)) = signature
    BY <1>5, <1>11, <2>1, <2>3, <2>b, Zenon
  <2>7. SubSeq(b, f3, f3 - 1 + Len(owner)) = owner
    BY <1>5, <1>11, <2>1, <2>3, <2>b, Zenon
  <2>8. SubSeq(b, f5, f5 - 1 + Len(p5)) = p5
    BY <1>5, <1>11, <2>1, <2>3, <2>b, Zenon
  <2>9. SubSeq(b, f6, f6 - 1 + Len(p6)) = p6
    BY <1>5, <1>11, <2>1, <2>3, <2>b, Zenon
  <2>10. SubSeq(b, f7, f7 - 1 + Len(avroTags)) = avroTags
    BY <1>5, <1>11, <2>1, <2>3, <2>b, Zenon
  <2>11. SubSeq(b, f8, f8 - 1 + Len(data)) = data
    BY <1>5, <1>11, <2>1, <2>3, <2>b, Zenon
  <2>12. /\ SubSeq(b, f1, 2) = p1 /\ SubSeq(b, f2, s + 2) = signature
         /\ SubSeq(b, f3, s + o + 2) = owner
         /\ SubSeq(b, f5, s + o + 12) = p5 /\ SubSeq(b, f6, s + o + 20) = p6
         /\ SubSeq(b, f7, s + o + t + 20) = avroTags
         /\ SubSeq(b, f8, s + o + t + 20 + Len(data)) = data
    BY <2>2, <2>4, <2>5, <2>6, <2>7, <2>8, <2>9, <2>10, <2>11, Zenon
  <2> QED
    BY <2>12, Zenon DEF f1, f2, f3, f5, f6, f7, f8
<1> DEFINE sigType == Number(SubSeq(b, 1, 2), 256)
           ownerAt == 3 + SigConfig[sigType].sigLength
           countsAt == ownerAt + SigConfig[sigType].ownerLength + 2
           tagsAt == countsAt + 16
           dataAt == tagsAt + Number(SubSeq(b, countsAt + 8, tagsAt - 1), 256)
           read == ReadItem(b)
<1>16. read = [sigType |-> sigType,
               signature |-> SubSeq(b, 3, ownerAt - 1),
               owner |-> SubSeq(b, ownerAt, countsAt - 3),
               tagCount |-> Number(SubSeq(b, countsAt, countsAt + 7), 256),
               avroTags |-> SubSeq(b, tagsAt, dataAt - 1),
               tags |-> ReadTags(SubSeq(b, tagsAt, dataAt - 1)),
               data |-> SubSeq(b, dataAt, Len(b))]
  BY Zenon DEF ReadItem
<1>17. sigType = type
  BY <1>6, <1>15, Zenon
<1>18. ownerAt = 3 + s /\ countsAt = 3 + s + o + 2
  BY <1>3, <1>17, Zenon DEF s, o
<1> HIDE DEF sigType, ownerAt
<1>19. ownerAt = s + 3 /\ ownerAt - 1 = s + 2
  BY <1>13, <1>18
<1> HIDE DEF countsAt
<1>20. /\ countsAt = s + o + 5 /\ countsAt - 3 = s + o + 2 /\ countsAt + 7 = s + o + 12
       /\ countsAt + 8 = s + o + 13
  BY <1>13, <1>18
<1>21. tagsAt = s + o + 21 /\ tagsAt - 1 = s + o + 20
  BY <1>13, <1>20
<1> HIDE DEF tagsAt
<1>22. dataAt = s + o + 21 + t
  BY <1>8, <1>15, <1>20, <1>21, Zenon DEF t
<1> HIDE DEF dataAt
<1>23. dataAt = s + o + t + 21 /\ dataAt - 1 = s + o + t + 20
  BY <1>13, <1>22
<1> HIDE DEF read
<1>24. read.sigType = type /\ read.signature = signature /\ read.owner = owner
  BY <1>15, <1>16, <1>17, <1>19, <1>20, Zenon
<1>25. read.avroTags = avroTags /\ read.tags = tags
  BY <1>1, <1>15, <1>16, <1>21, <1>23, Zenon
<1>26. read.tagCount = Len(tags) /\ read.data = data
  BY <1>7, <1>14, <1>15, <1>16, <1>20, <1>23, Zenon
<1>27. SignatureVerifies(read)
  <2>1. read.signature[1] = [key |-> owner, signed |-> deepHash]
    BY <1>5, <1>24, Zenon DEF signed, owner
  <2>2. deepHash = <<Text(8, 10), <<49>>, <<48 + type>>, owner, <<>>, <<>>, avroTags, data>>
    BY Zenon DEF deepHash, DeepHash, SigTypeText, owner, type, avroTags
  <2> QED
    BY <1>24, <1>25, <1>26, <2>1, <2>2, Zenon DEF SignatureVerifies
<1>28. BuildSignedDataItem(wallet, data, tags) = b
  BY <1>2, Zenon DEF b
<1>29. TxIdFromDataItem(b) = signature
  <2>1. p1[1] + 256 * p1[2] = type
    BY <1>6, TwoDigits, Zenon
  <2>2. 1 - 1 + 1 = 1 /\ 1 - 1 + 2 = 2 /\ 1 \in 1 .. 2 /\ 2 \in 1 .. 2
    OBVIOUS
  <2>a. \A k \in 1 .. 2 : b[1 - 1 + k] = p1[k]
    BY <1>6, <1>14, Zenon DEF At
  <2>b. b[1 - 1 + 1] = p1[1] /\ b[1 - 1 + 2] = p1[2]
    BY <2>2, <2>a, Zenon
  <2>3. b[1] = p1[1] /\ b[2] = p1[2]
    BY <2>2, <2>b, Zenon
  <2>4. TxIdFromDataItem(b) = SubSeq(b, 3, 2 + SigConfig[b[1] + 256 * b[2]].sigLength)
    BY Zenon DEF TxIdFromDataItem
  <2>5. 2 + s = s + 2
    BY <1>13
  <2>6. TxIdFromDataItem(b) = SubSeq(b, 3, 2 + SigConfig[type].sigLength)
    BY <2>1, <2>3, <2>4, Zenon
  <2>7. SigConfig[type].sigLength = s
    BY <1>3, Zenon DEF s
  <2> QED
    BY <1>15, <2>5, <2>6, <2>7, Zenon
<1> QED
  BY <1>24, <1>25, <1>26, <1>27, <1>28, <1>29, Zenon DEF read, owner, ReadsBack

(***************************************************************************)
(* What anchorEnvelopeBytes() builds                                       *)
(***************************************************************************)

(* The tags of an upload, and what is built of them and its envelope *)
TagsOf(c, i) == BuildTags(Configs[c].environment, Configs[c].scope, Content[i].hash)

(* Every item that anchorEnvelopeBytes() builds reads back *)
LEMMA BuiltReadsBack ==
  ASSUME NEW c \in DOMAIN Configs, NEW i \in Items, DataItemOf[c][i] # Refused
  PROVE  /\ TagsSay(TagsOf(c, i), Configs[c].environment, Configs[c].scope, Content[i].hash)
         /\ ReadsBack(DataItemOf[c][i], Configs[c].wallet, Content[i].envelope, TagsOf(c, i))
<1> DEFINE w == Configs[c].wallet
           scope == Configs[c].scope
           envelope == Content[i].envelope
           hash == Content[i].hash
           tags == TagsOf(c, i)
           item == BuildSignedDataItem(w, envelope, tags)
<1>1. /\ Configs[c].environment \in Seq(Nat) /\ IsOption(scope) /\ w.owner \in Seq(Nat) /\ w.signs \in Nat
      /\ envelope \in Seq(Nat) /\ IsOption(hash) /\ Fits(Len(EncodeAvroTags(tags)), 8)
  BY InputAssumption, Zenon DEF TagsOf
<1>2. tags # Refused /\ DataItemOf[c][i] = item /\ item # Refused
  <2>1. DataItemOf[c][i] = IF tags = Refused THEN Refused ELSE item
    BY DEF DataItemOf, BuildUpload, TagsOf
  <2> HIDE DEF tags, item
  <2> QED
    BY <2>1
<1>3. TagsSay(tags, Configs[c].environment, scope, hash)
  BY <1>1, <1>2, BuildTagsForm, Zenon DEF TagsOf
<1>4. tags \in Seq(TagSpace) /\ Len(tags) \in 1 .. 127
  BY <1>3, Zenon DEF TagsSay
<1> HIDE DEF tags
<1>5. ReadsBack(item, Configs[c].wallet, envelope, tags)
  BY <1>1, <1>2, <1>4, ItemReadsBack, Zenon
<1> QED
  BY <1>2, <1>3, <1>5, Zenon DEF tags

(* ... and is one its readers verify *)
LEMMA BuiltVerifies ==
  ASSUME NEW c \in DOMAIN Configs, NEW i \in Items, DataItemOf[c][i] # Refused
  PROVE  Verified[c][i]
<1> DEFINE read == ReadItem(DataItemOf[c][i])
           tags == TagsOf(c, i)
<1>1. /\ TagsSay(tags, Configs[c].environment, Configs[c].scope, Content[i].hash)
      /\ ReadsBack(DataItemOf[c][i], Configs[c].wallet, Content[i].envelope, tags)
  BY BuiltReadsBack, Zenon
<1> HIDE DEF tags
<1>2. Range(tags) = Range(Fixed) \cup {Tag("environment", Configs[c].environment)}
                      \cup {Tag("scope", Sha256Hex(s)) : s \in Configs[c].scope}
                      \cup {Tag("contentHash", h) : h \in Content[i].hash}
  BY <1>1, Zenon DEF TagsSay
<1>3. /\ SignatureVerifies(read) /\ read.owner = Configs[c].wallet.owner
      /\ read.tagCount = Len(tags) /\ read.tags = tags /\ read.data = Content[i].envelope
  BY <1>1, Zenon DEF ReadsBack
<1> HIDE DEF read
<1>4. Verifies(read, Configs[c], i)
  BY <1>2, <1>3, Zenon DEF Verifies
<1>5. Verified[c][i] = (DataItemOf[c][i] # Refused /\ Verifies(ReadItem(DataItemOf[c][i]), Configs[c], i))
  BY Zenon DEF Verified
<1> QED
  BY <1>4, <1>5, Zenon DEF read

(* The id that txIdFromDataItem() predicts is the one the network gives    *)
(* the item, and the one it gives no other: TXID_MISMATCH means that the   *)
(* answer was for another upload                                           *)
THEOREM IdsArePredicted ==
  ASSUME NEW c \in DOMAIN Configs, NEW i \in Items, NEW j \in Items,
         DataItemOf[c][i] # Refused, DataItemOf[c][j] # Refused
  PROVE  NetworkId[c][j] = TxIdFromDataItem(DataItemOf[c][i]) <=> i = j
<1> DEFINE sign(k) == ReadItem(DataItemOf[c][k]).signature
<1>1. ASSUME NEW k \in Items, DataItemOf[c][k] # Refused
      PROVE  /\ NetworkId[c][k] = sign(k) /\ sign(k) = TxIdFromDataItem(DataItemOf[c][k])
             /\ sign(k)[1].signed[8] = Content[k].envelope
  <2> DEFINE read == ReadItem(DataItemOf[c][k])
  <2>1. ReadsBack(DataItemOf[c][k], Configs[c].wallet, Content[k].envelope, TagsOf(c, k))
    BY <1>1, BuiltReadsBack, Zenon
  <2>2. /\ SignatureVerifies(read) /\ read.data = Content[k].envelope
        /\ read.signature = TxIdFromDataItem(DataItemOf[c][k])
    BY <2>1, Zenon DEF ReadsBack
  <2>3. NetworkId[c][k] = read.signature
    <3>1. NetworkId[c][k] = IF DataItemOf[c][k] = Refused THEN Refused ELSE read.signature
      BY Zenon DEF NetworkId
    <3> HIDE DEF read
    <3> QED
      BY <1>1, <3>1
  <2> HIDE DEF read
  <2>4. read.signature[1].signed[8] = read.data
    BY <2>2 DEF SignatureVerifies
  <2> QED
    BY <2>2, <2>3, <2>4, Zenon DEF read
<1> HIDE DEF sign
<1>2. ASSUME sign(j) = sign(i) PROVE i = j
  <2>1. sign(i)[1].signed[8] = Content[i].envelope /\ sign(j)[1].signed[8] = Content[j].envelope
    BY <1>1, Zenon
  <2>2. Content[i].envelope = Content[j].envelope
    BY <1>2, <2>1, Zenon
  <2> QED
    BY <2>2, UploaderAssumption
<1> QED
  BY <1>1, <1>2, Zenon

(***************************************************************************)
(* What upload() does with the answers                                     *)
(***************************************************************************)

Built(i) == DataItemOf[config][i] # Refused

(* Only what could be built is posted and accepted, and the answer an      *)
(* upload compares with its own id names an accepted item                  *)
IdInv ==
  \A i \in Items :
    /\ phase[i] \in {"ready", "sent", "sleep", "compare"} => Built(i)
    /\ posts[i] > 0 => Built(i)
    /\ i \in accepted => Built(i)
    /\ phase[i] = "compare" => got[i] \in accepted
    /\ result[i] = "anchored" => i \in accepted

(* The posts so far are those of the attempts so far *)
PostInv ==
  \A i \in Items :
    /\ phase[i] = "idle" => attempt[i] = 0 /\ posts[i] = 0
    /\ phase[i] \in {"ready", "sleep"} => posts[i] = attempt[i]
    /\ phase[i] \in {"sent", "compare"} => posts[i] = attempt[i] + 1
    /\ posts[i] <= attempt[i] + 1
    /\ phase[i] = "done" \/ result[i] = "none"
    /\ result[i] = "UPLOAD_FAILED" => attempt[i] = maxRetries /\ posts[i] = maxRetries + 1
    /\ result[i] = "UPLOAD_FAILED" => seen[i] \subseteq Temporary

Inv == TypeOK /\ IdInv /\ SettledOnce /\ PostInv

(* What upload() does with an answer: it retries after a temporary one, it *)
(* ends with one of its errors, or it compares the id                      *)
LEMMA AnswerForms ==
  ASSUME NEW i \in Items, Answer(i)
  PROVE  \E a \in Answers :
           /\ Sees(i, a)
           /\ \/ a \in Temporary /\ Retry(i)
              \/ \E o \in {"UPLOAD_REJECTED", "SyntaxError", "FUNDING_EXHAUSTED"} : End(i, o)
              \/ AnswerId(i)
<1>1. CASE NetworkFault(i)  BY <1>1 DEF NetworkFault, Temporary, Answers
<1>2. CASE AnswerId(i)  BY <1>2 DEF AnswerId, Answers
<1>3. CASE AnswerNoId(i)  BY <1>3 DEF AnswerNoId, Answers
<1>4. CASE AnswerGarbled(i)  BY <1>4 DEF AnswerGarbled, Answers
<1>5. CASE AnswerStatus(i)
  <2>1. PICK s \in Statuses :
          /\ Sees(i, s)
          /\ \/ s = "402" /\ End(i, "FUNDING_EXHAUSTED")
             \/ Transient(s) /\ Retry(i)
             \/ s # "402" /\ ~Transient(s) /\ End(i, "UPLOAD_REJECTED")
    BY <1>5 DEF AnswerStatus
  <2>2. Transient(s) => s \in Temporary  BY DEF Transient, Temporary
  <2> QED  BY <2>1, <2>2 DEF Answers
<1> QED  BY <1>1, <1>2, <1>3, <1>4, <1>5 DEF Answer

(* The cases of a step *)
LEMMA Cases ==
  ASSUME NEW i \in Items, Start(i) \/ Accept(i) \/ Step(i)
  PROVE  \/ Start(i) \/ Accept(i) \/ Post(i) \/ Wake(i) \/ Compare(i) \/ AnswerId(i)
         \/ \E a \in Temporary : Sees(i, a) /\ Retry(i)
         \/ \E a \in Answers,
               o \in {"UPLOAD_REJECTED", "SyntaxError", "FUNDING_EXHAUSTED"} :
              Sees(i, a) /\ End(i, o)
  BY AnswerForms DEF Step

(* The invariant holds at first *)
LEMMA InitInv == Init => Inv
<1> SUFFICES ASSUME Init  PROVE Inv
  OBVIOUS
<1> USE DEF Init
<1>1. TypeOK  BY UploaderAssumption DEF TypeOK
<1>2. IdInv  BY DEF IdInv
<1>3. SettledOnce  BY DEF SettledOnce
<1>4. PostInv  BY DEF PostInv
<1> QED  BY <1>1, <1>2, <1>3, <1>4 DEF Inv

(* Every step keeps the types *)
LEMMA TypeStep ==
  ASSUME TypeOK, [Next]_vars
  PROVE  TypeOK'
<1> USE DEF TypeOK, options, upload, network
<1>0. Temporary \subseteq Answers /\ "id" \in Answers  BY DEF Temporary, Answers, Statuses
<1>1. CASE UNCHANGED vars  BY <1>1 DEF vars
<1>2. ASSUME NEW i \in Items, Start(i)  PROVE TypeOK'  BY <1>2 DEF Start, End
<1>3. ASSUME NEW i \in Items, Accept(i)  PROVE TypeOK'  BY <1>3 DEF Accept
<1>4. ASSUME NEW i \in Items, Post(i)  PROVE TypeOK'
  <2>1. posts' \in [Items -> Nat]  BY <1>4 DEF Post
  <2> QED  BY <1>4, <2>1 DEF Post
<1>5. ASSUME NEW i \in Items, Wake(i)  PROVE TypeOK'  BY <1>5 DEF Wake
<1>6. ASSUME NEW i \in Items, Compare(i)  PROVE TypeOK'  BY <1>6 DEF Compare, End
<1>7. ASSUME NEW i \in Items, AnswerId(i)  PROVE TypeOK'
  <2>1. PICK j \in accepted : got' = [got EXCEPT ![i] = j]  BY <1>7 DEF AnswerId
  <2> QED  BY <1>7, <1>0, <2>1 DEF AnswerId, Sees
<1>8. ASSUME NEW i \in Items, NEW a \in Temporary, Sees(i, a), Retry(i)  PROVE TypeOK'
  <2>1. attempt' \in [Items -> 0 .. maxRetries]
    BY <1>8 DEF Retry, End, LastAttempt, NextAttempt
  <2>2. seen' \in [Items -> SUBSET Answers]  BY <1>8, <1>0 DEF Sees
  <2>3. UNCHANGED <<options, posts, network>>  BY <1>8 DEF Sees
  <2>4. UNCHANGED got /\ (UNCHANGED result \/ result' = [result EXCEPT ![i] = "UPLOAD_FAILED"])
    BY <1>8 DEF Retry, End
  <2>5. phase' = [phase EXCEPT ![i] = "sleep"] \/ phase' = [phase EXCEPT ![i] = "done"]
    BY <1>8 DEF Retry, End
  <2> QED  BY <2>1, <2>2, <2>3, <2>4, <2>5
<1>9. ASSUME NEW i \in Items, NEW a \in Answers,
             NEW o \in {"UPLOAD_REJECTED", "SyntaxError", "FUNDING_EXHAUSTED"}, Sees(i, a), End(i, o)
      PROVE  TypeOK'
  BY <1>9 DEF Sees, End
<1> QED  BY Cases, <1>1, <1>2, <1>3, <1>4, <1>5, <1>6, <1>7, <1>8, <1>9 DEF Next

(* With one id per item, an answer that names the predicted one names it *)
LEMMA IdStep ==
  ASSUME TypeOK, IdInv, PostInv, [Next]_vars
  PROVE  IdInv'
<1> USE DEF TypeOK, IdInv, Built, options, upload, network
<1>1. CASE UNCHANGED vars  BY <1>1 DEF vars
<1>2. ASSUME NEW i \in Items, Start(i)  PROVE IdInv'
  BY <1>2 DEF Start, End
<1>3. ASSUME NEW i \in Items, Accept(i)  PROVE IdInv'  BY <1>3 DEF Accept
<1>4. ASSUME NEW i \in Items, Post(i)  PROVE IdInv'  BY <1>4 DEF Post
<1>5. ASSUME NEW i \in Items, Wake(i)  PROVE IdInv'  BY <1>5 DEF Wake
<1>6. ASSUME NEW i \in Items, Compare(i)  PROVE IdInv'
  <2>1. config \in DOMAIN Configs /\ got[i] \in accepted /\ got[i] \in Items /\ Built(i) /\ Built(got[i])
    BY <1>6 DEF Compare
  <2>a. ASSUME NEW j \in Items, DataItemOf[config][j] # Refused
        PROVE  NetworkId[config][j] = TxIdFromDataItem(DataItemOf[config][i]) => i = j
    BY <2>1, <2>a, IdsArePredicted
  <2>2. Predicted(i) => got[i] = i
    BY <2>1, <2>a, Zenon DEF Predicted
  <2> QED  BY <1>6, <2>1, <2>2 DEF Compare, End
<1>7. ASSUME NEW i \in Items, AnswerId(i)  PROVE IdInv'
  <2>1. PICK j \in accepted : got' = [got EXCEPT ![i] = j]  BY <1>7 DEF AnswerId
  <2> QED  BY <1>7, <2>1 DEF AnswerId, Sees
<1>8. ASSUME NEW i \in Items, NEW a \in Temporary, Sees(i, a), Retry(i)  PROVE IdInv'
  BY <1>8 DEF Sees, Retry, End
<1>9. ASSUME NEW i \in Items, NEW a \in Answers,
             NEW o \in {"UPLOAD_REJECTED", "SyntaxError", "FUNDING_EXHAUSTED"}, Sees(i, a), End(i, o)
      PROVE  IdInv'
  BY <1>9 DEF Sees, End
<1> QED  BY Cases, <1>1, <1>2, <1>3, <1>4, <1>5, <1>6, <1>7, <1>8, <1>9 DEF Next

(* No step posts what is settled *)
LEMMA SettledStep ==
  ASSUME TypeOK, SettledOnce, [Next]_vars
  PROVE  SettledOnce'
<1> USE DEF TypeOK, SettledOnce, options, upload, network
<1>1. CASE UNCHANGED vars  BY <1>1 DEF vars
<1>2. ASSUME NEW i \in Items, Start(i)  PROVE SettledOnce'  BY <1>2 DEF Start, End
<1>3. ASSUME NEW i \in Items, Accept(i)  PROVE SettledOnce'  BY <1>3 DEF Accept
<1>4. ASSUME NEW i \in Items, Post(i)  PROVE SettledOnce'  BY <1>4 DEF Post
<1>5. ASSUME NEW i \in Items, Wake(i)  PROVE SettledOnce'  BY <1>5 DEF Wake
<1>6. ASSUME NEW i \in Items, Compare(i)  PROVE SettledOnce'  BY <1>6 DEF Compare, End
<1>7. ASSUME NEW i \in Items, AnswerId(i)  PROVE SettledOnce'  BY <1>7 DEF AnswerId, Sees
<1>8. ASSUME NEW i \in Items, NEW a \in Temporary, Sees(i, a), Retry(i)  PROVE SettledOnce'
  BY <1>8 DEF Sees, Retry, End
<1>9. ASSUME NEW i \in Items, NEW a \in Answers,
             NEW o \in {"UPLOAD_REJECTED", "SyntaxError", "FUNDING_EXHAUSTED"}, Sees(i, a), End(i, o)
      PROVE  SettledOnce'
  BY <1>9 DEF Sees, End
<1> QED  BY Cases, <1>1, <1>2, <1>3, <1>4, <1>5, <1>6, <1>7, <1>8, <1>9 DEF Next

(* Every step counts its post as an attempt *)
LEMMA PostStep ==
  ASSUME TypeOK, SettledOnce, PostInv, [Next]_vars
  PROVE  PostInv'
<1> USE DEF TypeOK, PostInv, options, upload, network
<1>1. CASE UNCHANGED vars  BY <1>1 DEF vars
<1>2. ASSUME NEW i \in Items, Start(i)  PROVE PostInv'  BY <1>2 DEF Start, End
<1>3. ASSUME NEW i \in Items, Accept(i)  PROVE PostInv'  BY <1>3 DEF Accept
<1>4. ASSUME NEW i \in Items, Post(i)  PROVE PostInv'
  <2>1. posts[i] = attempt[i] /\ attempt[i] \in 0 .. maxRetries  BY <1>4 DEF Post
  <2>2. posts[i] <= maxRetries + 1  BY <2>1
  <2>3. posts' = [posts EXCEPT ![i] = posts[i] + 1]  BY <1>4, <2>2 DEF Post
  <2> QED  BY <1>4, <2>1, <2>3 DEF Post
<1>5. ASSUME NEW i \in Items, Wake(i)  PROVE PostInv'  BY <1>5 DEF Wake
<1>6. ASSUME NEW i \in Items, Compare(i)  PROVE PostInv'  BY <1>6 DEF Compare, End
<1>7. ASSUME NEW i \in Items, AnswerId(i)  PROVE PostInv'  BY <1>7 DEF AnswerId, Sees
<1>8. ASSUME NEW i \in Items, NEW a \in Temporary, Sees(i, a), Retry(i)  PROVE PostInv'
  <2>1. seen[i] \subseteq Temporary /\ seen'[i] \subseteq Temporary
    BY <1>8 DEF Sees, SettledOnce
  <2>2. attempt[i] \in 0 .. maxRetries /\ posts[i] = attempt[i] + 1
    BY <1>8 DEF Sees
  <2>3. CASE LastAttempt(i) /\ End(i, "UPLOAD_FAILED")
    <3>1. attempt[i] = maxRetries  BY <2>2, <2>3 DEF LastAttempt
    <3> QED  BY <1>8, <2>1, <2>2, <2>3, <3>1 DEF Sees, End
  <2>4. CASE ~LastAttempt(i)
    <3>1. attempt' = [attempt EXCEPT ![i] = attempt[i] + 1] /\ phase[i] # "done"
      BY <1>8, <2>4 DEF Sees, Retry, NextAttempt
    <3> QED  BY <1>8, <2>2, <2>4, <3>1 DEF Sees, Retry
  <2> QED  BY <1>8, <2>3, <2>4 DEF Retry
<1>9. ASSUME NEW i \in Items, NEW a \in Answers,
             NEW o \in {"UPLOAD_REJECTED", "SyntaxError", "FUNDING_EXHAUSTED"}, Sees(i, a), End(i, o)
      PROVE  PostInv'
  BY <1>9 DEF Sees, End
<1> QED  BY Cases, <1>1, <1>2, <1>3, <1>4, <1>5, <1>6, <1>7, <1>8, <1>9 DEF Next

(* The invariant holds in every reachable state *)
LEMMA Invariance == Spec => []Inv
<1>1. Init => Inv  BY InitInv
<1>2. Inv /\ [Next]_vars => Inv'  BY TypeStep, IdStep, SettledStep, PostStep DEF Inv
<1> QED  BY <1>1, <1>2, PTL DEF Spec

(* upload() and anchorEnvelopeBytes() keep their registers in range: the   *)
(* loop variable never passes maxRetries                                   *)
THEOREM TypeCorrect == Spec => []TypeOK
  BY Invariance, PTL DEF Inv

(* Whatever answers are lost, repeated or mixed up, anchorEnvelopeBytes()  *)
(* only succeeds for an item the network accepted under its own id         *)
THEOREM AnchoredMeansAccepted == Spec => []AnchoredAccepted
<1>1. Inv => AnchoredAccepted  BY DEF Inv, IdInv, AnchoredAccepted
<1> QED  BY <1>1, Invariance, PTL

(* upload() posts nothing more after an answer that settles it *)
THEOREM UploadsSettleOnce == Spec => []SettledOnce
  BY Invariance, PTL DEF Inv

(* UploadFailedError stands for maxRetries + 1 posts that all met a        *)
(* temporary fault, and no upload posts more often                         *)
THEOREM RetriesAreExhausted == Spec => []RetriesExhausted
<1>1. Inv => RetriesExhausted
  <2>1. ASSUME Inv, NEW i \in Items  PROVE posts[i] <= maxRetries + 1
    <3>1. attempt[i] \in 0 .. maxRetries /\ maxRetries \in Nat /\ posts[i] \in Nat
      BY <2>1 DEF Inv, TypeOK
    <3>2. posts[i] <= attempt[i] + 1  BY <2>1 DEF Inv, PostInv
    <3> QED  BY <3>1, <3>2
  <2> QED  BY <2>1 DEF Inv, PostInv, RetriesExhausted
<1> QED  BY <1>1, Invariance, PTL

(***************************************************************************)
(* What is accepted can be verified                                        *)
(***************************************************************************)

(* The network only accepts what anchorEnvelopeBytes() built *)
LEMMA ItemsStep ==
  ASSUME Inv, ItemsVerify, [Next]_vars
  PROVE  ItemsVerify'
<1> USE DEF ItemsVerify, options, upload, network
<1>1. CASE UNCHANGED vars  BY <1>1 DEF vars
<1>2. ASSUME NEW i \in Items, Start(i)  PROVE ItemsVerify'  BY <1>2 DEF Start
<1>3. ASSUME NEW i \in Items, Accept(i)  PROVE ItemsVerify'
  <2>1. config \in DOMAIN Configs /\ DataItemOf[config][i] # Refused
    BY <1>3 DEF Accept, Inv, TypeOK, IdInv, Built
  <2>2. Verified[config][i]
    BY <2>1, BuiltVerifies
  <2> QED
    BY <1>3, <2>2 DEF Accept
<1>4. ASSUME NEW i \in Items, Post(i)  PROVE ItemsVerify'  BY <1>4 DEF Post
<1>5. ASSUME NEW i \in Items, Wake(i)  PROVE ItemsVerify'  BY <1>5 DEF Wake
<1>6. ASSUME NEW i \in Items, Compare(i)  PROVE ItemsVerify'  BY <1>6 DEF Compare
<1>7. ASSUME NEW i \in Items, AnswerId(i)  PROVE ItemsVerify'  BY <1>7 DEF AnswerId, Sees
<1>8. ASSUME NEW i \in Items, NEW a \in Answers, Sees(i, a)  PROVE ItemsVerify'  BY <1>8 DEF Sees
<1>9. Temporary \subseteq Answers  BY DEF Temporary, Answers, Statuses
<1> QED  BY Cases, <1>1, <1>2, <1>3, <1>4, <1>5, <1>6, <1>7, <1>8, <1>9 DEF Next

(* Whatever is uploaded, of any length and with any tags, its readers      *)
(* verify: the bytes of buildSignedDataItem() and encodeAvroTags() hold    *)
(* what went into them, under a signature over just that                   *)
THEOREM ItemsAreVerifiable == Spec => []ItemsVerify
<1>1. Init => ItemsVerify  BY DEF Init, ItemsVerify
<1>2. Inv /\ ItemsVerify /\ [Next]_vars => ItemsVerify'  BY ItemsStep
<1> QED  BY <1>1, <1>2, Invariance, PTL DEF Spec
=============================================================================
