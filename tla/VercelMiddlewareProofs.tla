------------------------ MODULE VercelMiddlewareProofs ------------------------
(***************************************************************************)
(* The Vercel middleware, for any calls, keys and bound on the tracked     *)
(* chains: its map and its log agree, only idle chains are forgotten, and  *)
(* it implements EventChains.                                              *)
(***************************************************************************)
EXTENDS VercelMiddleware, FiniteSetTheorems, WellFoundedInduction, TLAPS

(* What an emission can make of the map and the log *)
Types == {"start", "end", "error"}

Committed(k) ==
  /\ \E c \in Calls, t \in Types :
       log' = Append(log, [call |-> c, key |-> k, type |-> t,
                           seq |-> Number(k), prev |-> Last(k)])
  /\ chains' = Bounded(Touched(k))

Unemitted == UNCHANGED <<chains, log>>

Emits == (Unemitted \/ \E k \in Keys : Committed(k)) /\ UNCHANGED <<maxTracked, key>>

(* Apart from the phases *)
MapTypes ==
  /\ maxTracked \in Limits
  /\ Tracked \subseteq Keys /\ IsFiniteSet(Tracked) /\ Cardinality(Tracked) <= maxTracked
  /\ chains \in [Tracked -> Entry]
  /\ \A k, l \in Tracked : chains[k].place = chains[l].place => k = l
  /\ log \in Seq([call : Calls, key : Keys, type : Types, seq : Nat, prev : Nat])
  /\ key \in [Calls -> Keys]

(* An entry is about the latest event of its chain, and stands where it did *)
MapInv ==
  \A k \in Tracked :
    /\ chains[k].last = chains[k].place
    /\ log[chains[k].last].key = k
    /\ \A i \in DOMAIN log : log[i].key = k => i <= chains[k].last

-----------------------------------------------------------------------------
(* Every step is an emission or leaves the map and the log alone *)
LEMMA StepsEmit ==
  ASSUME TypeOK, [Next]_vars
  PROVE  Emits
  <1>1. ASSUME NEW c \in Calls, NEW t \in Types, Emit(c, t) PROVE Emits
    <2>1. key[c] \in Keys
      BY DEF TypeOK
    <2> QED
      BY <1>1, <2>1 DEF Emit, Commit, Skip, Skipped, Emits, Committed, Unemitted
  <1>2. Quiet => Emits
    BY DEF Quiet, Emits, Unemitted
  <1>3. ASSUME NEW c \in Calls,
               \/ GenerateStarts(c) \/ GenerateEnds(c) \/ GenerateThrows(c)
               \/ StreamStarts(c) \/ StreamOpens(c) \/ StreamRefused(c)
               \/ ErrorPart(c) \/ StreamFlushes(c) \/ StreamAborts(c)
        PROVE  Quiet \/ \E t \in Types : Emit(c, t)
    BY <1>3 DEF GenerateStarts, GenerateEnds, GenerateThrows, StreamStarts, StreamOpens,
                StreamRefused, ErrorPart, StreamFlushes, StreamAborts, Types
  <1>4. Close => Emits
    BY DEF Close, Emits, Unemitted
  <1>5. UNCHANGED vars => Emits
    BY DEF vars, Emits, Unemitted
  <1> QED
    BY <1>1, <1>2, <1>3, <1>4, <1>5 DEF Next

(* keys().next() is an entry, and none is older *)
LEMMA FirstIsOldest ==
  ASSUME NEW map, DOMAIN map # {}, \A c \in DOMAIN map : map[c].place \in Nat
  PROVE  /\ First(map) \in DOMAIN map
         /\ \A d \in DOMAIN map : map[First(map)].place <= map[d].place
  <1> DEFINE places == {map[c].place : c \in DOMAIN map}
  <1>1. places \subseteq Nat /\ places # {}
    OBVIOUS
  <1>2. \E p \in places : \A q \in places : ~ (<<q, p>> \in OpToRel(<, Nat))
    BY <1>1, NatLessThanWellFounded, WFMin
  <1>3. \A p, q \in Nat : <<q, p>> \in OpToRel(<, Nat) <=> q < p
    BY DEF OpToRel
  <1>4. \E c \in DOMAIN map : \A d \in DOMAIN map : map[c].place <= map[d].place
    <2>1. PICK p \in places : \A q \in places : ~ (<<q, p>> \in OpToRel(<, Nat))
      BY <1>2
    <2>2. \A q \in places : ~ (q < p) /\ q \in Nat
      BY <1>1, <1>3, <2>1
    <2>3. PICK c \in DOMAIN map : p = map[c].place
      BY <2>1
    <2>4. ASSUME NEW d \in DOMAIN map PROVE map[c].place <= map[d].place
      <3>1. map[d].place \in places /\ map[c].place \in places
        OBVIOUS
      <3>2. ~ (map[d].place < p) /\ map[d].place \in Nat /\ map[c].place \in Nat
        BY <2>2, <3>1
      <3> HIDE DEF places
      <3> QED
        BY <2>3, <3>2
    <2> QED
      BY <2>4
  <1> QED
    BY <1>4 DEF First

(* The log grows by an event of the chain k *)
LEMMA LogGrows ==
  ASSUME MapTypes, NEW k \in Keys, Committed(k)
  PROVE  /\ Len(log) \in Nat /\ Len(log') = Len(log) + 1
         /\ DOMAIN log = 1 .. Len(log) /\ DOMAIN log' = 1 .. Len(log) + 1
         /\ log' \in Seq([call : Calls, key : Keys, type : Types, seq : Nat, prev : Nat])
         /\ log'[Len(log) + 1].key = k
         /\ log'[Len(log) + 1].seq = Number(k) /\ log'[Len(log) + 1].prev = Last(k)
         /\ \A i \in 1 .. Len(log) : log'[i] = log[i]
  <1>1. Number(k) \in Nat /\ Last(k) \in Nat
    BY DEF MapTypes, Number, Last, Entry
  <1>2. PICK c \in Calls, t \in Types :
          log' = Append(log, [call |-> c, key |-> k, type |-> t, seq |-> Number(k), prev |-> Last(k)])
    BY DEF Committed
  <1> DEFINE event == [call |-> c, key |-> k, type |-> t, seq |-> Number(k), prev |-> Last(k)]
  <1>3. event \in [call : Calls, key : Keys, type : Types, seq : Nat, prev : Nat]
    BY <1>1
  <1>4. /\ log \in Seq([call : Calls, key : Keys, type : Types, seq : Nat, prev : Nat])
        /\ log' = Append(log, event)
    BY <1>2 DEF MapTypes
  <1>5. /\ event.key = k /\ event.seq = Number(k) /\ event.prev = Last(k)
    OBVIOUS
  <1> HIDE DEF event
  <1> QED
    BY <1>3, <1>4, <1>5

(* delete() and set() leave an entry for k behind all others *)
LEMMA TouchedMap ==
  ASSUME MapTypes, NEW k \in Keys
  PROVE  LET map == Touched(k) n == Len(log) + 1 IN
         /\ DOMAIN map = Tracked \cup {k}
         /\ map[k] = [seq |-> Number(k) + 1, last |-> n, place |-> n]
         /\ \A c \in DOMAIN map \ {k} : c \in Tracked /\ map[c] = chains[c]
         /\ \A c \in DOMAIN map : map[c] \in [seq : Nat \ {0}, last : 1 .. n, place : 1 .. n]
         /\ \A c, d \in DOMAIN map : map[c].place = map[d].place => c = d
         /\ IsFiniteSet(DOMAIN map) /\ Cardinality(DOMAIN map) <= maxTracked + 1
         /\ Cardinality(DOMAIN map) \in Nat
  <1> DEFINE map == Touched(k)
             n == Len(log) + 1
  <1>1. /\ DOMAIN map = Tracked \cup {k}
        /\ map[k] = [seq |-> Number(k) + 1, last |-> n, place |-> n]
        /\ \A c \in DOMAIN map \ {k} : c \in Tracked /\ map[c] = chains[c]
    BY DEF Touched, Advanced, Place
  <1>2. Len(log) \in Nat /\ Number(k) \in Nat
    BY DEF MapTypes, Number, Entry
  <1>3. \A c \in Tracked : chains[c] \in Entry
    BY DEF MapTypes
  <1>4. map[k] \in [seq : Nat \ {0}, last : 1 .. n, place : 1 .. n]
    BY <1>1, <1>2
  <1>5. \A e \in Entry : e \in [seq : Nat \ {0}, last : 1 .. n, place : 1 .. n] /\ e.place # n
    BY <1>2 DEF Entry
  <1>6. \A c, d \in Tracked : chains[c].place = chains[d].place => c = d
    BY DEF MapTypes
  <1>7. IsFiniteSet(Tracked) /\ Cardinality(Tracked) <= maxTracked /\ maxTracked \in Nat
    BY MiddlewareAssumption DEF MapTypes
  <1>8. /\ IsFiniteSet(DOMAIN map) /\ Cardinality(DOMAIN map) <= maxTracked + 1
        /\ Cardinality(DOMAIN map) \in Nat
    <2>1. /\ IsFiniteSet(Tracked \cup {k})
          /\ Cardinality(Tracked \cup {k}) =
               IF k \in Tracked THEN Cardinality(Tracked) ELSE Cardinality(Tracked) + 1
      BY <1>7, FS_AddElement
    <2>2. Cardinality(Tracked) \in Nat
      BY <1>7, FS_CardinalityType
    <2>3. DOMAIN map = Tracked \cup {k}
      BY <1>1
    <2> HIDE DEF map
    <2> QED
      BY <1>7, <2>1, <2>2, <2>3
  <1>9. \A c \in DOMAIN map : map[c] \in [seq : Nat \ {0}, last : 1 .. n, place : 1 .. n]
    BY <1>1, <1>3, <1>4, <1>5
  <1>10. map[k].place = n /\ \A c \in DOMAIN map \ {k} : map[c].place # n
    BY <1>1, <1>3, <1>5
  <1>11. \A c, d \in DOMAIN map : map[c].place = map[d].place => c = d
    BY <1>1, <1>6, <1>10
  <1> QED
    BY <1>1, <1>8, <1>9, <1>11

(* What is left of the map is a part of it, and what is not is older than  *)
(* all of maxTracked others                                                *)
LEMMA BoundedMap ==
  ASSUME MapTypes, NEW k \in Keys
  PROVE  LET map == Touched(k) kept == Bounded(map) IN
         /\ DOMAIN kept \subseteq DOMAIN map
         /\ kept = [c \in DOMAIN kept |-> map[c]]
         /\ IsFiniteSet(DOMAIN kept) /\ Cardinality(DOMAIN kept) <= maxTracked
         /\ \A c \in DOMAIN map \ DOMAIN kept :
              /\ Cardinality(DOMAIN kept) = maxTracked
              /\ \A d \in DOMAIN kept : map[c].place < map[d].place
  <1> DEFINE map == Touched(k)
             kept == Bounded(map)
  <1>1. /\ \A c \in DOMAIN map : map[c].place \in Nat
        /\ \A c, d \in DOMAIN map : map[c].place = map[d].place => c = d
        /\ IsFiniteSet(DOMAIN map) /\ Cardinality(DOMAIN map) <= maxTracked + 1
        /\ Cardinality(DOMAIN map) \in Nat /\ k \in DOMAIN map
    <2>1. Len(log) \in Nat
      BY DEF MapTypes
    <2>2. \A c \in DOMAIN map : map[c].place \in 1 .. Len(log) + 1
      BY TouchedMap
    <2>3. /\ \A c, d \in DOMAIN map : map[c].place = map[d].place => c = d
          /\ IsFiniteSet(DOMAIN map) /\ Cardinality(DOMAIN map) <= maxTracked + 1
          /\ Cardinality(DOMAIN map) \in Nat
      BY TouchedMap
    <2>4. k \in DOMAIN map
      BY DEF Touched
    <2> HIDE DEF map
    <2> QED
      BY <2>1, <2>2, <2>3, <2>4
  <1>2. maxTracked \in Nat
    BY MiddlewareAssumption DEF MapTypes
  <1>3. map = [c \in DOMAIN map |-> map[c]]
    BY DEF Touched
  <1> HIDE DEF map
  <1>4. CASE ~TooMany(map)
    <2>1. kept = map
      BY <1>4 DEF Bounded
    <2> QED
      BY <1>1, <1>2, <1>3, <1>4, <2>1 DEF TooMany, map
  <1>5. CASE TooMany(map)
    <2> DEFINE f == First(map)
    <2>1. f \in DOMAIN map /\ \A d \in DOMAIN map : map[f].place <= map[d].place
      BY <1>1, FirstIsOldest
    <2>2. kept = [c \in DOMAIN map \ {f} |-> map[c]] /\ DOMAIN kept = DOMAIN map \ {f}
      BY <1>5 DEF Bounded
    <2>3. /\ IsFiniteSet(DOMAIN map \ {f})
          /\ Cardinality(DOMAIN map \ {f}) = Cardinality(DOMAIN map) - 1
      BY <1>1, <2>1, FS_RemoveElement
    <2>4. Cardinality(DOMAIN map) = maxTracked + 1
      BY <1>1, <1>2, <1>5 DEF TooMany
    <2>5. \A d \in DOMAIN map \ {f} : map[f].place < map[d].place
      BY <1>1, <2>1
    <2> HIDE DEF f, kept
    <2>6. \A c \in DOMAIN map \ DOMAIN kept : c = f
      BY <2>1, <2>2
    <2>7. Cardinality(DOMAIN kept) = maxTracked /\ IsFiniteSet(DOMAIN kept)
      BY <1>2, <2>2, <2>3, <2>4
    <2>8. kept = [c \in DOMAIN kept |-> map[c]] /\ DOMAIN kept \subseteq DOMAIN map
      BY <2>2
    <2>9. \A c \in DOMAIN map \ DOMAIN kept : \A d \in DOMAIN kept : map[c].place < map[d].place
      BY <2>2, <2>5, <2>6
    <2> QED
      BY <1>2, <2>7, <2>8, <2>9 DEF map, kept
  <1> QED
    BY <1>4, <1>5

-----------------------------------------------------------------------------
(* The keys of the events after event i *)
After(i) == {log[j].key : j \in i + 1 .. Len(log)}

(* ... are finitely many *)
LEMMA AfterFinite ==
  ASSUME Len(log) \in Nat, NEW i \in Nat
  PROVE  IsFiniteSet(After(i)) /\ Cardinality(After(i)) \in Nat
  <1> DEFINE S == i + 1 .. Len(log)
             f == [j \in S |-> log[j].key]
  <1>1. IsFiniteSet(S)
    BY FS_Interval
  <1>2. f \in Surjection(S, After(i))
    BY DEF Surjection, After
  <1> HIDE DEF f, S
  <1>3. IsFiniteSet(After(i))
    BY <1>1, <1>2, FS_Surjection
  <1> QED
    BY <1>3, FS_CardinalityType

(* The map and the log stay well typed *)
LEMMA TypesKept ==
  ASSUME MapTypes, NEW k \in Keys, Committed(k), UNCHANGED <<maxTracked, key>>
  PROVE  MapTypes'
  <1> DEFINE map == Touched(k)
             n == Len(log) + 1
  <1>1. chains' = Bounded(map) /\ Tracked' = DOMAIN chains'
    BY DEF Committed, Tracked
  <1>2. /\ DOMAIN map = Tracked \cup {k}
        /\ \A c \in DOMAIN map : map[c] \in [seq : Nat \ {0}, last : 1 .. n, place : 1 .. n]
        /\ \A c, d \in DOMAIN map : map[c].place = map[d].place => c = d
    BY TouchedMap
  <1>3. /\ Tracked' \subseteq DOMAIN map
        /\ chains' = [c \in Tracked' |-> map[c]]
        /\ IsFiniteSet(Tracked') /\ Cardinality(Tracked') <= maxTracked
    BY <1>1, BoundedMap
  <1>4. n = Len(log') /\ log' \in Seq([call : Calls, key : Keys, type : Types, seq : Nat, prev : Nat])
    BY LogGrows
  <1> HIDE DEF map, n
  <1>5. chains' \in [Tracked' -> Entry']
    BY <1>2, <1>3, <1>4 DEF Entry
  <1>6. \A c, d \in Tracked' : chains'[c].place = chains'[d].place => c = d
    BY <1>2, <1>3
  <1>7. Tracked' \subseteq Keys
    BY <1>2, <1>3 DEF MapTypes
  <1> QED
    BY <1>3, <1>4, <1>5, <1>6, <1>7 DEF MapTypes

(* Entries keep being about the latest events of their chains *)
LEMMA EntriesKept ==
  ASSUME MapTypes, MapInv, NEW k \in Keys, Committed(k)
  PROVE  MapInv'
  <1> DEFINE map == Touched(k)
             n == Len(log) + 1
  <1>1. chains' = Bounded(map) /\ Tracked' = DOMAIN chains'
    BY DEF Committed, Tracked
  <1>2. Tracked' \subseteq DOMAIN map /\ chains' = [c \in Tracked' |-> map[c]]
    BY <1>1, BoundedMap
  <1>3. /\ map[k] = [seq |-> Number(k) + 1, last |-> n, place |-> n]
        /\ \A c \in DOMAIN map \ {k} : c \in Tracked /\ map[c] = chains[c]
    BY TouchedMap
  <1>4. /\ n \in Nat /\ DOMAIN log = 1 .. n - 1 /\ DOMAIN log' = 1 .. n
        /\ log'[n].key = k /\ \A i \in DOMAIN log : log'[i] = log[i]
    BY LogGrows
  <1> HIDE DEF map, n
  <1> SUFFICES ASSUME NEW c \in Tracked'
               PROVE  /\ chains'[c].last = chains'[c].place
                      /\ log'[chains'[c].last].key = c
                      /\ \A i \in DOMAIN log' : log'[i].key = c => i <= chains'[c].last
    BY DEF MapInv
  <1>5. CASE c = k
    <2>1. chains'[c].last = n /\ chains'[c].place = n
      BY <1>2, <1>3, <1>5
    <2> QED
      BY <1>4, <1>5, <2>1
  <1>6. CASE c # k
    <2>1. chains'[c] = chains[c] /\ c \in Tracked
      BY <1>2, <1>3, <1>6
    <2>2. /\ chains[c].last = chains[c].place /\ log[chains[c].last].key = c
          /\ \A i \in DOMAIN log : log[i].key = c => i <= chains[c].last
      BY <2>1 DEF MapInv
    <2>3. chains[c].last \in DOMAIN log
      BY <1>4, <2>1 DEF MapTypes, Entry, n
    <2>4. \A i \in DOMAIN log' : log'[i].key = c => i \in DOMAIN log
      BY <1>4, <1>6
    <2> QED
      BY <1>4, <2>1, <2>2, <2>3, <2>4
  <1> QED
    BY <1>5, <1>6

(* Only idle chains are forgotten *)
LEMMA IdleKept ==
  ASSUME MapTypes, MapInv, OnlyIdleForgotten, NEW k \in Keys, Committed(k),
         UNCHANGED <<maxTracked, key>>, MapTypes'
  PROVE  OnlyIdleForgotten'
  <1> DEFINE map == Touched(k)
             n == Len(log) + 1
  <1>1. chains' = Bounded(map) /\ Tracked' = DOMAIN chains'
    BY DEF Committed, Tracked
  <1>2. Tracked' \subseteq DOMAIN map /\ IsFiniteSet(Tracked')
    BY <1>1, BoundedMap
  <1>3. /\ DOMAIN map = Tracked \cup {k} /\ map[k].place = n
        /\ \A c \in DOMAIN map \ {k} : c \in Tracked /\ map[c] = chains[c]
        /\ \A c \in DOMAIN map : map[c].place \in 1 .. n
    <2>1. /\ DOMAIN map = Tracked \cup {k}
          /\ map[k] = [seq |-> Number(k) + 1, last |-> n, place |-> n]
          /\ \A c \in DOMAIN map \ {k} : c \in Tracked /\ map[c] = chains[c]
      BY TouchedMap
    <2>2. \A c \in DOMAIN map : map[c] \in [seq : Nat \ {0}, last : 1 .. n, place : 1 .. n]
      BY TouchedMap
    <2> HIDE DEF map, n
    <2> QED
      BY <2>1, <2>2
  <1>4. \A c \in DOMAIN map \ Tracked' :
          /\ Cardinality(Tracked') = maxTracked
          /\ \A d \in Tracked' : map[c].place < map[d].place
    BY <1>1, BoundedMap
  <1>5. /\ n \in Nat /\ DOMAIN log = 1 .. n - 1 /\ DOMAIN log' = 1 .. n
        /\ Len(log) = n - 1 /\ Len(log') = n
        /\ log'[n].key = k /\ \A i \in DOMAIN log : log'[i] = log[i]
    BY LogGrows
  <1>6. maxTracked \in Nat /\ maxTracked' = maxTracked
    BY MiddlewareAssumption DEF MapTypes
  <1>7. \A i \in Nat : IsFiniteSet(After(i)') /\ Cardinality(After(i)') \in Nat
    <2>1. ASSUME NEW i \in Nat PROVE IsFiniteSet(After(i)') /\ Cardinality(After(i)') \in Nat
      <3> DEFINE S == i + 1 .. n
                 f == [j \in S |-> log'[j].key]
      <3>1. IsFiniteSet(S)
        BY <1>5, FS_Interval
      <3>2. f \in Surjection(S, After(i)')
        BY <1>5 DEF Surjection, After
      <3> HIDE DEF f, S
      <3>3. IsFiniteSet(After(i)')
        BY <3>1, <3>2, FS_Surjection
      <3> QED
        BY <3>3, FS_CardinalityType
    <2> QED
      BY <2>1
  <1> HIDE DEF map, n
  <1> SUFFICES ASSUME NEW i \in DOMAIN log', log'[i].key \notin Tracked',
                      \A j \in DOMAIN log' : log'[j].key = log'[i].key => j <= i
               PROVE  Cardinality(After(i)') >= maxTracked
    BY <1>5, <1>6 DEF OnlyIdleForgotten, Events, After
  <1> DEFINE c == log'[i].key
  <1>8. \* what is kept has its events after the latest of a dropped chain
        ASSUME c \in DOMAIN map, map[c].place = i
        PROVE  Cardinality(After(i)') >= maxTracked
    <2>1. Cardinality(Tracked') = maxTracked /\ \A d \in Tracked' : i < map[d].place
      BY <1>4, <1>8
    <2>2. ASSUME NEW d \in Tracked' PROVE d \in After(i)'
      <3>1. i < map[d].place /\ map[d].place \in 1 .. n /\ i \in 1 .. n
        BY <1>2, <1>3, <1>5, <2>1
      <3>2. CASE d = k
        <4>1. n \in i + 1 .. n
          BY <1>3, <1>5, <3>1, <3>2
        <4> QED
          BY <1>5, <3>2, <4>1 DEF After
      <3>3. CASE d # k
        <4>1. d \in Tracked /\ map[d] = chains[d]
          BY <1>2, <1>3, <3>3
        <4>2. log[chains[d].place].key = d
          BY <4>1 DEF MapInv
        <4>3. chains[d].place \in 1 .. n - 1
          BY <1>5, <4>1 DEF MapTypes, Entry
        <4>4. log'[chains[d].place].key = d /\ chains[d].place \in i + 1 .. n
          BY <1>5, <3>1, <4>1, <4>2, <4>3
        <4> QED
          BY <1>5, <4>4 DEF After
      <3> QED
        BY <3>2, <3>3
    <2>3. i \in Nat
      BY <1>5
    <2>4. IsFiniteSet(After(i)') /\ Tracked' \in SUBSET After(i)'
      BY <1>7, <2>2, <2>3
    <2>5. Cardinality(Tracked') <= Cardinality(After(i)')
      BY <2>4, FS_Subset
    <2> QED
      BY <1>6, <1>7, <2>1, <2>3, <2>5
  <1>9. CASE c = k
    <2>1. i = n
      BY <1>5, <1>9
    <2> QED
      BY <1>3, <1>8, <1>9, <2>1
  <1>10. CASE c # k
    <2>1. i \in DOMAIN log /\ log[i].key = c /\ i \in Nat
      BY <1>5, <1>10
    <2>2. CASE c \in Tracked
      <3>1. c \in DOMAIN map /\ map[c] = chains[c]
        BY <1>3, <1>10, <2>2
      <3>2. /\ chains[c].last = chains[c].place /\ log[chains[c].last].key = c
            /\ i <= chains[c].last
        BY <2>1, <2>2 DEF MapInv
      <3>3. chains[c].last \in 1 .. n - 1
        BY <1>5, <2>2 DEF MapTypes, Entry
      <3>4. log'[chains[c].last].key = c /\ chains[c].last \in DOMAIN log'
        BY <1>5, <3>2, <3>3
      <3>5. chains[c].last <= i
        BY <3>4
      <3>6. chains[c].place = i
        BY <2>1, <3>2, <3>3, <3>5
      <3> QED
        BY <1>8, <3>1, <3>6
    <2>3. CASE c \notin Tracked
      <3>1. \/ \E j \in Events(c) : j > i
            \/ Cardinality(After(i)) >= maxTracked
        BY <2>1, <2>3 DEF OnlyIdleForgotten, After
      <3>2. ~ \E j \in Events(c) : j > i
        <4> SUFFICES ASSUME NEW j \in Events(c), j > i PROVE FALSE
          OBVIOUS
        <4>1. j \in DOMAIN log /\ log[j].key = c
          BY DEF Events
        <4>2. j \in DOMAIN log' /\ log'[j].key = c
          BY <1>5, <4>1
        <4>3. j <= i /\ j \in Nat
          BY <1>5, <4>2
        <4> QED
          BY <2>1, <4>3
      <3>3. After(i) \in SUBSET After(i)'
        BY <1>5, <2>1 DEF After
      <3>4. IsFiniteSet(After(i)') /\ Cardinality(After(i)') \in Nat
        BY <1>7, <2>1
      <3>5. Cardinality(After(i)) <= Cardinality(After(i)')
        BY <3>3, <3>4, FS_Subset
      <3>6. Cardinality(After(i)) \in Nat
        BY <1>5, <2>1, AfterFinite
      <3> QED
        BY <1>6, <3>1, <3>2, <3>4, <3>5, <3>6
    <2> QED
      BY <2>2, <2>3
  <1> QED
    BY <1>9, <1>10

-----------------------------------------------------------------------------
(* The events and the chains as EventChains sees them *)
Log == [n \in DOMAIN log |-> [key |-> log[n].key, seq |-> log[n].seq, prev |-> log[n].prev]]
Ahead == [k \in Keys |-> [seq |-> Number(k), prev |-> Last(k)]]

(* No events and no entries are no chains *)
LEMMA ChainsInit == Init => Promise!Init
  <1> SUFFICES ASSUME Init PROVE Promise!Init
    OBVIOUS
  <1>1. Tracked = {} /\ log = <<>>
    BY DEF Init, Tracked
  <1>2. Log = <<>>
    BY <1>1 DEF Log
  <1>3. Ahead = [k \in Keys |-> Promise!Fresh]
    BY <1>1 DEF Ahead, Number, Last, Promise!Fresh
  <1> QED
    BY <1>2, <1>3 DEF Promise!Init, Log, Ahead

(* An emission extends a chain by an event, and may forget another one *)
LEMMA ChainsStep ==
  ASSUME MapTypes, MapTypes', NEW k \in Keys, Committed(k)
  PROVE  Promise!Next
  <1> DEFINE map == Touched(k)
             n == Len(log) + 1
             event == [key |-> k, seq |-> Ahead[k].seq, prev |-> Ahead[k].prev]
  <1>1. chains' = Bounded(map) /\ Tracked' = DOMAIN chains'
    BY DEF Committed, Tracked
  <1>2. Tracked' \subseteq DOMAIN map /\ chains' = [c \in Tracked' |-> map[c]]
    BY <1>1, BoundedMap
  <1>3. /\ map[k] = [seq |-> Number(k) + 1, last |-> n, place |-> n]
        /\ \A c \in DOMAIN map \ {k} : c \in Tracked /\ map[c] = chains[c]
    BY TouchedMap
  <1>4. /\ n \in Nat /\ DOMAIN log = 1 .. n - 1 /\ DOMAIN log' = 1 .. n
        /\ log'[n].key = k /\ log'[n].seq = Number(k) /\ log'[n].prev = Last(k)
        /\ \A i \in DOMAIN log : log'[i] = log[i]
    BY LogGrows
  <1> HIDE DEF map
  <1>a. PICK F \in SUBSET Keys : F = Keys \ Tracked'
    OBVIOUS
  <1>5. Log' = Append(Log, event)
    <2>1. DOMAIN Log = 1 .. n - 1 /\ Len(Log) = n - 1
      BY <1>4 DEF Log
    <2>2. DOMAIN Log' = 1 .. n
      BY <1>4 DEF Log
    <2>3. Log'[n] = event
      BY <1>4 DEF Log, Ahead
    <2>4. \A i \in 1 .. n - 1 : Log'[i] = Log[i]
      BY <1>4 DEF Log
    <2>5. Append(Log, event) = [i \in 1 .. n |-> IF i = n THEN event ELSE Log[i]]
      BY <2>1, <1>4
    <2>6. Log' = [i \in 1 .. n |-> Log'[i]]
      BY <2>2 DEF Log
    <2> QED
      BY <2>3, <2>4, <2>5, <2>6, <1>4
  <1>6. Ahead' = [c \in Keys |-> IF c \in F THEN Promise!Fresh
                                 ELSE IF c = k THEN [seq |-> Ahead[k].seq + 1, prev |-> Len(Log) + 1]
                                 ELSE Ahead[c]]
    <2>1. Ahead[k] = [seq |-> Number(k), prev |-> Last(k)] /\ Len(Log) = n - 1
      BY <1>4 DEF Ahead, Log
    <2>2. Ahead' = [c \in Keys |-> Ahead'[c]]
      BY DEF Ahead
    <2>3. ASSUME NEW c \in F PROVE Ahead'[c] = Promise!Fresh
      BY <1>a DEF Ahead, Number, Last, Promise!Fresh
    <2>4. ASSUME k \notin F PROVE Ahead'[k] = [seq |-> Number(k) + 1, prev |-> n]
      <3>1. k \in Tracked' /\ chains'[k] = map[k]
        BY <1>2, <1>a, <2>4
      <3> QED
        BY <1>3, <3>1 DEF Ahead, Number, Last
    <2>5. ASSUME NEW c \in Keys, c \notin F, c # k PROVE Ahead'[c] = Ahead[c]
      <3>1. c \in Tracked' /\ c \in Tracked /\ chains'[c] = chains[c]
        BY <1>2, <1>3, <1>a, <2>5
      <3> QED
        BY <3>1 DEF Ahead, Number, Last
    <2>6. [seq |-> Ahead[k].seq + 1, prev |-> Len(Log) + 1] = [seq |-> Number(k) + 1, prev |-> n]
      BY <2>1, <1>4
    <2> HIDE DEF n
    <2> QED
      BY <2>2, <2>3, <2>4, <2>5, <2>6
  <1>7. Promise!Emit(k, F)
    BY <1>5, <1>6 DEF Promise!Emit, Log, Ahead
  <1> QED
    BY <1>7 DEF Promise!Next

-----------------------------------------------------------------------------
MapGood == MapTypes /\ MapInv /\ OnlyIdleForgotten

(* A new middleware tracks nothing *)
LEMMA MapInit == Init => MapGood
  <1> SUFFICES ASSUME Init PROVE MapGood
    OBVIOUS
  <1>1. Tracked = {} /\ log = <<>> /\ chains = [k \in {} |-> 0]
    BY DEF Init, Tracked
  <1>2. MapTypes
    <2>1. maxTracked \in Nat /\ key \in [Calls -> Keys] /\ maxTracked \in Limits
      BY MiddlewareAssumption DEF Init
    <2> QED
      BY <1>1, <2>1, FS_EmptySet DEF MapTypes
  <1> QED
    BY <1>1, <1>2 DEF MapGood, MapInv, OnlyIdleForgotten

(* The map is right after every emission, which EventChains allows *)
LEMMA MapNext ==
  ASSUME MapGood, Emits
  PROVE  MapGood' /\ [Promise!Next]_Promise!vars
  <1>1. CASE Unemitted
    <2>1. chains' = chains /\ log' = log /\ maxTracked' = maxTracked /\ key' = key
      BY <1>1 DEF Emits, Unemitted
    <2>2. Tracked' = Tracked /\ Entry' = Entry
      BY <2>1 DEF Tracked, Entry
    <2>3. MapTypes'
      BY <2>1, <2>2 DEF MapGood, MapTypes
    <2>4. MapInv' /\ OnlyIdleForgotten'
      BY <2>1, <2>2 DEF MapGood, MapInv, OnlyIdleForgotten, Events
    <2>5. UNCHANGED Promise!vars
      BY <2>1, <2>2 DEF Promise!vars, Number, Last
    <2> QED
      BY <2>3, <2>4, <2>5 DEF MapGood
  <1>2. ASSUME NEW k \in Keys, Committed(k) PROVE MapGood' /\ Promise!Next
    <2>1. MapTypes'
      BY <1>2, TypesKept DEF MapGood, Emits
    <2> QED
      BY <1>2, <2>1, EntriesKept, IdleKept, ChainsStep DEF MapGood, Emits
  <1> QED
    BY <1>1, <1>2 DEF Emits

Phases ==
  /\ phase \in [Calls -> {"idle", "generating", "opening", "open", "erring", "ended", "failed", "aborted"}]
  /\ closed \in BOOLEAN

(* Every reachable state of the middleware is well typed, and its map      *)
(* never holds more than maxTrackedChains entries                          *)
THEOREM TypeCorrect == Spec => []TypeOK
  <1>1. TypeOK <=> MapTypes /\ Phases
    BY DEF TypeOK, MapTypes, Phases, Types
  <1>2. Init => Phases
    BY DEF Init, Phases
  <1>3. Phases /\ [Next]_vars => Phases'
    BY DEF Phases, Next, vars, Goto, GenerateStarts, GenerateEnds, GenerateThrows, StreamStarts,
           StreamOpens, StreamRefused, ErrorPart, StreamFlushes, StreamAborts, Emit, Quiet, Close
  <1>4. MapGood => MapTypes
    BY DEF MapGood
  <1> QED
    BY <1>1, <1>2, <1>3, <1>4, MapInit, MapNext, StepsEmit, PTL DEF Spec

(* "Never evict an active chain": a chain is only forgotten when           *)
(* maxTrackedChains others had events since its last one                   *)
THEOREM OnlyIdleChainsForgotten == Spec => []OnlyIdleForgotten
  <1>1. MapGood => OnlyIdleForgotten
    BY DEF MapGood
  <1> QED
    BY <1>1, TypeCorrect, MapInit, MapNext, StepsEmit, PTL DEF Spec

(* The middleware numbers and links its events as EventChains promises *)
THEOREM MiddlewareImplementsChains == Spec => ImplementsEventChains
  <1> QED
    BY TypeCorrect, ChainsInit, MapInit, MapNext, StepsEmit, PTL DEF Spec, ImplementsEventChains, Promise!Spec

-----------------------------------------------------------------------------
(* The events of a call, and those that end it *)
Mine(c) == {i \in DOMAIN log : log[i].call = c}
Ends(c) == {i \in Mine(c) : log[i].type # "start"}

Active == {"generating", "opening", "open", "erring"}

(* A call that has not begun has no events, and one under way has not ended *)
CallInv(c) ==
  /\ phase[c] = "idle" => Mine(c) = {}
  /\ phase[c] \in Active \cup {"aborted"} => Ends(c) = {}
  /\ \A i, j \in Ends(c) : i = j
  /\ \A i, j \in Mine(c) \ Ends(c) : i = j
  /\ \A i \in Ends(c), j \in Mine(c) \ Ends(c) : j < i
  /\ \A i \in Ends(c) : log[i].type = "end" <=> phase[c] = "ended"

CallsInv == \A c \in Calls : CallInv(c)

(* The three things a call can do: begin, go on and end *)
Begins(c) == phase[c] = "idle" /\ phase'[c] \in Active /\ Emit(c, "start")
GoesOn(c) == phase[c] \in Active /\ phase'[c] \in Active \cup {"aborted"} /\ Quiet
Finishes(c) ==
  /\ phase[c] \in Active
  /\ \/ phase'[c] = "ended" /\ Emit(c, "end")
     \/ phase'[c] = "failed" /\ Emit(c, "error")

(* A step of a call begins it, goes on with it or ends it, and moves no other *)
LEMMA CallSteps ==
  ASSUME TypeOK, NEW c \in Calls,
         \/ GenerateStarts(c) \/ GenerateEnds(c) \/ GenerateThrows(c)
         \/ StreamStarts(c) \/ StreamOpens(c) \/ StreamRefused(c)
         \/ ErrorPart(c) \/ StreamFlushes(c) \/ StreamAborts(c)
  PROVE  /\ Begins(c) \/ GoesOn(c) \/ Finishes(c)
         /\ \A d \in Calls \ {c} : phase'[d] = phase[d]
  <1>1. phase \in [Calls -> {"idle", "generating", "opening", "open", "erring", "ended", "failed", "aborted"}]
    BY DEF TypeOK
  <1>2. ASSUME NEW from, NEW to, Goto(c, from, to)
        PROVE  phase[c] = from /\ phase'[c] = to /\ \A d \in Calls \ {c} : phase'[d] = phase[d]
    BY <1>1, <1>2 DEF Goto
  <1>3. CASE GenerateStarts(c)
    BY <1>2, <1>3 DEF GenerateStarts, Begins, Active
  <1>4. CASE StreamStarts(c)
    BY <1>2, <1>4 DEF StreamStarts, Begins, Active
  <1>5. CASE GenerateEnds(c)
    BY <1>2, <1>5 DEF GenerateEnds, Finishes, Active
  <1>6. CASE GenerateThrows(c)
    BY <1>2, <1>6 DEF GenerateThrows, Finishes, Active
  <1>7. CASE StreamRefused(c)
    BY <1>2, <1>7 DEF StreamRefused, Finishes, Active
  <1>8. CASE StreamFlushes(c)
    BY <1>2, <1>8 DEF StreamFlushes, Finishes, Active
  <1>9. CASE StreamOpens(c)
    BY <1>2, <1>9 DEF StreamOpens, GoesOn, Active
  <1>10. CASE ErrorPart(c)
    BY <1>2, <1>10 DEF ErrorPart, GoesOn, Active
  <1>11. CASE StreamAborts(c)
    BY <1>2, <1>11 DEF StreamAborts, GoesOn, Active
  <1> QED
    BY <1>3, <1>4, <1>5, <1>6, <1>7, <1>8, <1>9, <1>10, <1>11

(* A call is as it was when its phase is and the log got no event of it *)
LEMMA CallKept ==
  ASSUME NEW d \in Calls, CallInv(d), phase'[d] = phase[d],
         DOMAIN log \subseteq DOMAIN log', \A i \in DOMAIN log : log'[i] = log[i],
         \A i \in DOMAIN log' \ DOMAIN log : log'[i].call # d
  PROVE  CallInv(d)'
  <1>1. Mine(d)' = Mine(d) /\ Ends(d)' = Ends(d) /\ \A i \in Mine(d) : log'[i] = log[i]
    BY DEF Mine, Ends
  <1> QED
    BY <1>1 DEF CallInv, Ends

(* Each call begins once and ends once at most, and the end says how *)
LEMMA CallsNext ==
  ASSUME TypeOK, CallsInv, [Next]_vars
  PROVE  CallsInv'
  <1>1. ASSUME log' = log, phase' = phase PROVE CallsInv'
    BY <1>1, CallKept DEF CallsInv
  <1>2. ASSUME NEW c \in Calls, Begins(c) \/ GoesOn(c) \/ Finishes(c),
               \A d \in Calls \ {c} : phase'[d] = phase[d]
        PROVE  CallsInv'
    <2>1. CASE log' = log
      <3>1. \A d \in Calls \ {c} : CallInv(d)'
        BY <1>2, <2>1, CallKept DEF CallsInv
      <3>2. Mine(c)' = Mine(c) /\ Ends(c)' = Ends(c) /\ CallInv(c)
        BY <2>1 DEF Mine, Ends, CallsInv
      <3>3. \/ phase[c] = "idle" /\ phase'[c] \in Active
            \/ phase[c] \in Active /\ phase'[c] \in Active \cup {"aborted", "ended", "failed"}
        BY <1>2 DEF Begins, GoesOn, Finishes
      <3>4. Ends(c) = {}
        BY <3>2, <3>3 DEF CallInv, Ends, Active
      <3>5. CallInv(c)'
        BY <3>2, <3>3, <3>4 DEF CallInv, Active
      <3> QED
        BY <3>1, <3>5 DEF CallsInv
    <2>2. ASSUME NEW t \in Types,
                 log' = Append(log, [call |-> c, key |-> key[c], type |-> t,
                                     seq |-> Number(key[c]), prev |-> Last(key[c])]),
                 \/ t = "start" /\ phase[c] = "idle" /\ phase'[c] \in Active
                 \/ t = "end" /\ phase[c] \in Active /\ phase'[c] = "ended"
                 \/ t = "error" /\ phase[c] \in Active /\ phase'[c] = "failed"
          PROVE  CallsInv'
      <3> DEFINE n == Len(log) + 1
                 event == [call |-> c, key |-> key[c], type |-> t,
                           seq |-> Number(key[c]), prev |-> Last(key[c])]
      <3>1. n \in Nat /\ n >= 1 /\ DOMAIN log = 1 .. n - 1
        BY DEF TypeOK
      <3>2. /\ DOMAIN log' = 1 .. n /\ log'[n].call = c /\ log'[n].type = t
            /\ \A i \in DOMAIN log : log'[i] = log[i]
        <4>1. event.call = c /\ event.type = t
          OBVIOUS
        <4>2. log' = Append(log, event) /\ log \in Seq([call : Calls, key : Keys, type : Types, seq : Nat, prev : Nat])
          BY <2>2 DEF TypeOK, Types
        <4> HIDE DEF event
        <4> QED
          BY <4>1, <4>2
      <3> HIDE DEF n
      <3>3. \A d \in Calls \ {c} : CallInv(d)'
        BY <1>2, <3>1, <3>2, CallKept DEF CallsInv
      <3>4. CallInv(c) /\ Mine(c) \subseteq 1 .. n - 1 /\ Ends(c) \subseteq Mine(c)
        BY <3>1 DEF CallsInv, Mine, Ends
      <3>5. Mine(c)' = Mine(c) \cup {n}
        <4>1. Mine(c)' = {i \in 1 .. n : log'[i].call = c}
          BY <3>2 DEF Mine
        <4>2. \A i \in 1 .. n : i = n \/ i \in DOMAIN log
          BY <3>1
        <4>3. DOMAIN log \subseteq 1 .. n /\ n \in 1 .. n
          BY <3>1
        <4>4. \A i \in 1 .. n : log'[i].call = c <=> i = n \/ i \in Mine(c)
          BY <3>2, <4>2 DEF Mine
        <4>5. Mine(c) \subseteq 1 .. n
          BY <4>3 DEF Mine
        <4> QED
          BY <4>1, <4>3, <4>4, <4>5
      <3>6. \A i \in Mine(c) : log'[i] = log[i] /\ i < n /\ i # n
        BY <3>1, <3>2, <3>4
      <3>7. CASE t = "start"
        <4>1. Mine(c) = {} /\ phase'[c] \in Active
          BY <2>2, <3>4, <3>7 DEF CallInv
        <4>2. Mine(c)' = {n} /\ Ends(c)' = {}
          BY <3>2, <3>5, <3>7, <4>1 DEF Ends
        <4>3. CallInv(c)'
          BY <4>1, <4>2 DEF CallInv, Active
        <4> QED
          BY <3>3, <4>3 DEF CallsInv
      <3>8. CASE t # "start"
        <4>1. Ends(c) = {}
          BY <2>2, <3>4, <3>8 DEF CallInv
        <4>2. Ends(c)' = {n}
          BY <3>2, <3>5, <3>6, <3>8, <4>1 DEF Ends
        <4>3. Mine(c)' \ Ends(c)' = Mine(c)
          BY <3>5, <3>6, <4>2
        <4>4. phase'[c] \in {"ended", "failed"} /\ (t = "end" <=> phase'[c] = "ended")
          BY <2>2, <3>8 DEF Active
        <4>5. \A i, j \in Mine(c) : i = j
          BY <3>4, <4>1 DEF CallInv
        <4>6. CallInv(c)'
          BY <3>2, <3>6, <4>2, <4>3, <4>4, <4>5 DEF CallInv, Active
        <4> QED
          BY <3>3, <4>6 DEF CallsInv
      <3> QED
        BY <3>7, <3>8
    <2>3. \/ log' = log
          \/ \E t \in Types :
               /\ log' = Append(log, [call |-> c, key |-> key[c], type |-> t,
                                      seq |-> Number(key[c]), prev |-> Last(key[c])])
               /\ \/ t = "start" /\ phase[c] = "idle" /\ phase'[c] \in Active
                  \/ t = "end" /\ phase[c] \in Active /\ phase'[c] = "ended"
                  \/ t = "error" /\ phase[c] \in Active /\ phase'[c] = "failed"
      BY <1>2 DEF Begins, GoesOn, Finishes, Emit, Commit, Skip, Quiet, Types
    <2> QED
      BY <2>1, <2>2, <2>3
  <1>3. Close => log' = log /\ phase' = phase
    BY DEF Close
  <1>4. UNCHANGED vars => log' = log /\ phase' = phase
    BY DEF vars
  <1> QED
    BY <1>1, <1>2, <1>3, <1>4, CallSteps DEF Next

(* A call leaves a start and one end at most, which says what became of it *)
THEOREM CallsEndOnce == Spec => []OneEnd
  <1>1. Init => CallsInv
    BY DEF Init, CallsInv, CallInv, Mine, Ends, Active
  <1>2. CallsInv => OneEnd
    BY DEF CallsInv, CallInv, OneEnd, Mine, Ends
  <1> QED
    BY <1>1, <1>2, CallsNext, TypeCorrect, PTL DEF Spec
=============================================================================
