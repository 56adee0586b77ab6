-------------------------- MODULE VercelMiddleware --------------------------
(***************************************************************************)
(* The middleware of packages/vercel/src/index.ts: concurrent model calls, *)
(* generated or streamed, each emit a start and at most one end event on   *)
(* the chain of their correlation id.  #emit() numbers and links the       *)
(* events of a chain from a map bounded by an LRU rule; an event that is   *)
(* opted out, cannot be serialised or comes after close() leaves no trace. *)
(***************************************************************************)
EXTENDS Naturals, Sequences, FiniteSets

CONSTANTS
  Calls,   \* the model calls
  Keys,    \* the chain keys, the session's among them
  Limits   \* the values of maxTrackedChains

ASSUME MiddlewareAssumption == Limits \subseteq Nat

VARIABLES
  maxTracked,  \* the option
  chains,      \* #chains: of each tracked key its seq, its last event and its place in the map's order
  log,         \* the events the batch took
  phase,       \* where each call stands
  key,         \* the chain key it resolved at its start
  closed       \* close() was called

vars == <<maxTracked, chains, log, phase, key, closed>>

Init ==
  /\ maxTracked \in Limits
  /\ chains = [k \in {} |-> 0] /\ log = <<>>
  /\ phase = [c \in Calls |-> "idle"]
  /\ key \in [Calls -> Keys]
  /\ closed = FALSE

-----------------------------------------------------------------------------
(* #emit()                                                                 *)

Tracked == DOMAIN chains

(* The next number of a chain and its last event *)
Number(k) == IF k \in Tracked THEN chains[k].seq ELSE 0
Last(k) == IF k \in Tracked THEN chains[k].last ELSE 0

(* mutant: set() without the delete() leaves an entry where it was *)
BugPlace(k) == IF k \in Tracked THEN chains[k].place ELSE Len(log) + 1

(* delete() and set() move an entry behind all others *)
Place(k) == Len(log) + 1

Advanced(k) == [seq |-> Number(k) + 1, last |-> Len(log) + 1, place |-> Place(k)]

Touched(k) == [c \in Tracked \cup {k} |-> IF c = k THEN Advanced(k) ELSE chains[c]]

(* keys().next() *)
First(map) == CHOOSE c \in DOMAIN map : \A d \in DOMAIN map : map[c].place <= map[d].place

(* mutant: the map may hold one entry too many *)
BugTooMany(map) == Cardinality(DOMAIN map) > maxTracked + 1

TooMany(map) == Cardinality(DOMAIN map) > maxTracked

(* One entry over the bound, the least recently used one goes *)
Bounded(map) ==
  IF TooMany(map) THEN [c \in DOMAIN map \ {First(map)} |-> map[c]] ELSE map

(* mutant: an event that is opted out consumes a number *)
BugSkipped(k) == Bounded(Touched(k))

Skipped(k) == chains

Commit(c, type) ==
  LET k == key[c] IN
  /\ ~closed
  /\ log' = Append(log, [call |-> c, key |-> k, type |-> type,
                         seq |-> Number(k), prev |-> Last(k)])
  /\ chains' = Bounded(Touched(k))

(* mapPayload() returned null or threw, JSON.stringify() or add() threw *)
Skip(c) == chains' = Skipped(key[c]) /\ UNCHANGED log

Emit(c, type) == (Commit(c, type) \/ Skip(c)) /\ UNCHANGED <<maxTracked, key, closed>>

Goto(c, from, to) == phase[c] = from /\ phase' = [phase EXCEPT ![c] = to]

Quiet == UNCHANGED <<maxTracked, chains, log, key, closed>>

-----------------------------------------------------------------------------
(* wrapGenerate() and wrapStream()                                         *)

GenerateStarts(c) == Goto(c, "idle", "generating") /\ Emit(c, "start")
GenerateEnds(c)   == Goto(c, "generating", "ended") /\ Emit(c, "end")
GenerateThrows(c) == Goto(c, "generating", "failed") /\ Emit(c, "error")

StreamStarts(c)  == Goto(c, "idle", "opening") /\ Emit(c, "start")
StreamOpens(c)   == Goto(c, "opening", "open") /\ Quiet
StreamRefused(c) == Goto(c, "opening", "failed") /\ Emit(c, "error")

(* mutant: the error part emits the event the flush will emit again *)
BugErrorPart(c) == Goto(c, "open", "erring") /\ Emit(c, "error")

(* A failure of the provider arrives as a part of the stream *)
ErrorPart(c) == Goto(c, "open", "erring") /\ Quiet

StreamFlushes(c) ==
  \/ Goto(c, "open", "ended") /\ Emit(c, "end")
  \/ Goto(c, "erring", "failed") /\ Emit(c, "error")

(* The transport aborts or the consumer cancels: the tap never flushes *)
StreamAborts(c) == (Goto(c, "open", "aborted") \/ Goto(c, "erring", "aborted")) /\ Quiet

Close ==
  /\ ~closed /\ closed' = TRUE
  /\ UNCHANGED <<maxTracked, chains, log, phase, key>>

Next ==
  \/ \E c \in Calls :
       \/ GenerateStarts(c) \/ GenerateEnds(c) \/ GenerateThrows(c)
       \/ StreamStarts(c) \/ StreamOpens(c) \/ StreamRefused(c)
       \/ ErrorPart(c) \/ StreamFlushes(c) \/ StreamAborts(c)
  \/ Close

Spec == Init /\ [][Next]_vars

-----------------------------------------------------------------------------
(* Properties                                                              *)

Entry == [seq : Nat \ {0}, last : 1 .. Len(log), place : 1 .. Len(log)]

(* The types; the map stays within its bound, and its entries are told     *)
(* apart by their places                                                   *)
TypeOK ==
  /\ maxTracked \in Limits
  /\ Tracked \subseteq Keys /\ IsFiniteSet(Tracked) /\ Cardinality(Tracked) <= maxTracked
  /\ chains \in [Tracked -> Entry]
  /\ \A k, l \in Tracked : chains[k].place = chains[l].place => k = l
  /\ log \in Seq([call : Calls, key : Keys, type : {"start", "end", "error"},
                  seq : Nat, prev : Nat])
  /\ phase \in [Calls -> {"idle", "generating", "opening", "open", "erring",
                          "ended", "failed", "aborted"}]
  /\ key \in [Calls -> Keys]
  /\ closed \in BOOLEAN

(* However calls interleave and whatever events are left out, the events   *)
(* of a chain are numbered and linked without a gap or a fork, and a chain *)
(* only begins again where #emit() has forgotten it                        *)
Promise ==
  INSTANCE EventChains WITH
    log <- [n \in DOMAIN log |-> [key |-> log[n].key, seq |-> log[n].seq, prev |-> log[n].prev]],
    next <- [k \in Keys |-> [seq |-> Number(k), prev |-> Last(k)]]

ImplementsEventChains == Promise!Spec

Events(k) == {i \in DOMAIN log : log[i].key = k}

(* A chain with events is only forgotten, and so begins again, once at     *)
(* least maxTrackedChains other chains had events after its last one:      *)
(* "never evict an active chain"                                           *)
OnlyIdleForgotten ==
  \A i \in DOMAIN log :
    \/ log[i].key \in Tracked
    \/ \E j \in Events(log[i].key) : j > i
    \/ Cardinality({log[j].key : j \in i + 1 .. Len(log)}) >= maxTracked

(* A call leaves at most a start and one end, in that order, the end being *)
(* what became of it; an aborted stream's start is left dangling           *)
OneEnd ==
  \A c \in Calls :
    LET mine == {i \in DOMAIN log : log[i].call = c}
        ends == {i \in mine : log[i].type # "start"}
    IN /\ \A i, j \in ends : i = j
       /\ \A i, j \in mine \ ends : i = j
       /\ \A i \in ends, j \in mine \ ends : j < i
       /\ \A i \in ends : log[i].type = "end" <=> phase[c] = "ended"
       /\ phase[c] = "aborted" => ends = {}
=============================================================================
