----------------------------- MODULE MCBatcher ------------------------------
(* Instances of the batcher for TLC: the option records the runs allow *)
EXTENDS BatcherProperties

Opt(n, age, idle, strict, sink) ==
  [maxEvents |-> n, maxAge |-> age, flushOnIdle |-> idle, strict |-> strict,
   sink |-> sink]

(* Both retention modes, each trigger alone and all together, every sink   *)
(* that writes in order; the last record is one the constructor refuses    *)
SafetyOptions ==
  {Opt(2, FALSE, FALSE, TRUE, "sync"), Opt(0, TRUE, FALSE, TRUE, "flaky"),
   Opt(0, FALSE, TRUE, FALSE, "none"), Opt(2, TRUE, TRUE, TRUE, "sync"),
   Opt(0, FALSE, FALSE, TRUE, "sync")}

(* For the liveness run: every trigger alone, and an async sink *)
LiveOptions ==
  {Opt(2, FALSE, FALSE, FALSE, "none"), Opt(0, TRUE, FALSE, TRUE, "async"),
   Opt(0, FALSE, TRUE, TRUE, "flaky"), Opt(1, TRUE, TRUE, TRUE, "none")}
=============================================================================
