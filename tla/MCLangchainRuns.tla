-------------------------- MODULE MCLangchainRuns ---------------------------
(* Instances of the run trees for TLC *)
EXTENDS LangchainRuns, TLC

CONSTANTS r1, r2, r3, r4

(* A chain of three runs beside a run of its own, a run with two branches, *)
(* one of them with a child, and trees the handler is attached inside of   *)
Trees ==
  {r1 :> NoRun @@ r2 :> r1 @@ r3 :> r2 @@ r4 :> NoRun,
   r1 :> NoRun @@ r2 :> r1 @@ r3 :> r2 @@ r4 :> r1,
   r1 :> Outer @@ r2 :> r1 @@ r3 :> Outer @@ r4 :> NoRun}
=============================================================================
