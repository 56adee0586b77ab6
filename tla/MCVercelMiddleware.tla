------------------------- MODULE MCVercelMiddleware -------------------------
(* Instances of the middleware for TLC *)
EXTENDS VercelMiddleware, TLC

(* Calls and chain keys are only told apart: permuting them changes nothing *)
Symmetry == Permutations(Calls) \cup Permutations(Keys)
=============================================================================
