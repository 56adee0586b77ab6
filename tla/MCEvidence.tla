----------------------------- MODULE MCEvidence -----------------------------
(* The instances of MCBatcher, with bundles of the receipts *)
EXTENDS MCBatcher, Evidence
=============================================================================
