------------------------------ MODULE MC_Drafts ------------------------------
(* Concurrent calls of the Drafts API on one document.                      *)
EXTENDS Drafts, TLC

RequestSymmetry == Permutations(Requests)
==============================================================================
