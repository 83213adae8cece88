----------------------------- MODULE MCCandidates -----------------------------
(***************************************************************************)
(* One candidate with two versions, so that the second can meet what is    *)
(* left of the first: approvals, canary results, garbled rows.             *)
(***************************************************************************)
EXTENDS CandidateLifecycle, TLC

Symmetric == Permutations(Versions)
=============================================================================
