----------------------------- MODULE MCCatalog ------------------------------
(* Two jobs that share a source, an operator and a verification.             *)
EXTENDS Catalog, TLC

CONSTANTS j1, j2, v1

MCJobs == {j1, j2}
MCVerifiers == {v1}
MCFragile == {1}
MCSymmetry == Permutations(MCJobs)
=============================================================================
