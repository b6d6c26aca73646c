-------------------------- MODULE MCAgentDispatch ---------------------------
(* Two calls: one for each of two runs, or two attempts of one run.          *)
EXTENDS AgentDispatch, TLC

CONSTANTS r1, r2

MCRuns == {r1, r2}
MCSymmetry == Permutations(MCRuns)
=============================================================================
