------------------------------- MODULE MCGate -------------------------------
(* Three runs contend for a gate that the operator resizes between one and   *)
(* two slots; the argument 0 exercises the clamp.                            *)
EXTENDS Gate

CONSTANTS r1, r2, r3

MCRuns == {r1, r2, r3}

MCLimits == {0, 2}
=============================================================================
