---------------------------- MODULE MCChunkStore ----------------------------
(* Two chunks, two runs and the operator, two restore points.               *)
EXTENDS ChunkStore, TLC

CONSTANTS c1, c2, r1, r2

MCChunks == {c1, c2}
MCRuns == {r1, r2}
MCBoth == {{}, {"overlap", "interrupts"}}
MCOverlap == {{"overlap"}}
MCSymmetry == Permutations(MCChunks) \cup Permutations(MCRuns)

\* Bound: where overlaps and interruptions are explored, two actors at a time are
\* at work, and one chunk is on the target, in the index or in their hands.
MCBound ==
  \/ scene = {}
  \/ /\ Cardinality({a \in Actors : at[a].pc # "idle"}) <= 2
     /\ Cardinality(Present \cup Indexed \cup (Chunks \cap {at[a].item : a \in Actors})
                     \cup UNION {at[a].stored \cup at[a].doomed \cup at[a].stale : a \in Actors}) <= 1
=============================================================================
