----------------------------- MODULE MCPipeline -----------------------------
(* Two workers, so three buffers, and streams of up to three chunks of two   *)
(* contents: as long as the pool, with equal chunks in flight together.      *)
EXTENDS Pipeline

CONSTANTS w1, w2, a, b

MCWorkers == {w1, w2}
MCContents == {a, b}
=============================================================================
