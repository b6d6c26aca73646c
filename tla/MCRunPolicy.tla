---------------------------- MODULE MCRunPolicy -----------------------------
(* A job of three guests, or of one agent, with two retries and a limit.     *)
EXTENDS RunPolicy
=============================================================================
