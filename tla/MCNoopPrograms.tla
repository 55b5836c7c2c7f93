--------------------------- MODULE MCNoopPrograms ---------------------------
(***************************************************************************)
(* Instances of NoopPrograms for TLC; every program, and for the latency   *)
(* test calls with and without a limit, is an initial state.               *)
(***************************************************************************)
EXTENDS NoopPrograms

CONSTANTS c1, c2, c3
=============================================================================
