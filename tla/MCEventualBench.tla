--------------------------- MODULE MCEventualBench --------------------------
(***************************************************************************)
(* Instances of EventualBench for TLC.                                     *)
(***************************************************************************)
EXTENDS EventualBench
=============================================================================
