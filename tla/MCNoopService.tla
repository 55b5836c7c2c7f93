---------------------------- MODULE MCNoopService ---------------------------
(***************************************************************************)
(* Instances of NoopService for TLC; both places for the handlers are      *)
(* initial states of every instance.                                       *)
(***************************************************************************)
EXTENDS NoopService

CONSTANTS c1, c2, c3
=============================================================================
