---------------------------- MODULE MCBakeBench -----------------------------
(***************************************************************************)
(* Two clients with two workers each and two regions per client.  Init     *)
(* chooses which of the clients are part of the job.                       *)
(***************************************************************************)
EXTENDS BakeBench

CONSTANTS c1, c2

(* Workers are numbered; the first half belongs to c1. *)
Owner == [w \in 1..4 |-> IF w <= 2 THEN c1 ELSE c2]
=============================================================================
