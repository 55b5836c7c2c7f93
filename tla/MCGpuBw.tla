------------------------------ MODULE MCGpuBw -------------------------------
(***************************************************************************)
(* Instances of GpuBw for TLC: two workers over two slots, with enough     *)
(* tickets for the ring to wrap while a transfer is in flight; every       *)
(* choice of the buffers' places is an initial state.                      *)
(***************************************************************************)
EXTENDS GpuBw

CONSTANTS w1, w2
=============================================================================
