---------------------------- MODULE MCBwBenchmark ---------------------------
(***************************************************************************)
(* Instances of BwBenchmark for TLC: two workers over two slots, with      *)
(* enough tickets for the ring to wrap while a transfer is in flight.      *)
(***************************************************************************)
EXTENDS BwBenchmark

CONSTANTS w1, w2
=============================================================================
