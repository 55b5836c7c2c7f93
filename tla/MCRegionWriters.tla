--------------------------- MODULE MCRegionWriters --------------------------
(***************************************************************************)
(* Small instances of RegionWriters.  Each .cfg says which program it      *)
(* stands for: one pool is bake-p2p-bw, several are pmdk-bw.               *)
(***************************************************************************)
EXTENDS RegionWriters
=============================================================================
