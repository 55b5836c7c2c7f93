---------------------------- MODULE MCBwTransfer ----------------------------
(***************************************************************************)
(* Instances of BwTransfer for TLC.  The configurations give the command   *)
(* line options; with a buffer of five bytes and transfers of two the ring *)
(* has two slots and a tail that no transfer reaches.  The division of the *)
(* buffer that margo-p2p-vector adds is evaluated here on small sizes.     *)
(***************************************************************************)
EXTENDS BwTransfer, VectorRegions

Sizes == 1..12

ASSUME SmallVectorsTile ==
    \A X, V \in Sizes : VectorAccepted(X, V) =>
        /\ Tiles(X, V)
        /\ \A b \in 0..(X - 1) : InOneRegion(b, X, V)
=============================================================================
