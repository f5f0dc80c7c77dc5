------------------------- MODULE MCNeighborHydration -------------------------
(***************************************************************************)
(* Instances of NeighborHydration for TLC.                                 *)
(***************************************************************************)
EXTENDS NeighborHydration
=============================================================================
