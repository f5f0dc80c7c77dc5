--------------------------- MODULE MCBatchReplay ---------------------------
(***************************************************************************)
(* Instances of BatchReplay for TLC.                                       *)
(***************************************************************************)
EXTENDS BatchReplay
=============================================================================
