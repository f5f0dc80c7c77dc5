------------------------- MODULE MCRefreshSchedule -------------------------
(***************************************************************************)
(* Instances of RefreshSchedule for TLC.                                   *)
(***************************************************************************)
EXTENDS RefreshSchedule
=============================================================================
