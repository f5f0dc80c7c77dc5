---------------------------- MODULE MCRunBounded ----------------------------
(***************************************************************************)
(* Instances of RunBounded for TLC.                                        *)
(***************************************************************************)
EXTENDS RunBounded
=============================================================================
