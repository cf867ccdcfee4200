---------------------------- MODULE MCTuiPreview ----------------------------
(* The preview alone, for TLC.                                             *)
EXTENDS TuiPreview, TLC
=============================================================================
