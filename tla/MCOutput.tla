------------------------------ MODULE MCOutput ------------------------------
(* A small instance of Output: two monitors, two runs. *)
EXTENDS Output
=============================================================================
