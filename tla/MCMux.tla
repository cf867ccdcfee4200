------------------------------- MODULE MCMux -------------------------------
(* A small instance of Mux: two windows, two defs of one bar, two layouts. *)
EXTENDS Mux, TLC

MCBars == ("top" :> <<TRUE>>) @@ ("side" :> <<FALSE>>)
MCLeaves == <<1, 2>>
=============================================================================
