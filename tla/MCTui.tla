------------------------------- MODULE MCTui -------------------------------
(* The parts that rest do so in one initial state.  The preview starts from  *)
(* one row of every kind and one with a log, which a list load may change;   *)
(* the keys, from a command that is up and one that is down.                 *)
EXTENDS Tui, TLC

PQ == <<"P", "Q">>

MCInit ==
    /\ TuiInit
    /\ part # "list" => \A c \in Cmds : life[c] = "down"
    /\ kind["p2"] = "log" /\ (part # "preview" => kind["p1"] = "log")
    /\ real["k1"] = "up" /\ real["k2"] = "down"
    /\ part # "attach" => session.sticky /\ remote.up
MCSpec == MCInit /\ [][TuiNext]_tuiVars
=============================================================================
