--------------------------- MODULE MCReconcileWalk ---------------------------
(* Instances of ReconcileWalk for TLC.                                     *)
EXTENDS ReconcileWalk

CONSTANTS a, b, c
ThreeCommands == {a, b, c}
OneEach == [x \in ThreeCommands |-> 1]

\* Two edges between three commands, up to their names: a chain, two commands
\* that wait for one, and one that waits for two.
Edges(x, y, k, l) ==
    [to \in ThreeCommands |-> [from \in ThreeCommands |->
        CASE <<to, from>> = x -> k [] <<to, from>> = y -> l [] OTHER -> "none"]]
TwoEdges ==
    {Edges(<<b, a>>, <<c, b>>, "success", "running"),
     Edges(<<b, a>>, <<c, b>>, "running", "completed"),
     Edges(<<b, a>>, <<c, b>>, "completed", "success"),
     Edges(<<b, a>>, <<c, a>>, "running", "completed"),
     Edges(<<c, a>>, <<c, b>>, "running", "success")}
=============================================================================
