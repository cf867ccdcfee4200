------------------------------ MODULE Compose ------------------------------
(***************************************************************************)
(* `cmdman compose`: the project, whose verbs decide which replicas are    *)
(* created, recreated, removed, stopped and started and in which order     *)
(* (ComposeProject), and the replica, whose hooks and resources each of    *)
(* those goes through (ComposeReplica), and the logs of its replicas       *)
(* (ComposeLogs).  The walk of the dependency graph by up, stop and down   *)
(* is ReconcileWalk.                                                       *)
(*                                                                         *)
(* What the project sees of a replica's operation is whether it worked and *)
(* the state it left, which each of the project's actions chooses freely,  *)
(* so a behaviour of one part is the same whatever the others do: one      *)
(* steps and the others rest in an initial state of their own.             *)
(***************************************************************************)
EXTENDS ComposeReplica, ComposeProject, ComposeLogs

VARIABLE part

composeVars == <<part, vars, projectVars, logsVars>>

ComposeInit == part \in {"replica", "project", "logs"} /\ Init /\ ProjectInit /\ LogsInit

ReplicaSteps == part = "replica" /\ Next
ProjectSteps == part = "project" /\ ProjectNext
LogsStep     == part = "logs"    /\ LogsNext

ComposeNext ==
    /\ part' = part
    /\ \/ ReplicaSteps /\ UNCHANGED <<projectVars, logsVars>>
       \/ ProjectSteps /\ UNCHANGED <<vars, logsVars>>
       \/ LogsStep     /\ UNCHANGED <<vars, projectVars>>

ComposeSpec == ComposeInit /\ [][ComposeNext]_composeVars

-----------------------------------------------------------------------------
(* Properties                                                              *)

\* The verbs on one replica do what they report: an up that names no failure
\* leaves the hooks it was asked for on a replica it has started, and a down
\* removes what it may and is silent only about what it has released.
VerbsTrue == DownSafety /\ UpConverges

\* The verbs on the project choose the right replicas, in the right order, and
\* report what became of them, and the logs of the project have what they say.
ProjectTrue ==
    /\ part = "project" => ProjectSafety
    /\ part = "logs" => LogsSafety
=============================================================================
