-------------------------- MODULE CommandLifecycle --------------------------
(***************************************************************************)
(* What a monitor promises of the command it supervises, as an observer of *)
(* the command's record and of its processes sees it: the record's state,  *)
(* whether a run is live (a child started and its process group not given  *)
(* up), and whether a stop was asked for.                                  *)
(***************************************************************************)

VARIABLES
    phase,     \* the state in the command's record
    live,      \* whether a run is live
    stopped,   \* whether a stop was asked for
    spent      \* whether a run has started past the stop

lifecycleVars == <<phase, live, stopped, spent>>

LifecycleInit == phase = "starting" /\ ~live /\ ~stopped /\ ~spent

Active == phase \in {"starting", "running"}

\* A run starts while none is live; past a stop, at most one does.
StartRun ==
    /\ Active /\ ~live /\ ~spent
    /\ live' = TRUE /\ spent' = stopped
    /\ UNCHANGED <<phase, stopped>>

\* The record says running for a live run only.
AnnounceRun ==
    /\ Active /\ live
    /\ phase' = "running"
    /\ UNCHANGED <<live, stopped, spent>>

FinishRun ==
    /\ live /\ live' = FALSE
    /\ UNCHANGED <<phase, stopped, spent>>

AskStop ==
    /\ ~stopped /\ stopped' = TRUE
    /\ UNCHANGED <<phase, live, spent>>

\* A terminal state is reported of a command that has no run.
Terminate ==
    /\ Active /\ ~live
    /\ phase' \in {"exited", "failed"}
    /\ UNCHANGED <<live, stopped, spent>>

Remove ==
    /\ phase = "exited" /\ phase' = "removed"
    /\ UNCHANGED <<live, stopped, spent>>

LifecycleNext == StartRun \/ AnnounceRun \/ FinishRun \/ AskStop \/ Terminate \/ Remove

Spec == LifecycleInit /\ [][LifecycleNext]_lifecycleVars
=============================================================================
