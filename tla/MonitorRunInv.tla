---------------------------- MODULE MonitorRunInv ----------------------------
(***************************************************************************)
(* The parts of the inductive invariant of MonitorRun that its safety      *)
(* properties follow from.  TLC checks them on the runs' instances, and    *)
(* MonitorRunProofs proves them for every instance.                        *)
(***************************************************************************)
EXTENDS MonitorRun

\* The stages from the publication of a run's handles to the end of the run,
\* and those from the return of cmd.Wait on.
HeldPcs   == RunPcs \ {"started"}
LaunchPcs == {"first", "config", "setup"}
SweepPcs  == {"reaped", "sweep", "scan", "reap", "check", "kill", "grace", "await",
              "awaitReap", "complete", "completeReap", "completeWait", "note",
              "noteEvent", "awaited"} \cup SweptPcs

\* procMu's handles name the latest run exactly while it is held.
HandlesInv ==
    /\ pc \in HeldPcs => runPgid = run
    /\ pc \notin HeldPcs => runPgid = 0 /\ ~cmd
    /\ pc \in RunPcs => run # 0
    /\ cmd => pc \in {"published", "announced", "waiting", "reaped"}

\* A stop is latched from its first step on; one that landed on a run found
\* the latest one, and the loop starts no other.
StopInv ==
    /\ \A s \in Stops : rpc[s] # "idle" => stopRequested
    /\ \A s \in Stops : landed[s] # 0 =>
            stopRequested /\ landed[s] = run /\ pc \notin LaunchPcs
    /\ stopRequested => /\ stopRun <= run /\ run <= stopRun + 1
                        /\ run = stopRun + 1 => pc \notin LaunchPcs

\* The force_killed anomaly is recorded as the group is given up and says what
\* the latch says from then on; the log is ahead of the row.
LatchInv ==
    /\ pc \in RunPcs => "force_killed" \notin anomalies
    /\ pc \notin RunPcs => ("force_killed" \in anomalies <=> forceKilled)
    /\ pc \in {"exitLogged", "abortLogged", "failLogged"} =>
            /\ lastEvent = IF pc = "failLogged" THEN "failed" ELSE "exited"
            /\ evForced <=> forceKilled
    /\ pc \notin {"remove", "returned"} => state \in {"starting", "running"}
    /\ pc = "remove" => state = "exited"
    /\ state \in {"exited", "failed"} => lastEvent = state /\ (evForced <=> stForced)

\* Some graceful stop is past its procMu section.
GracefulStopMade ==
    \E s \in Stops : sig[s] = "TERM" /\ rpc[s] \notin {"idle", "latch", "lock"}

\* Everything that can force a kill comes from a graceful stop.
EscalationInv ==
    /\ gracefulStop => GracefulStopMade
    /\ forceKilled => GracefulStopMade
    /\ \A s \in Stops : escalating[s] => GracefulStopMade
    /\ \A s \in Stops : timer[s] # "off" => GracefulStopMade
    /\ seqBy # NoStop => sig[seqBy] = "TERM" /\ rpc[seqBy] = "returned"

\* An iteration that has started its child has one run more than restarts.
RestartInv ==
    /\ pc \in LaunchPcs => run = restarts
    /\ pc \in RunPcs \cup {"top", "ended", "exiting", "exitLogged", "remove"} =>
            run = restarts + 1

\* A sequence whose goroutine is not over belongs to a run that is held, and
\* that has not got past waiting for it.
SequenceInv ==
    /\ seq \notin {"none", "done"} /\ ~abandoned =>
            pc \in HeldPcs \ {"cancel", "giveUp"}

\* A terminating sweep that has sent a signal past a stop sends no other,
\* unless it is the last resort of a shutdown.
SweepInv ==
    /\ sweepLate <= 1
    /\ sweepLate # 0 => stopRequested
    /\ pc = "kill" /\ ~lastResort => sweepLate = 0

\* The child is reaped before the sweep, so what it left is the monitor's own
\* and in every scan, and what the sweep found gone cannot come back.
LeftByChild == {p \in Survivors : proc[p] = "alive" /\ Parent(p) = "child"}
SurvivorInv ==
    /\ pc \in SweepPcs => proc["child"] = "gone"
    /\ pc \in {"reap", "awaitReap", "completeReap"} => LeftByChild \subseteq batch
    /\ pc \in SweptPcs \cup {"awaited"} /\ ~unreaped /\ ~ScanMayFail =>
            LeftByChild = {}

\* Once forced, a kill stays on record to the end of the loop.
ForcedInv == forceKilled => stopRequested /\ pc \notin LaunchPcs \cup {"started"}

\* A stop arms one timer at most: itself, or through the sequence it began.
TimerInv ==
    /\ \A s \in Stops : rpc[s] \in {"idle", "latch", "lock"} => timer[s] = "off"
    /\ seqBy # NoStop /\ seq \in {"idle", "begun", "command", "lock"} =>
            timer[seqBy] = "off"

SafetyInv ==
    /\ HandlesInv /\ StopInv /\ LatchInv /\ EscalationInv /\ RestartInv
    /\ SequenceInv /\ SweepInv /\ SurvivorInv /\ ForcedInv
    /\ TimerInv
=============================================================================
