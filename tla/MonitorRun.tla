------------------------------ MODULE MonitorRun ------------------------------
(***************************************************************************)
(* One monitor process supervising one command: the run loop (runLoop,     *)
(* runOnce), the stop RPC (StopProcess), the deadline a graceful stop arms *)
(* (escalateStop), the stop sequence of a command with a stop command      *)
(* (stopSequence) and the survivor sweep at the end of a run.              *)
(*                                                                         *)
(* Each of them is a goroutine of its own in the code; here each is a      *)
(* process with its own program counter, and one action is one section the *)
(* code runs without letting go of procMu, one atomic load or store, or    *)
(* one system call whose effect another goroutine can see.                 *)
(*                                                                         *)
(* The processes of a run are three slots: the child, a helper in the      *)
(* child's process group, and a stray that moved into a process group of   *)
(* its own without leaving the session.  A pid or a process group id is    *)
(* the number of the run it belongs to, 0 standing for none.               *)
(***************************************************************************)
EXTENDS Naturals, FiniteSets

CONSTANTS
    Stops,            \* the stop RPCs clients may send
    NoStop,           \* stands for a nil *time.Timer and for an unbegun sequence
    Policy,           \* the restart policy: "no", "on-failure" or "always"
    MaxRetries,       \* of the on-failure policy; 0 is no limit
    HasStopCommand,   \* whether the command is configured with a stop command
    AutoRemove,       \* whether the command carries the auto-remove annotation
    Leaves,           \* which survivors the command may leave behind
    Sigs,             \* the signals clients stop with
    ScanMayFail,      \* whether reading /proc may fail
    MayShutdown,      \* whether the monitor may get SIGTERM
    MaxRuns           \* bound: how many runs the loop makes under "always"

Group     == {"child", "helper"}
Survivors == {"helper", "stray"}
Slots     == Group \cup Survivors

ASSUME ConstantsAssumption ==
    /\ NoStop \notin Stops
    /\ Policy \in {"no", "on-failure", "always"}
    /\ MaxRetries \in Nat
    /\ HasStopCommand \in BOOLEAN
    /\ AutoRemove \in BOOLEAN
    /\ Leaves \subseteq Survivors
    /\ Sigs \subseteq {"TERM", "KILL"}
    /\ ScanMayFail \in BOOLEAN
    /\ MayShutdown \in BOOLEAN
    /\ MaxRuns \in Nat

VARIABLES
    \* the run goroutine
    pc, run, restarts, exit, anomalies,
    batch, todo, aim, sweepSig, lastResort, unreaped,
    \* the processes of the latest run, and the monitor's own context
    proc, strayOf, ctxDone, ctxSignalled,
    \* the atomics, and what procMu guards
    stopRequested, stopKilled, gracefulStop, forceKilled,
    cmd, runPgid, stopSeq, stopDeadline,
    \* the stop RPCs and the timers they arm
    rpc, sig, timed, escalating, target, timer,
    \* the run's stop sequence
    seq, seqBy, seqCancelled, abandoned,
    \* the command's record in the store, and its last events
    state, stForced, lastEvent, evForced, forcedEvents,
    \* history: the run a stop landed in, and what was sent behind its back
    stopRun, landed, sweepLate

loopVars  == <<run, restarts, anomalies, cmd, runPgid>>
sweepVars == <<batch, todo, aim, sweepSig, lastResort, unreaped, sweepLate>>
rowVars   == <<state, stForced, lastEvent, evForced>>
procVars  == <<proc, exit>>
latchVars == <<stopKilled, gracefulStop, forceKilled, forcedEvents>>
seqVars   == <<stopSeq, seq, seqBy, seqCancelled, abandoned>>
timerVars == <<timer, stopDeadline>>
envVars   == <<strayOf, ctxDone, ctxSignalled>>
rpcVars   == <<rpc, sig, timed, escalating, target, stopRequested, stopRun, landed>>

\* What only the run goroutine writes, and what it hardly ever does.
runOwned == <<pc, loopVars, sweepVars, rowVars>>
outside  == <<envVars, rpcVars, timerVars>>

vars == <<runOwned, procVars, latchVars, seqVars, outside>>

-----------------------------------------------------------------------------
(* The processes of a run. *)

\* Whose child a survivor was: once that is gone, the monitor's.
Parent(p) == IF p = "helper" THEN "child" ELSE strayOf
Orphaned(p) == proc[Parent(p)] \in {"zombie", "gone"}

\* Somebody is left in the process group for a signal to reach; a process
\* that has exited and is not reaped yet still takes one.
GroupExists == \E p \in Group : proc[p] \in {"alive", "zombie"}

\* What kill(2) does to the processes in ps: SIGKILL ends those that are
\* alive; any other signal ends the ones that do not handle or ignore it.
Signalled(ps, s) ==
    {[p \in Slots |-> IF p \in dead THEN "zombie" ELSE proc[p]] :
        dead \in IF s = "KILL"
                 THEN {{p \in ps : proc[p] = "alive"}}
                 ELSE SUBSET {p \in ps : proc[p] = "alive"}}

\* A child that a signal ends: SIGKILL leaves a non-zero exit code, a signal
\* it handles may leave either.
ExitAfter(s) ==
    IF proc["child"] = "alive" /\ proc'["child"] = "zombie"
    THEN exit' \in IF s = "KILL" THEN {"nonzero"} ELSE {"zero", "nonzero"}
    ELSE UNCHANGED exit

\* signalProcessGroup(pgid, s): a group that is not the latest run's has
\* nobody left in it.
SignalGroup(pgid, s) ==
    IF pgid = run
    THEN proc' \in Signalled(Group, s) /\ ExitAfter(s)
    ELSE UNCHANGED <<proc, exit>>

\* runSurvivors: what a scan of /proc finds of the run's session, the children
\* of the monitor in it whether they have exited or not.  A scan by process
\* group would miss what moved out of the group.
FoundInGroup == {p \in Survivors \cap Group : proc[p] \in {"alive", "zombie"}}
Found == {p \in Survivors : proc[p] \in {"alive", "zombie"} /\ Orphaned(p)}

\* reapGone on the batch a scan found: those that have exited are reaped, the
\* others are left.
Reaped == [p \in Slots |-> IF p \in batch /\ proc[p] = "zombie"
                           THEN "gone" ELSE proc[p]]
Left == {p \in batch : proc[p] = "alive"}

\* The command leaves a process behind: in its own group, or in another one.
Spawn ==
    /\ \E p \in Leaves :
        /\ proc[p] = "none"
        /\ \E q \in IF p = "helper" THEN {"child"} ELSE Group :
            /\ proc[q] = "alive"
            /\ strayOf' = IF p = "helper" THEN strayOf ELSE q
        /\ proc' = [proc EXCEPT ![p] = "alive"]
    /\ UNCHANGED <<runOwned, rpcVars, timerVars, ctxDone, ctxSignalled, exit,
                   latchVars, seqVars>>

ChildExit ==
    /\ proc["child"] = "alive"
    /\ proc' = [proc EXCEPT !["child"] = "zombie"]
    /\ exit' \in {"zero", "nonzero"}
    /\ UNCHANGED <<runOwned, outside, latchVars, seqVars>>

\* A survivor exits; while its parent lives the parent may have reaped it.
SurvivorExit ==
    /\ \E p \in Survivors :
        /\ proc[p] = "alive"
        /\ \E to \in {"zombie"} \cup
                     (IF Orphaned(p) THEN {} ELSE {"gone"}) :
             proc' = [proc EXCEPT ![p] = to]
    /\ UNCHANGED <<runOwned, outside, exit, latchVars, seqVars>>

-----------------------------------------------------------------------------
(* The monitor's shutdown: SIGTERM cancels the context everything runs on.  *)

Shutdown ==
    /\ MayShutdown /\ ~ctxDone
    /\ ctxDone' = TRUE
    /\ UNCHANGED <<runOwned, procVars, latchVars, seqVars, timerVars, strayOf,
                   ctxSignalled, rpcVars>>

\* exec watches the context from Start until Wait returns, and signals the
\* whole group through cmd.Cancel.
CancelCommand ==
    /\ ctxDone /\ ~ctxSignalled
    /\ proc["child"] \in {"alive", "zombie"}
    /\ ctxSignalled' = TRUE
    /\ SignalGroup(run, "TERM")
    /\ UNCHANGED <<runOwned, latchVars, seqVars, timerVars, strayOf, ctxDone,
                   rpcVars>>

NoWaitDelay == FALSE

\* cmd.WaitDelay: a child that outlives the cancellation is killed, alone.
WaitDelayKill ==
    /\ ctxSignalled /\ proc["child"] = "alive"
    /\ proc' = [proc EXCEPT !["child"] = "zombie"]
    /\ exit' = "nonzero"
    /\ UNCHANGED <<runOwned, outside, latchVars, seqVars>>

-----------------------------------------------------------------------------
(* The stop's deadline: a timer per stop, of which stopDeadline names the   *)
(* one procMu holds.  A timer that has fired is past stopping.              *)

Forgotten == [t \in Stops |-> IF t = stopDeadline THEN NoStop ELSE timer[t]]
Disarmed == [t \in Stops |-> IF t = stopDeadline /\ timer[t] = "armed"
                             THEN "off" ELSE timer[t]]
NeverArmed(s) == Disarmed
ArmedFor(s) == [Disarmed EXCEPT ![s] = "armed"]

-----------------------------------------------------------------------------
(* The run loop up to a published run. *)

FirstIteration ==
    /\ pc = "first"
    /\ pc' = "config"
    /\ lastEvent' = "starting"
    /\ UNCHANGED <<outside, loopVars, sweepVars, state, stForced, evForced,
                   procVars, latchVars, seqVars>>

LoopTopUnchecked ==
    /\ pc = "top"
    /\ pc' = "config"
    /\ restarts' = restarts + 1
    /\ lastEvent' = "starting"
    /\ UNCHANGED <<outside, run, anomalies, cmd, runPgid, sweepVars, state,
                   stForced, evForced, procVars, latchVars, seqVars>>

\* The top of the loop: the last place a stop ends it.
LoopTop ==
    /\ pc = "top"
    /\ \/ /\ stopRequested
          /\ pc' = "exiting"
          /\ UNCHANGED <<restarts, lastEvent>>
       \/ /\ ~stopRequested
          /\ pc' = "config"
          /\ restarts' = restarts + 1
          /\ lastEvent' = "starting"
    /\ UNCHANGED <<outside, run, anomalies, cmd, runPgid, sweepVars, state,
                   stForced, evForced, procVars, latchVars, seqVars>>

ConfigFails ==
    /\ pc = "config"
    /\ pc' = "failing"
    /\ UNCHANGED <<outside, loopVars, sweepVars, rowVars, procVars, latchVars,
                   seqVars>>

\* The top of runOnce: the run takes the record over from the one before it.
BeginRun ==
    /\ pc = "config"
    /\ pc' = "setup"
    /\ anomalies' = {}
    /\ gracefulStop' = FALSE
    /\ forceKilled' = FALSE
    /\ UNCHANGED <<outside, run, restarts, cmd, runPgid, sweepVars, rowVars,
                   procVars, stopKilled, forcedEvents, seqVars>>

\* The log writer, the pipes or the pty, or the start itself fails.  A context
\* that is done already makes the start fail; the loop then reports an exit.
SetupFails ==
    /\ pc = "setup"
    /\ \/ ctxDone /\ pc' = "aborting"
       \/ ~ctxDone /\ pc' = "failing"
    /\ UNCHANGED <<outside, loopVars, sweepVars, rowVars, procVars, latchVars,
                   seqVars>>

\* The child is started, and nothing outside the run goroutine knows it yet.
StartChild ==
    /\ pc = "setup" /\ ~ctxDone
    /\ pc' = "started"
    /\ run' = run + 1
    /\ exit' = "none"
    /\ proc' = [p \in Slots |-> IF p = "child" THEN "alive" ELSE "none"]
    /\ strayOf' = "child"
    /\ sweepLate' = 0
    /\ UNCHANGED <<rpcVars, timerVars, ctxDone, ctxSignalled, restarts, anomalies,
                   cmd, runPgid, batch, todo, aim, sweepSig, lastResort, unreaped,
                   rowVars, latchVars, seqVars>>

\* startStopSequence, then the procMu section that publishes the handles.
PublishRun ==
    /\ pc = "started"
    /\ pc' = "published"
    /\ cmd' = TRUE
    /\ runPgid' = run
    /\ stopSeq' = HasStopCommand
    /\ seq' = IF HasStopCommand THEN "idle" ELSE "none"
    /\ seqBy' = NoStop
    /\ seqCancelled' = FALSE
    /\ abandoned' = FALSE
    /\ UNCHANGED <<outside, run, restarts, anomalies, sweepVars, rowVars,
                   procVars, latchVars>>

\* setRunning: the event goes to the log ahead of the state row.
LogRunning ==
    /\ pc = "published"
    /\ pc' = "announced"
    /\ lastEvent' = "running"
    /\ UNCHANGED <<outside, loopVars, sweepVars, state, stForced, evForced,
                   procVars, latchVars, seqVars>>

StoreRunning ==
    /\ pc = "announced"
    /\ pc' = "waiting"
    /\ state' = "running"
    /\ stForced' = FALSE
    /\ UNCHANGED <<outside, loopVars, sweepVars, lastEvent, evForced, procVars,
                   latchVars, seqVars>>

-----------------------------------------------------------------------------
(* The end of a run: the child is reaped, the session swept, the output     *)
(* drained, the stop sequence finished and the process group given up.      *)

\* cmd.Wait returns.  A cancelled context turns a clean exit into an error.
WaitReturns ==
    /\ pc = "waiting"
    /\ proc["child"] = "zombie"
    /\ pc' = "reaped"
    /\ proc' = [proc EXCEPT !["child"] = "gone"]
    /\ exit' \in {exit} \cup
                 (IF ctxSignalled /\ exit = "zero" THEN {"error"} ELSE {})
    /\ UNCHANGED <<outside, loopVars, sweepVars, rowVars, latchVars, seqVars>>

ClearHandlesKeepsCmd ==
    /\ pc = "reaped"
    /\ pc' = "sweep"
    /\ UNCHANGED <<outside, loopVars, sweepVars, rowVars, procVars, latchVars,
                   seqVars>>

ClearHandles ==
    /\ pc = "reaped"
    /\ pc' = "sweep"
    /\ cmd' = FALSE
    /\ UNCHANGED <<outside, run, restarts, anomalies, runPgid, sweepVars,
                   rowVars, procVars, latchVars, seqVars>>

\* sweepSurvivors: a stop in progress takes the survivors over at once.
SweepStart ==
    /\ pc = "sweep"
    /\ pc' = IF stopRequested THEN "await" ELSE "scan"
    /\ lastResort' = FALSE
    /\ UNCHANGED <<outside, loopVars, batch, todo, aim, sweepSig, unreaped,
                   sweepLate, rowVars, procVars, latchVars, seqVars>>

\* Whether the terminating sweep has to hand the survivors over to a stop.
Halted == ~lastResort /\ stopRequested

\* A round of a sweep starts with a scan.
SweepScan ==
    /\ pc = "scan"
    /\ pc' = "reap"
    /\ batch' = Found
    /\ UNCHANGED <<outside, loopVars, todo, aim, sweepSig, lastResort, unreaped,
                   sweepLate, rowVars, procVars, latchVars, seqVars>>

\* The round goes on with what the scan found: reap, then finish, hand over, give
\* up at the bound, or signal what is left.
SweepReap ==
    /\ pc = "reap"
    /\ proc' = Reaped
    /\ \/ /\ Left = {}
          /\ pc' = "drain"
          /\ unreaped' = FALSE
          /\ UNCHANGED <<batch, todo, sweepSig>>
       \/ /\ Left # {} /\ Halted
          /\ pc' = "await"
          /\ UNCHANGED <<batch, todo, sweepSig, unreaped>>
       \/ /\ Left # {} /\ ~Halted
          /\ pc' = "drain"
          /\ unreaped' = TRUE
          /\ UNCHANGED <<batch, todo, sweepSig>>
       \/ /\ Left # {} /\ ~Halted
          /\ pc' = "check"
          /\ batch' = Left
          /\ todo' = Left
          /\ sweepSig' = "TERM"
          /\ UNCHANGED unreaped
    /\ UNCHANGED <<outside, loopVars, aim, lastResort, sweepLate, rowVars, exit,
                   latchVars, seqVars>>

\* A scan of /proc that fails counts nobody, in the sweep and in the await.
ScanFails ==
    /\ ScanMayFail
    /\ pc \in {"scan", "await", "complete"}
    /\ pc' = IF pc = "scan" THEN "drain" ELSE "awaited"
    /\ unreaped' = FALSE
    /\ UNCHANGED <<outside, loopVars, batch, todo, aim, sweepSig, lastResort,
                   sweepLate, rowVars, procVars, latchVars, seqVars>>

\* signalEach: the stop is looked for before each signal, not with it.
SweepCheck ==
    /\ pc = "check"
    /\ \/ /\ todo = {}
          /\ pc' = "grace"
          /\ UNCHANGED <<todo, aim>>
       \/ /\ todo # {} /\ Halted
          /\ pc' = "await"
          /\ UNCHANGED <<todo, aim>>
       \/ /\ ~Halted
          /\ \E p \in todo : aim' = p /\ todo' = todo \ {p}
          /\ pc' = "kill"
    /\ UNCHANGED <<outside, loopVars, batch, sweepSig, lastResort, unreaped,
                   sweepLate, rowVars, procVars, latchVars, seqVars>>

SweepKill ==
    /\ pc = "kill"
    /\ pc' = "check"
    /\ proc' \in Signalled({aim}, sweepSig)
    /\ sweepLate' = IF ~lastResort /\ stopRequested THEN sweepLate + 1 ELSE sweepLate
    /\ UNCHANGED <<outside, loopVars, batch, todo, aim, sweepSig, lastResort,
                   unreaped, rowVars, exit, latchVars, seqVars>>

\* waitGoneUntil: what SIGTERM did not end within the grace gets SIGKILL, and
\* after SIGKILL the session is scanned again.
SweepGrace ==
    /\ pc = "grace"
    /\ proc' = Reaped
    /\ \/ /\ sweepSig = "TERM" /\ Left # {}
          /\ pc' = "check"
          /\ sweepSig' = "KILL"
          /\ batch' = Left
          /\ todo' = Left
       \/ /\ sweepSig = "KILL" \/ Left = {}
          /\ pc' = "scan"
          /\ UNCHANGED <<sweepSig, batch, todo>>
    /\ UNCHANGED <<outside, loopVars, aim, lastResort, unreaped, sweepLate,
                   rowVars, exit, latchVars, seqVars>>

\* awaitRunSurvivors: scans, reaps and waits, and sends nothing of its own.
Await ==
    /\ pc = "await"
    /\ pc' = "awaitReap"
    /\ batch' = Found
    /\ UNCHANGED <<outside, loopVars, todo, aim, sweepSig, lastResort, unreaped,
                   sweepLate, rowVars, procVars, latchVars, seqVars>>

AwaitReap ==
    /\ pc = "awaitReap"
    /\ proc' = Reaped
    /\ \/ /\ Left = {}
          /\ pc' = "awaited"
          /\ unreaped' = FALSE
       \/ /\ Left # {} /\ stopKilled
          /\ pc' = "complete"
          /\ UNCHANGED unreaped
       \/ /\ Left # {} /\ ~stopKilled /\ ctxDone
          /\ pc' = "awaited"
          /\ unreaped' = TRUE
       \/ /\ Left # {} /\ ~stopKilled /\ ~ctxDone
          /\ pc' = "await"
          /\ UNCHANGED unreaped
    /\ UNCHANGED <<outside, loopVars, batch, todo, aim, sweepSig, lastResort,
                   sweepLate, rowVars, exit, latchVars, seqVars>>

\* completeStopKill: a scan of its own, round after round.
CompleteStopKill ==
    /\ pc = "complete"
    /\ pc' = "completeReap"
    /\ batch' = Found
    /\ UNCHANGED <<outside, loopVars, todo, aim, sweepSig, lastResort, unreaped,
                   sweepLate, rowVars, procVars, latchVars, seqVars>>

\* The stop's SIGKILL is carried on by pid to a survivor outside the command's
\* group, which it reaches even if that has just exited by itself; a member of
\* the group is only waited for.
CompleteReap ==
    /\ pc = "completeReap"
    /\ \/ /\ Left = {}
          /\ pc' = "awaited"
          /\ unreaped' = FALSE
          /\ proc' = Reaped
       \/ /\ Left # {}
          /\ pc' = "awaited"
          /\ unreaped' = TRUE
          /\ proc' = Reaped
       \/ /\ "stray" \in Left
          /\ pc' = "note"
          /\ proc' = [Reaped EXCEPT !["stray"] = "zombie"]
          /\ UNCHANGED unreaped
       \/ /\ Left # {} /\ "stray" \notin Left
          /\ pc' = "completeWait"
          /\ proc' = Reaped
          /\ UNCHANGED unreaped
    /\ UNCHANGED <<outside, loopVars, batch, todo, aim, sweepSig, lastResort,
                   sweepLate, rowVars, exit, latchVars, seqVars>>

\* waitGone: what is left exits and the session is scanned again, or the bound
\* runs out first.
CompleteWait ==
    /\ pc = "completeWait"
    /\ proc' = Reaped
    /\ \/ /\ \E p \in batch : proc[p] # "alive"
          /\ pc' = "complete"
          /\ UNCHANGED unreaped
       \/ /\ Left # {}
          /\ pc' = "awaited"
          /\ unreaped' = TRUE
    /\ UNCHANGED <<outside, loopVars, batch, todo, aim, sweepSig, lastResort,
                   sweepLate, rowVars, exit, latchVars, seqVars>>

\* noteSurvivorKilled: latches like forceKill, for a graceful stop only.
NoteSurvivorKilled ==
    /\ pc = "note"
    /\ pc' = IF gracefulStop /\ ~forceKilled THEN "noteEvent" ELSE "completeWait"
    /\ forceKilled' = (forceKilled \/ gracefulStop)
    /\ UNCHANGED <<outside, loopVars, sweepVars, rowVars, procVars, stopKilled,
                   gracefulStop, forcedEvents, seqVars>>

NoteEvent ==
    /\ pc = "noteEvent"
    /\ pc' = "completeWait"
    /\ forcedEvents' = forcedEvents + 1
    /\ UNCHANGED <<outside, loopVars, sweepVars, rowVars, procVars, stopKilled,
                   gracefulStop, forceKilled, seqVars>>

\* The rest of sweepSurvivors: a shutdown ahead of the stop's SIGKILL leaves
\* nobody to see the stop through, so the terminating sweep runs after all.
AwaitReturns ==
    /\ pc = "awaited"
    /\ IF ctxDone /\ ~stopKilled
       THEN pc' = "scan" /\ lastResort' = TRUE
       ELSE pc' = "drain" /\ UNCHANGED lastResort
    /\ UNCHANGED <<outside, loopVars, batch, todo, aim, sweepSig, unreaped,
                   sweepLate, rowVars, procVars, latchVars, seqVars>>

\* The locals of the sweep are gone once it has returned.
SweepLocalsReset ==
    /\ batch' = {} /\ todo' = {} /\ aim' = "helper"
    /\ sweepSig' = "TERM" /\ lastResort' = FALSE

\* awaitReaders: a reader still blocked at the bound is left behind.
DrainReaders ==
    /\ pc = "drain"
    /\ pc' = "finish"
    /\ \E detached \in BOOLEAN :
         anomalies' = anomalies
                      \cup (IF unreaped THEN {"survivors_unreaped"} ELSE {})
                      \cup (IF detached THEN {"reader_detached"} ELSE {})
    /\ SweepLocalsReset
    /\ UNCHANGED <<outside, run, restarts, cmd, runPgid, unreaped, sweepLate,
                   rowVars, procVars, latchVars, seqVars>>

\* finishStopSequence: a sequence no stop has begun is retired under procMu,
\* one that has begun is waited for.
FinishSequence ==
    /\ pc = "finish"
    /\ \/ /\ seq = "none"
          /\ pc' = "giveUp"
          /\ UNCHANGED <<stopSeq, seqCancelled>>
       \/ /\ seq # "none" /\ seqBy = NoStop
          /\ pc' = "retire"
          /\ stopSeq' = FALSE
          /\ seqCancelled' = TRUE
       \/ /\ seq # "none" /\ seqBy # NoStop
          /\ pc' = "join"
          /\ UNCHANGED <<stopSeq, seqCancelled>>
    /\ UNCHANGED <<outside, loopVars, sweepVars, rowVars, procVars, latchVars,
                   seq, seqBy, abandoned>>

JoinUnawaited ==
    /\ pc \in {"retire", "join"}
    /\ pc' = "cancel"
    /\ UNCHANGED <<outside, loopVars, sweepVars, rowVars, procVars, latchVars,
                   seqVars>>

\* The bound of the wait is past every bound of the sequence but for a stop
\* command that SIGKILL cannot end, which is left behind.
JoinSequence ==
    /\ \/ /\ pc \in {"retire", "join"} /\ seq = "done"
          /\ UNCHANGED abandoned
       \/ /\ pc = "join" /\ seq = "command"
          /\ abandoned' = TRUE
    /\ pc' = "cancel"
    /\ UNCHANGED <<outside, loopVars, sweepVars, rowVars, procVars, latchVars,
                   stopSeq, seq, seqBy, seqCancelled>>

\* The cancel finishStopSequence defers.
CancelSequence ==
    /\ pc = "cancel"
    /\ pc' = "giveUp"
    /\ seqCancelled' = TRUE
    /\ UNCHANGED <<outside, loopVars, sweepVars, rowVars, procVars, latchVars,
                   stopSeq, seq, seqBy, abandoned>>

\* What the run reports once its group is given up.
AnomaliesUnlatched == anomalies
RunAnomalies == anomalies \cup (IF forceKilled THEN {"force_killed"} ELSE {})

\* The procMu section that gives the group up and reads the latch.
GiveUpGroup ==
    /\ pc = "giveUp"
    /\ pc' = "ended"
    /\ runPgid' = 0
    /\ stopSeq' = FALSE
    /\ stopDeadline' = NoStop
    /\ timer' = Disarmed
    /\ anomalies' = RunAnomalies
    /\ UNCHANGED <<run, restarts, cmd, sweepVars, rowVars, procVars, latchVars,
                   seq, seqBy, seqCancelled, abandoned, envVars, rpcVars>>

-----------------------------------------------------------------------------
(* The run loop past a run. *)

\* The restart policy; the loop itself makes MaxRuns runs at most.
RestartAllowed ==
    /\ ~ctxDone /\ run < MaxRuns
    /\ \/ Policy = "always"
       \/ /\ Policy = "on-failure" /\ exit = "nonzero"
          /\ MaxRetries = 0 \/ restarts < MaxRetries

EndRun ==
    /\ pc = "ended"
    /\ pc' = IF exit = "error" THEN "aborting"
             ELSE IF RestartAllowed THEN "top" ELSE "exiting"
    /\ UNCHANGED <<outside, loopVars, sweepVars, rowVars, procVars, latchVars,
                   seqVars>>

\* setExited and setFailed: the terminal event ahead of the state row.
LogTerminal ==
    /\ pc \in {"exiting", "aborting", "failing"}
    /\ pc' = CASE pc = "exiting"  -> "exitLogged"
               [] pc = "aborting" -> "abortLogged"
               [] pc = "failing"  -> "failLogged"
    /\ lastEvent' = IF pc = "failing" THEN "failed" ELSE "exited"
    /\ evForced' = ("force_killed" \in anomalies)
    /\ UNCHANGED <<outside, loopVars, sweepVars, state, stForced, procVars,
                   latchVars, seqVars>>

StoreTerminal ==
    /\ pc \in {"exitLogged", "abortLogged", "failLogged"}
    /\ pc' = IF pc = "exitLogged" THEN "remove" ELSE "returned"
    /\ state' = IF pc = "failLogged" THEN "failed" ELSE "exited"
    /\ stForced' = forceKilled
    /\ UNCHANGED <<outside, loopVars, sweepVars, lastEvent, evForced, procVars,
                   latchVars, seqVars>>

\* maybeAutoRemove
RemoveRecord ==
    /\ pc = "remove"
    /\ pc' = "returned"
    /\ state' = IF AutoRemove THEN "removed" ELSE state
    /\ UNCHANGED <<outside, loopVars, sweepVars, stForced, lastEvent, evForced,
                   procVars, latchVars, seqVars>>

-----------------------------------------------------------------------------
(* StopProcess, one call of it per member of Stops.  The gRPC server serves *)
(* from before the first iteration until the loop has returned.             *)

\* The restart suppression is latched ahead of everything else.
StopRequest(s) ==
    /\ rpc[s] = "idle" /\ pc # "returned"
    /\ \E g \in Sigs, t \in BOOLEAN :
        /\ g = "KILL" => ~t
        /\ sig' = [sig EXCEPT ![s] = g]
        /\ timed' = [timed EXCEPT ![s] = t]
        /\ rpc' = [rpc EXCEPT ![s] = IF g = "KILL" THEN "latch" ELSE "lock"]
    /\ stopRequested' = TRUE
    /\ stopRun' = IF stopRequested THEN stopRun ELSE run
    /\ UNCHANGED <<runOwned, procVars, latchVars, seqVars, timerVars, envVars,
                   escalating, target, landed>>

StopLatchKill(s) ==
    /\ rpc[s] = "latch"
    /\ rpc' = [rpc EXCEPT ![s] = "lock"]
    /\ stopKilled' = TRUE
    /\ UNCHANGED <<runOwned, procVars, gracefulStop, forceKilled, forcedEvents,
                   seqVars, timerVars, envVars, sig, timed, escalating, target,
                   stopRequested, stopRun, landed>>

\* The procMu section of a graceful stop of a run with a stop sequence: the
\* first one begins it, a later one changes nothing.
StopBeginsSequence(s) ==
    /\ rpc[s] = "lock" /\ sig[s] # "KILL" /\ stopSeq
    /\ rpc' = [rpc EXCEPT ![s] = "returned"]
    /\ landed' = [landed EXCEPT ![s] = runPgid]
    /\ gracefulStop' = TRUE
    /\ IF seqBy = NoStop
       THEN seqBy' = s /\ seq' = IF seq = "idle" THEN "begun" ELSE seq
       ELSE UNCHANGED <<seqBy, seq>>
    /\ UNCHANGED <<runOwned, procVars, stopKilled, forceKilled, forcedEvents,
                   stopSeq, seqCancelled, abandoned, timerVars, envVars, sig, timed,
                   escalating, target, stopRequested, stopRun>>

Escalates(s) == sig[s] = "KILL" /\ gracefulStop

\* The procMu section of any other stop: it replaces the deadline an earlier
\* stop armed, and learns whether it escalates a graceful stop.
StopReplacesDeadline(s) ==
    /\ rpc[s] = "lock" /\ (sig[s] = "KILL" \/ ~stopSeq)
    /\ landed' = [landed EXCEPT ![s] = runPgid]
    /\ escalating' = [escalating EXCEPT ![s] = Escalates(s)]
    /\ gracefulStop' = (gracefulStop \/ sig[s] # "KILL")
    /\ IF sig[s] # "KILL" /\ timed[s]
       THEN timer' = ArmedFor(s) /\ stopDeadline' = s
       ELSE timer' = Disarmed /\ stopDeadline' = NoStop
    /\ rpc' = [rpc EXCEPT ![s] = IF stopSeq THEN "cancel" ELSE "signal"]
    /\ UNCHANGED <<runOwned, procVars, stopKilled, forceKilled, forcedEvents,
                   seqVars, envVars, sig, timed, target, stopRequested,
                   stopRun>>

\* SIGKILL does not wait for a stop command that is still running.
StopCancelsSequence(s) ==
    /\ rpc[s] = "cancel"
    /\ rpc' = [rpc EXCEPT ![s] = "signal"]
    /\ seqCancelled' = TRUE
    /\ UNCHANGED <<runOwned, procVars, latchVars, stopSeq, seq, seqBy, abandoned,
                   timerVars, envVars, sig, timed, escalating, target,
                   stopRequested, stopRun, landed>>

\* The group signalRun aims at: the live child's, else the one the run keeps.
RunGroup == IF cmd THEN run ELSE runPgid

\* The procMu section of forceKill, which signals and latches in one.
ForceKill ==
    IF RunGroup # 0 /\ GroupExists
    THEN /\ SignalGroup(RunGroup, "KILL")
         /\ forceKilled' = TRUE
    ELSE UNCHANGED <<proc, exit, forceKilled>>

\* Whether the SIGKILL of this step is the one that latched.
LatchedAgain == forceKilled'
LatchedFirst == forceKilled' /\ ~forceKilled

StopForceKills(s) ==
    /\ rpc[s] = "signal" /\ escalating[s]
    /\ ForceKill
    /\ rpc' = [rpc EXCEPT ![s] = IF LatchedFirst THEN "event" ELSE "returned"]
    /\ UNCHANGED <<runOwned, stopKilled, gracefulStop, forcedEvents, seqVars,
                   timerVars, envVars, sig, timed, escalating, target,
                   stopRequested, stopRun, landed>>

\* SignalProcess reads the handles under procMu and signals after it.
StopReadsGroup(s) ==
    /\ rpc[s] = "signal" /\ ~escalating[s]
    /\ target' = [target EXCEPT ![s] = RunGroup]
    /\ rpc' = [rpc EXCEPT ![s] = IF RunGroup = 0 THEN "returned" ELSE "send"]
    /\ UNCHANGED <<runOwned, procVars, latchVars, seqVars, timerVars, envVars,
                   sig, timed, escalating, stopRequested, stopRun, landed>>

StopSignals(s) ==
    /\ rpc[s] = "send"
    /\ rpc' = [rpc EXCEPT ![s] = "returned"]
    /\ SignalGroup(target[s], sig[s])
    /\ target' = [target EXCEPT ![s] = 0]
    /\ UNCHANGED <<runOwned, latchVars, seqVars, timerVars, envVars, sig, timed,
                   escalating, stopRequested, stopRun, landed>>

\* emitForcedKill, after procMu is let go of.
StopEvent(s) ==
    /\ rpc[s] = "event"
    /\ rpc' = [rpc EXCEPT ![s] = "returned"]
    /\ forcedEvents' = forcedEvents + 1
    /\ UNCHANGED <<runOwned, procVars, stopKilled, gracefulStop, forceKilled,
                   seqVars, timerVars, envVars, sig, timed, escalating, target,
                   stopRequested, stopRun, landed>>

-----------------------------------------------------------------------------
(* escalateStop, on the goroutine of the timer the stop s armed. *)

TimerFires(s) ==
    /\ timer[s] = "armed"
    /\ timer' = [timer EXCEPT ![s] = "fired"]
    /\ UNCHANGED <<runOwned, procVars, latchVars, seqVars, stopDeadline,
                   envVars, rpcVars>>

EscalateLatches(s) ==
    /\ timer[s] = "fired"
    /\ timer' = [timer EXCEPT ![s] = "signal"]
    /\ stopKilled' = TRUE
    /\ UNCHANGED <<runOwned, procVars, gracefulStop, forceKilled, forcedEvents,
                   seqVars, stopDeadline, envVars, rpcVars>>

EscalateForceKills(s) ==
    /\ timer[s] = "signal"
    /\ ForceKill
    /\ timer' = [timer EXCEPT ![s] = IF LatchedFirst THEN "event" ELSE "done"]
    /\ UNCHANGED <<runOwned, stopKilled, gracefulStop, forcedEvents, seqVars,
                   stopDeadline, envVars, rpcVars>>

EscalateEvent(s) ==
    /\ timer[s] = "event"
    /\ timer' = [timer EXCEPT ![s] = "done"]
    /\ forcedEvents' = forcedEvents + 1
    /\ UNCHANGED <<runOwned, procVars, stopKilled, gracefulStop, forceKilled,
                   seqVars, stopDeadline, envVars, rpcVars>>

-----------------------------------------------------------------------------
(* The goroutine of the run's stop sequence. *)

SeqDone == seqCancelled \/ ctxDone

\* The select: a sequence that is done, or a stop that begins it.
SeqSelect ==
    /\ \/ seq = "begun" /\ seq' = "command"
       \/ seq \in {"idle", "begun"} /\ SeqDone /\ seq' = "done"
    /\ UNCHANGED <<runOwned, outside, procVars, latchVars, stopSeq, seqBy,
                   seqCancelled, abandoned>>

\* The stop command is over, within its bound or killed at it; a cancelled
\* sequence sends nothing after it.
SeqCommandOver ==
    /\ seq = "command"
    /\ seq' = IF SeqDone THEN "done" ELSE "lock"
    /\ UNCHANGED <<runOwned, outside, procVars, latchVars, stopSeq, seqBy,
                   seqCancelled, abandoned>>

\* The procMu section of sendStopSignal.
SeqLock ==
    /\ seq = "lock"
    /\ IF stopKilled \/ ~stopSeq
       THEN seq' = "done" /\ UNCHANGED timerVars
       ELSE /\ seq' = "send"
            /\ IF timed[seqBy]
               THEN timer' = ArmedFor(seqBy) /\ stopDeadline' = seqBy
               ELSE UNCHANGED timerVars
    /\ UNCHANGED <<runOwned, procVars, latchVars, stopSeq, seqBy, seqCancelled,
                   abandoned, envVars, rpcVars>>

\* The stop signal, to whoever is left in the group.
SeqSignals ==
    /\ seq = "send"
    /\ seq' = "done"
    /\ SignalGroup(run, sig[seqBy])
    /\ UNCHANGED <<runOwned, outside, latchVars, stopSeq, seqBy, seqCancelled,
                   abandoned>>

-----------------------------------------------------------------------------
Init ==
    /\ pc = "first" /\ run = 0 /\ restarts = 0 /\ exit = "none" /\ anomalies = {}
    /\ batch = {} /\ todo = {} /\ aim = "helper" /\ sweepSig = "TERM"
    /\ lastResort = FALSE /\ unreaped = FALSE
    /\ proc = [p \in Slots |-> "none"] /\ strayOf = "child"
    /\ ctxDone = FALSE /\ ctxSignalled = FALSE
    /\ stopRequested = FALSE /\ stopKilled = FALSE /\ gracefulStop = FALSE
    /\ forceKilled = FALSE
    /\ cmd = FALSE /\ runPgid = 0 /\ stopSeq = FALSE /\ stopDeadline = NoStop
    /\ rpc = [s \in Stops |-> "idle"] /\ sig = [s \in Stops |-> "TERM"]
    /\ timed = [s \in Stops |-> FALSE] /\ escalating = [s \in Stops |-> FALSE]
    /\ target = [s \in Stops |-> 0] /\ timer = [s \in Stops |-> "off"]
    /\ seq = "none" /\ seqBy = NoStop /\ seqCancelled = FALSE
    /\ abandoned = FALSE
    /\ state = "starting" /\ stForced = FALSE
    /\ lastEvent = "none" /\ evForced = FALSE /\ forcedEvents = 0
    /\ stopRun = 0 /\ landed = [s \in Stops |-> 0] /\ sweepLate = 0

\* The processes of the run, and what the outside does to the monitor.
Environment == Spawn \/ ChildExit \/ SurvivorExit \/ Shutdown

Exec == CancelCommand \/ WaitDelayKill

Launching == \/ FirstIteration \/ LoopTop \/ ConfigFails \/ BeginRun \/ SetupFails
             \/ StartChild \/ PublishRun \/ LogRunning \/ StoreRunning

Ending == \/ WaitReturns \/ ClearHandles \/ SweepStart \/ SweepScan \/ ScanFails
          \/ SweepReap \/ SweepCheck \/ SweepKill \/ SweepGrace \/ Await
          \/ AwaitReap \/ CompleteStopKill \/ CompleteReap \/ CompleteWait
          \/ NoteSurvivorKilled \/ NoteEvent \/ AwaitReturns \/ DrainReaders
          \/ FinishSequence \/ JoinSequence \/ CancelSequence \/ GiveUpGroup

Deciding == EndRun \/ LogTerminal \/ StoreTerminal \/ RemoveRecord

RunLoop == Launching \/ Ending \/ Deciding

StopProcess(s) == \/ StopLatchKill(s) \/ StopBeginsSequence(s)
                  \/ StopReplacesDeadline(s) \/ StopCancelsSequence(s)
                  \/ StopForceKills(s) \/ StopReadsGroup(s) \/ StopSignals(s)
                  \/ StopEvent(s)

EscalateStop(s) == \/ TimerFires(s) \/ EscalateLatches(s) \/ EscalateForceKills(s)
                   \/ EscalateEvent(s)

StopSequence == SeqSelect \/ SeqCommandOver \/ SeqLock \/ SeqSignals

Next == \/ Environment \/ Exec \/ RunLoop \/ StopSequence
        \/ \E s \in Stops : StopRequest(s) \/ StopProcess(s) \/ EscalateStop(s)

Spec == Init /\ [][Next]_vars

\* Goroutines are scheduled, timers fire, exec carries its cancellation out.
\* Nothing makes a client send a stop, or a command exit on its own.
Fairness ==
    /\ WF_vars(RunLoop) /\ WF_vars(StopSequence) /\ WF_vars(Exec)
    /\ \A s \in Stops : WF_vars(StopProcess(s)) /\ WF_vars(EscalateStop(s))

FairSpec == Spec /\ Fairness

-----------------------------------------------------------------------------
(* The type invariant. *)

LoopPcs   == {"first", "top", "config", "setup"}
RunPcs    == {"started", "published", "announced", "waiting", "reaped", "sweep",
              "scan", "reap", "check", "kill", "grace", "await", "awaitReap",
              "complete", "completeReap", "completeWait", "note", "noteEvent",
              "awaited", "drain", "finish", "retire", "join", "cancel",
              "giveUp"}
DecidePcs == {"ended", "exiting", "aborting", "failing", "exitLogged",
              "abortLogged", "failLogged", "remove", "returned"}

DataTypes ==
    /\ pc \in LoopPcs \cup RunPcs \cup DecidePcs
    /\ run \in Nat /\ restarts \in Nat
    /\ exit \in {"none", "zero", "nonzero", "error"}
    /\ anomalies \subseteq {"survivors_unreaped", "reader_detached", "force_killed"}
    /\ batch \subseteq Survivors /\ todo \subseteq Survivors /\ aim \in Survivors
    /\ sweepSig \in {"TERM", "KILL"} /\ sweepLate \in Nat
    /\ proc \in [Slots -> {"none", "alive", "zombie", "gone"}] /\ strayOf \in Group
    /\ runPgid \in Nat /\ stopDeadline \in Stops \cup {NoStop}
    /\ rpc \in [Stops -> {"idle", "latch", "lock", "cancel", "signal", "send",
                          "event", "returned"}]
    /\ sig \in [Stops -> {"TERM", "KILL"}]
    /\ target \in [Stops -> Nat] /\ landed \in [Stops -> Nat]
    /\ timer \in [Stops -> {"off", "armed", "fired", "signal", "event", "done"}]
    /\ seq \in {"none", "idle", "begun", "command", "lock", "send", "done"}
    /\ seqBy \in Stops \cup {NoStop}
    /\ state \in {"starting", "running", "exited", "failed", "removed"}
    /\ lastEvent \in {"none", "starting", "running", "exited", "failed"}
    /\ forcedEvents \in Nat /\ stopRun \in Nat

FlagTypes ==
    /\ lastResort \in BOOLEAN /\ unreaped \in BOOLEAN
    /\ ctxDone \in BOOLEAN /\ ctxSignalled \in BOOLEAN
    /\ stopRequested \in BOOLEAN /\ stopKilled \in BOOLEAN
    /\ gracefulStop \in BOOLEAN /\ forceKilled \in BOOLEAN
    /\ cmd \in BOOLEAN /\ stopSeq \in BOOLEAN
    /\ timed \in [Stops -> BOOLEAN] /\ escalating \in [Stops -> BOOLEAN]
    /\ seqCancelled \in BOOLEAN /\ abandoned \in BOOLEAN
    /\ stForced \in BOOLEAN /\ evForced \in BOOLEAN

TypeOK == DataTypes /\ FlagTypes

-----------------------------------------------------------------------------
(* Properties. *)

\* A stop ends the loop.  The check at the top of the loop and the start of
\* the child are apart, so one run may slip past a stop; never a second one,
\* whatever the restart policy, however many stops and deadlines are about.
OneRunPastStop == stopRequested => run <= stopRun + 1

\* A stop that found a published run is aimed at that run alone: no later run
\* is ever started, so neither the signal it still has to send nor the SIGKILL
\* of the deadline it armed can reach a process of another run.
StopKeepsToItsRun == \A s \in Stops : landed[s] # 0 => run = landed[s]

\* An observer that sees the command exited or failed finds the terminal event
\* in the log, and the event and the row agree on whether it was force-killed:
\* nothing latches forceKilled once the run has given its group up.
TerminalRowMatchesLog ==
    state \in {"exited", "failed"} => lastEvent = state /\ evForced = stForced

\* A forced kill is recorded by one event, appended or on its way, however many
\* SIGKILLs race to be the one: the deadline's, a client's, the run end's own.
EventWriters ==
    {<<"stop", s>> : s \in {t \in Stops : rpc[t] = "event"}}
      \cup {<<"timer", s>> : s \in {t \in Stops : timer[t] = "event"}}
      \cup (IF pc = "noteEvent" THEN {<<"run", NoStop>>} ELSE {})
ForcedKillLoggedOnce ==
    \/ ~forceKilled /\ forcedEvents = 0 /\ EventWriters = {}
    \/ forceKilled /\ forcedEvents = 1 /\ EventWriters = {}
    \/ forceKilled /\ forcedEvents = 0 /\ \E w \in EventWriters : EventWriters = {w}

\* Only a graceful stop is escalated: a SIGKILL no graceful stop came before
\* is not a forced kill.
ForcedKillEscalates ==
    forceKilled => \E s \in Stops : /\ sig[s] = "TERM"
                                    /\ rpc[s] \notin {"idle", "latch", "lock"}

\* The terminating sweep leaves the survivors to a stop that lands while it
\* runs: past the stop it sends at most the one signal it had already decided
\* on, since it looks for the stop before each signal and not with it.
SweepYieldsToStop == sweepLate <= 1

\* A run that reports no survivors has none of its child's own children left
\* alive once the sweep or the await is done: they are the monitor's from the
\* child's end on, so every scan finds them.
SweptPcs == {"drain", "finish", "retire", "join", "cancel", "giveUp", "ended"}
SessionSwept ==
    pc \in SweptPcs /\ ~unreaped /\ ~ScanMayFail =>
        \A p \in Survivors : proc[p] = "alive" => Parent(p) # "child"

\* The stop signal of a stop sequence is sent while the run still holds its
\* process group, which is what finishStopSequence waits for; only a sequence
\* whose stop command SIGKILL could not end may be left behind.
SequenceHoldsGroup == seq = "send" /\ ~abandoned => runPgid = run /\ run # 0

\* A restart that a stop cancelled is never counted as one: a loop that ends
\* on its own account has made one run more than it counted restarts.
RestartsCounted ==
    pc \in {"exiting", "exitLogged", "remove"} => run = restarts + 1

\* What a stop is good for: it ends the loop, one run that slipped past it
\* excepted, and nothing of it reaches a process of another run.
StopSafety == OneRunPastStop /\ StopKeepsToItsRun /\ SequenceHoldsGroup

\* A forced kill is the escalation of a graceful stop and is recorded once.
ForcedKillSafety == ForcedKillLoggedOnce /\ ForcedKillEscalates

\* What is recorded of a run at its end is what happened in it.
RowSafety == TerminalRowMatchesLog /\ RestartsCounted

\* The sweep takes every child of the command's and keeps out of a stop's way.
SweepSafety == SweepYieldsToStop /\ SessionSwept

\* The monitor shuts down: SIGTERM ends the loop in every stage of a run and of
\* a stop, whatever the command ignores.
ShutdownEnds == ctxDone ~> pc = "returned"

\* A stop that lands on a run and carries a timeout, or SIGKILL, ends the
\* command, unless a later stop without a timeout took the deadline away.
Bounded(s) == sig[s] = "KILL" \/ timed[s]
StopEnds ==
    \A s \in Stops :
        landed[s] # 0 /\ Bounded(s)
          ~> \/ pc = "returned"
             \/ \E t \in Stops : rpc[t] # "idle" /\ ~Bounded(t)

-----------------------------------------------------------------------------
(* The refinement: what a client of the monitor may rely on. *)

Lifecycle == INSTANCE CommandLifecycle WITH
    phase   <- state,
    live    <- pc \in RunPcs,
    stopped <- stopRequested,
    spent   <- stopRequested /\ run > stopRun

\* The monitor implements the lifecycle of a command: one run at a time, no
\* terminal state while a run has processes, nothing after a terminal state,
\* and at most one run that slipped past a stop.
ImplementsLifecycle == Lifecycle!Spec
=============================================================================
