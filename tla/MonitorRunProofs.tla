-------------------------- MODULE MonitorRunProofs --------------------------
(***************************************************************************)
(* Theorems about MonitorRun, for every value of its constants.  A theorem *)
(* about the specification rests on one lemma per part of Next.            *)
(***************************************************************************)
EXTENDS MonitorRunInv, TLAPS

\* The frames of the actions.
USE DEF vars, runOwned, outside, loopVars, sweepVars, rowVars, procVars, latchVars,
        seqVars, timerVars, envVars, rpcVars

-----------------------------------------------------------------------------
(* Type correctness.  An action that sets a flag has the flag typed in a    *)
(* step of its own, and the rest of the state in another.                   *)

ProcType == [Slots -> {"none", "alive", "zombie", "gone"}]
ExitType == {"none", "zero", "nonzero", "error"}
TimerType == [Stops -> {"off", "armed", "fired", "signal", "event", "done"}]

\* A membership test is a truth value (evForced is assigned one).
LEMMA MemberBool == ASSUME NEW x, NEW S PROVE (x \in S) \in BOOLEAN
BY SMT

\* Signals keep the process table a process table.
LEMMA SignalledType ==
    ASSUME NEW ps, NEW s, proc \in ProcType, proc' \in Signalled(ps, s)
    PROVE  proc' \in ProcType
BY DEF Signalled, ProcType

LEMMA SignalGroupType ==
    ASSUME NEW g, NEW s, proc \in ProcType, exit \in ExitType, SignalGroup(g, s)
    PROVE  proc' \in ProcType /\ exit' \in ExitType
<1>1. CASE g = run
  BY <1>1, SignalledType DEF SignalGroup, ExitAfter, ExitType
<1>2. CASE g # run
  BY <1>2 DEF SignalGroup
<1> QED BY <1>1, <1>2

LEMMA ForceKillType ==
    ASSUME proc \in ProcType, exit \in ExitType, ForceKill
    PROVE  proc' \in ProcType /\ exit' \in ExitType
BY SignalGroupType DEF ForceKill

LEMMA ReapedType ==
    ASSUME proc \in ProcType
    PROVE  Reaped \in ProcType
BY DEF ProcType, Reaped

LEMMA ArmedType ==
    ASSUME timer \in TimerType, NEW s
    PROVE  Disarmed \in TimerType /\ ArmedFor(s) \in TimerType
<1>1. Disarmed \in TimerType
  BY DEF Disarmed, TimerType
<1> QED BY <1>1 DEF ArmedFor, TimerType

LEMMA TypeInit == Init => TypeOK
<1> SUFFICES ASSUME Init PROVE TypeOK
  OBVIOUS
<1>1. FlagTypes
  BY Zenon DEF Init, FlagTypes
<1>2. DataTypes
  BY DEF Init, DataTypes, LoopPcs, Slots, Survivors, Group
<1> QED BY <1>1, <1>2 DEF TypeOK

LEMMA TypeEnvironment == TypeOK /\ Environment => TypeOK'
<1> SUFFICES ASSUME TypeOK, Environment PROVE TypeOK'
  OBVIOUS
<1> USE ConstantsAssumption DEF TypeOK, DataTypes, FlagTypes, ProcType, ExitType,
                                TimerType, LoopPcs, RunPcs, DecidePcs
<1>1. CASE Spawn
  BY <1>1 DEF Spawn, Slots
<1>2. CASE ChildExit
  BY <1>2 DEF ChildExit, Slots, Group
<1>3. CASE SurvivorExit
  BY <1>3 DEF SurvivorExit, Slots, Survivors
<1>4. CASE Shutdown
  <2>1. ctxDone' \in BOOLEAN
    BY <1>4, Zenon DEF Shutdown
  <2> QED BY <1>4, <2>1 DEF Shutdown
<1> QED BY <1>1, <1>2, <1>3, <1>4 DEF Environment

LEMMA TypeExec == TypeOK /\ Exec => TypeOK'
<1> SUFFICES ASSUME TypeOK, Exec PROVE TypeOK'
  OBVIOUS
<1> USE ConstantsAssumption DEF TypeOK, DataTypes, FlagTypes, ProcType, ExitType,
                                TimerType, LoopPcs, RunPcs, DecidePcs
<1>1. CASE CancelCommand
  <2>1. ctxSignalled' \in BOOLEAN
    BY <1>1, Zenon DEF CancelCommand
  <2> QED BY <1>1, <2>1, SignalGroupType DEF CancelCommand
<1>2. CASE WaitDelayKill
  BY <1>2 DEF WaitDelayKill, Slots, Group
<1> QED BY <1>1, <1>2 DEF Exec

LEMMA TypeLaunching == TypeOK /\ Launching => TypeOK'
<1> SUFFICES ASSUME TypeOK, Launching PROVE TypeOK'
  OBVIOUS
<1> USE ConstantsAssumption DEF TypeOK, DataTypes, FlagTypes, ProcType, ExitType,
                                TimerType, LoopPcs, RunPcs, DecidePcs
<1>1. CASE FirstIteration
  BY <1>1 DEF FirstIteration
<1>2. CASE LoopTop
  BY <1>2 DEF LoopTop
<1>3. CASE ConfigFails
  BY <1>3 DEF ConfigFails
<1>4. CASE BeginRun
  <2>1. gracefulStop' \in BOOLEAN /\ forceKilled' \in BOOLEAN
    BY <1>4, Zenon DEF BeginRun
  <2> QED BY <1>4, <2>1 DEF BeginRun
<1>5. CASE SetupFails
  BY <1>5 DEF SetupFails
<1>6. CASE StartChild
  BY <1>6 DEF StartChild, Group
<1>7. CASE PublishRun
  <2>1. cmd' \in BOOLEAN /\ stopSeq' \in BOOLEAN /\ seqCancelled' \in BOOLEAN /\
        abandoned' \in BOOLEAN
    BY <1>7, ConstantsAssumption, Zenon DEF PublishRun
  <2> QED BY <1>7, <2>1 DEF PublishRun
<1>8. CASE LogRunning
  BY <1>8 DEF LogRunning
<1>9. CASE StoreRunning
  <2>1. stForced' \in BOOLEAN
    BY <1>9, Zenon DEF StoreRunning
  <2> QED BY <1>9, <2>1 DEF StoreRunning
<1> QED BY <1>1, <1>2, <1>3, <1>4, <1>5, <1>6, <1>7, <1>8, <1>9 DEF Launching

LEMMA TypeEnding == TypeOK /\ Ending => TypeOK'
<1> SUFFICES ASSUME TypeOK, Ending PROVE TypeOK'
  OBVIOUS
<1> USE ConstantsAssumption DEF TypeOK, DataTypes, FlagTypes, ProcType, ExitType,
                                TimerType, LoopPcs, RunPcs, DecidePcs
<1>1. CASE WaitReturns
  BY <1>1 DEF WaitReturns, Slots, Group
<1>2. CASE ClearHandles
  <2>1. cmd' \in BOOLEAN
    BY <1>2, Zenon DEF ClearHandles
  <2> QED BY <1>2, <2>1 DEF ClearHandles
<1>3. CASE SweepStart
  <2>1. lastResort' \in BOOLEAN
    BY <1>3, Zenon DEF SweepStart
  <2> QED BY <1>3, <2>1 DEF SweepStart
<1>4. CASE SweepScan
  BY <1>4 DEF SweepScan, Found
<1>5. CASE ScanFails
  <2>1. unreaped' \in BOOLEAN
    BY <1>5, Zenon DEF ScanFails
  <2> QED BY <1>5, <2>1 DEF ScanFails
<1>6. CASE SweepCheck
  BY <1>6 DEF SweepCheck
<1>7. CASE SweepKill
  BY <1>7, SignalledType DEF SweepKill
<1>8. CASE SweepGrace
  BY <1>8, ReapedType DEF SweepGrace, Left
<1>9. CASE Await
  BY <1>9 DEF Await, Found
<1>10. CASE CompleteStopKill
  BY <1>10 DEF CompleteStopKill, Found
<1>11. CASE NoteSurvivorKilled
  <2>1. forceKilled' \in BOOLEAN
    BY <1>11, Zenon DEF NoteSurvivorKilled
  <2> QED BY <1>11, <2>1 DEF NoteSurvivorKilled
<1>12. CASE NoteEvent
  BY <1>12 DEF NoteEvent
<1>13. CASE AwaitReturns
  <2>1. lastResort' \in BOOLEAN
    BY <1>13, Zenon DEF AwaitReturns
  <2> QED BY <1>13, <2>1 DEF AwaitReturns
<1>14. CASE DrainReaders
  <2>1. lastResort' \in BOOLEAN
    BY <1>14, Zenon DEF DrainReaders, SweepLocalsReset
  <2> QED BY <1>14, <2>1 DEF DrainReaders, SweepLocalsReset, Survivors
<1>15. CASE FinishSequence
  <2>1. stopSeq' \in BOOLEAN /\ seqCancelled' \in BOOLEAN
    BY <1>15, Zenon DEF FinishSequence
  <2> QED BY <1>15, <2>1 DEF FinishSequence
<1>16. CASE JoinSequence
  <2>1. abandoned' \in BOOLEAN
    BY <1>16, Zenon DEF JoinSequence
  <2> QED BY <1>16, <2>1 DEF JoinSequence
<1>17. CASE CancelSequence
  <2>1. seqCancelled' \in BOOLEAN
    BY <1>17, Zenon DEF CancelSequence
  <2> QED BY <1>17, <2>1 DEF CancelSequence
<1>18. CASE GiveUpGroup
  <2>1. stopSeq' \in BOOLEAN
    BY <1>18, Zenon DEF GiveUpGroup, RunAnomalies
  <2> QED BY <1>18, <2>1, ArmedType DEF GiveUpGroup, RunAnomalies
<1>19. CASE SweepReap
  <2>1. unreaped' \in BOOLEAN
    BY <1>19, Zenon DEF SweepReap
  <2> QED BY <1>19, <2>1, ReapedType DEF SweepReap, Left
<1>20. CASE AwaitReap
  <2>1. unreaped' \in BOOLEAN
    BY <1>20, Zenon DEF AwaitReap
  <2> QED BY <1>20, <2>1, ReapedType DEF AwaitReap, Left
<1>21. CASE CompleteReap
  <2>1. unreaped' \in BOOLEAN
    BY <1>21, Zenon DEF CompleteReap
  <2> QED BY <1>21, <2>1, ReapedType DEF CompleteReap, Left, Slots, Survivors
<1>22. CASE CompleteWait
  <2>1. unreaped' \in BOOLEAN
    BY <1>22, Zenon DEF CompleteWait
  <2> QED BY <1>22, <2>1, ReapedType DEF CompleteWait
<1> QED BY <1>1, <1>2, <1>3, <1>4, <1>5, <1>6, <1>7, <1>8, <1>9, <1>10, <1>11,
           <1>12, <1>13, <1>14, <1>15, <1>16, <1>17, <1>18, <1>19, <1>20, <1>21,
           <1>22 DEF Ending

LEMMA TypeDeciding == TypeOK /\ Deciding => TypeOK'
<1> SUFFICES ASSUME TypeOK, Deciding PROVE TypeOK'
  OBVIOUS
<1> USE ConstantsAssumption DEF TypeOK, DataTypes, FlagTypes, ProcType, ExitType,
                                TimerType, LoopPcs, RunPcs, DecidePcs
<1>1. CASE EndRun
  BY <1>1 DEF EndRun
<1>2. CASE LogTerminal
  <2>1. evForced' = ("force_killed" \in anomalies)
    BY <1>2, Zenon DEF LogTerminal
  <2>2. evForced' \in BOOLEAN
    BY <2>1, MemberBool, Zenon
  <2> QED BY <1>2, <2>2 DEF LogTerminal
<1>3. CASE StoreTerminal
  <2>1. stForced' \in BOOLEAN
    BY <1>3, Zenon DEF StoreTerminal
  <2> QED BY <1>3, <2>1 DEF StoreTerminal
<1>4. CASE RemoveRecord
  BY <1>4 DEF RemoveRecord
<1> QED BY <1>1, <1>2, <1>3, <1>4 DEF Deciding

LEMMA TypeStopSequence == TypeOK /\ StopSequence => TypeOK'
<1> SUFFICES ASSUME TypeOK, StopSequence PROVE TypeOK'
  OBVIOUS
<1> USE ConstantsAssumption DEF TypeOK, DataTypes, FlagTypes, ProcType, ExitType,
                                TimerType, LoopPcs, RunPcs, DecidePcs
<1>1. CASE SeqSelect
  BY <1>1 DEF SeqSelect
<1>2. CASE SeqCommandOver
  BY <1>2 DEF SeqCommandOver
<1>3. CASE SeqLock
  BY <1>3, ArmedType DEF SeqLock
<1>4. CASE SeqSignals
  BY <1>4, SignalGroupType DEF SeqSignals
<1> QED BY <1>1, <1>2, <1>3, <1>4 DEF StopSequence

LEMMA TypeStopProcess == \A s \in Stops : TypeOK /\ StopProcess(s) => TypeOK'
<1> SUFFICES ASSUME NEW s \in Stops, TypeOK, StopProcess(s) PROVE TypeOK'
  OBVIOUS
<1> USE ConstantsAssumption DEF TypeOK, DataTypes, FlagTypes, ProcType, ExitType,
                                TimerType, LoopPcs, RunPcs, DecidePcs
<1>1. CASE StopLatchKill(s)
  <2>1. stopKilled' \in BOOLEAN
    BY <1>1, Zenon DEF StopLatchKill
  <2> QED BY <1>1, <2>1 DEF StopLatchKill
<1>2. CASE StopBeginsSequence(s)
  <2>1. gracefulStop' \in BOOLEAN
    BY <1>2, Zenon DEF StopBeginsSequence
  <2> QED BY <1>2, <2>1 DEF StopBeginsSequence
<1>3. CASE StopReplacesDeadline(s)
  <2>1. gracefulStop' \in BOOLEAN
    BY <1>3, Zenon DEF StopReplacesDeadline, Escalates
  <2> QED BY <1>3, <2>1, ArmedType DEF StopReplacesDeadline, Escalates
<1>4. CASE StopCancelsSequence(s)
  <2>1. seqCancelled' \in BOOLEAN
    BY <1>4, Zenon DEF StopCancelsSequence
  <2> QED BY <1>4, <2>1 DEF StopCancelsSequence
<1>5. CASE StopForceKills(s)
  <2>1. forceKilled' \in BOOLEAN
    BY <1>5, Zenon DEF StopForceKills, ForceKill
  <2> QED BY <1>5, <2>1, ForceKillType DEF StopForceKills
<1>6. CASE StopReadsGroup(s)
  BY <1>6 DEF StopReadsGroup, RunGroup
<1>7. CASE StopSignals(s)
  BY <1>7, SignalGroupType DEF StopSignals
<1>8. CASE StopEvent(s)
  BY <1>8 DEF StopEvent
<1> QED BY <1>1, <1>2, <1>3, <1>4, <1>5, <1>6, <1>7, <1>8 DEF StopProcess

LEMMA TypeEscalateStop == \A s \in Stops : TypeOK /\ EscalateStop(s) => TypeOK'
<1> SUFFICES ASSUME NEW s \in Stops, TypeOK, EscalateStop(s) PROVE TypeOK'
  OBVIOUS
<1> USE ConstantsAssumption DEF TypeOK, DataTypes, FlagTypes, ProcType, ExitType,
                                TimerType, LoopPcs, RunPcs, DecidePcs
<1>1. CASE TimerFires(s)
  BY <1>1 DEF TimerFires
<1>2. CASE EscalateLatches(s)
  <2>1. stopKilled' \in BOOLEAN
    BY <1>2, Zenon DEF EscalateLatches
  <2> QED BY <1>2, <2>1 DEF EscalateLatches
<1>3. CASE EscalateForceKills(s)
  <2>1. forceKilled' \in BOOLEAN
    BY <1>3, Zenon DEF EscalateForceKills, ForceKill
  <2> QED BY <1>3, <2>1, ForceKillType DEF EscalateForceKills
<1>4. CASE EscalateEvent(s)
  BY <1>4 DEF EscalateEvent
<1> QED BY <1>1, <1>2, <1>3, <1>4 DEF EscalateStop

LEMMA TypeStopRequest == \A s \in Stops : TypeOK /\ StopRequest(s) => TypeOK'
<1> SUFFICES ASSUME NEW s \in Stops, TypeOK, StopRequest(s) PROVE TypeOK'
  OBVIOUS
<1> USE ConstantsAssumption DEF TypeOK, DataTypes, FlagTypes, ProcType, ExitType,
                                TimerType, LoopPcs, RunPcs, DecidePcs
<1>1. stopRequested' \in BOOLEAN
  BY Zenon DEF StopRequest
<1> QED BY <1>1 DEF StopRequest

\* Every variable keeps its type: no step of the run loop, of a stop, of a
\* deadline or of a stop sequence leaves the states the code names.
THEOREM TypeCorrect == Spec => []TypeOK
<1>1. Init => TypeOK
  BY TypeInit
<1>2. TypeOK /\ [Next]_vars => TypeOK'
  <2> SUFFICES ASSUME TypeOK, [Next]_vars PROVE TypeOK'
    OBVIOUS
  <2>1. CASE UNCHANGED vars
    BY <2>1 DEF TypeOK, DataTypes, FlagTypes
  <2>2. CASE Next
    BY <2>2, TypeEnvironment, TypeExec, TypeLaunching, TypeEnding, TypeDeciding,
       TypeStopSequence, TypeStopRequest, TypeStopProcess, TypeEscalateStop
       DEF Next, RunLoop
  <2> QED BY <2>1, <2>2
<1> QED BY <1>1, <1>2, PTL DEF Spec

-----------------------------------------------------------------------------
(* The inductive invariant.  SafetyInv is inductive relative to TypeOK: a   *)
(* stop's promises need to know where the run goroutine is (HandlesInv),    *)
(* the latch needs to know that nobody signals a group given up, and what   *)
(* the timers do needs to know which stop armed them.                       *)

\* What the timers are once a deadline is replaced.
LEMMA DisarmedAt ==
    ASSUME NEW t \in Stops
    PROVE  Disarmed[t] = IF t = stopDeadline /\ timer[t] = "armed"
                         THEN "off" ELSE timer[t]
BY DEF Disarmed

LEMMA ArmedAt ==
    ASSUME NEW s, NEW t \in Stops
    PROVE  ArmedFor(s)[t] = IF t = s THEN "armed" ELSE Disarmed[t]
BY DEF ArmedFor, Disarmed

LEMMA SafetyInit == Init => SafetyInv
BY ConstantsAssumption
   DEF Init, SafetyInv, HandlesInv, StopInv, LatchInv, EscalationInv, RestartInv,
       SequenceInv, SweepInv, SurvivorInv, ForcedInv, TimerInv, HeldPcs, LaunchPcs,
       SweepPcs, SweptPcs, RunPcs

LEMMA SafetyEnvironment ==
    TypeOK /\ SafetyInv /\ Environment => SafetyInv'
<1> SUFFICES ASSUME TypeOK, SafetyInv, Environment
             PROVE  SafetyInv'
  OBVIOUS
<1> USE ConstantsAssumption
        DEF TypeOK, DataTypes, FlagTypes, SafetyInv, HandlesInv, StopInv, LatchInv,
            EscalationInv, RestartInv, SequenceInv, SweepInv, SurvivorInv, ForcedInv,
            TimerInv, GracefulStopMade, HeldPcs, LaunchPcs, SweepPcs, SweptPcs,
            LoopPcs, RunPcs, DecidePcs, LeftByChild, Parent, Slots, Group, Survivors
<1>1. CASE Spawn
  BY <1>1 DEF Spawn
<1>2. CASE ChildExit
  BY <1>2 DEF ChildExit
<1>3. CASE SurvivorExit
  BY <1>3 DEF SurvivorExit
<1>4. CASE Shutdown
  BY <1>4 DEF Shutdown
<1> QED BY <1>1, <1>2, <1>3, <1>4 DEF Environment

LEMMA SafetyExec ==
    TypeOK /\ SafetyInv /\ Exec => SafetyInv'
<1> SUFFICES ASSUME TypeOK, SafetyInv, Exec
             PROVE  SafetyInv'
  OBVIOUS
<1> USE ConstantsAssumption
        DEF TypeOK, DataTypes, FlagTypes, SafetyInv, HandlesInv, StopInv, LatchInv,
            EscalationInv, RestartInv, SequenceInv, SweepInv, SurvivorInv, ForcedInv,
            TimerInv, GracefulStopMade, HeldPcs, LaunchPcs, SweepPcs, SweptPcs,
            LoopPcs, RunPcs, DecidePcs, LeftByChild, Parent, Slots, Group, Survivors
<1>1. CASE CancelCommand
  BY <1>1 DEF CancelCommand, SignalGroup, Signalled, ExitAfter
<1>2. CASE WaitDelayKill
  BY <1>2 DEF WaitDelayKill
<1> QED BY <1>1, <1>2 DEF Exec

LEMMA SafetyLaunching ==
    TypeOK /\ SafetyInv /\ Launching => SafetyInv'
<1> SUFFICES ASSUME TypeOK, SafetyInv, Launching
             PROVE  SafetyInv'
  OBVIOUS
<1> USE ConstantsAssumption
        DEF TypeOK, DataTypes, FlagTypes, SafetyInv, HandlesInv, StopInv, LatchInv,
            EscalationInv, RestartInv, SequenceInv, SweepInv, SurvivorInv, ForcedInv,
            TimerInv, GracefulStopMade, HeldPcs, LaunchPcs, SweepPcs, SweptPcs,
            LoopPcs, RunPcs, DecidePcs, LeftByChild, Parent, Slots, Group, Survivors
<1>1. CASE FirstIteration
  BY <1>1 DEF FirstIteration
<1>2. CASE LoopTop
  BY <1>2 DEF LoopTop
<1>3. CASE ConfigFails
  BY <1>3 DEF ConfigFails
<1>4. CASE BeginRun
  BY <1>4 DEF BeginRun
<1>5. CASE SetupFails
  BY <1>5 DEF SetupFails
<1>6. CASE StartChild
  BY <1>6 DEF StartChild
<1>7. CASE PublishRun
  BY <1>7 DEF PublishRun
<1>8. CASE LogRunning
  BY <1>8 DEF LogRunning
<1>9. CASE StoreRunning
  BY <1>9 DEF StoreRunning
<1> QED BY <1>1, <1>2, <1>3, <1>4, <1>5, <1>6, <1>7, <1>8, <1>9 DEF Launching

LEMMA KilledStray ==
    ASSUME proc' = [Reaped EXCEPT !["stray"] = "zombie"], proc["child"] = "gone"
    PROVE  proc'["child"] = "gone"
BY DEF Reaped, Slots, Group, Survivors

LEMMA SafetyEnding ==
    TypeOK /\ SafetyInv /\ Ending => SafetyInv'
<1> SUFFICES ASSUME TypeOK, SafetyInv, Ending
             PROVE  SafetyInv'
  OBVIOUS
<1> USE ConstantsAssumption
        DEF TypeOK, DataTypes, FlagTypes, SafetyInv, HandlesInv, StopInv, LatchInv,
            EscalationInv, RestartInv, SequenceInv, SweepInv, SurvivorInv, ForcedInv,
            TimerInv, GracefulStopMade, HeldPcs, LaunchPcs, SweepPcs, SweptPcs,
            LoopPcs, RunPcs, DecidePcs, LeftByChild, Parent, Slots, Group, Survivors
<1>1. CASE WaitReturns
  BY <1>1 DEF WaitReturns
<1>2. CASE ClearHandles
  BY <1>2 DEF ClearHandles
<1>3. CASE SweepStart
  BY <1>3 DEF SweepStart
<1>4. CASE SweepScan
  BY <1>4 DEF SweepScan, Found, Orphaned
<1>5. CASE ScanFails
  BY <1>5 DEF ScanFails
<1>6. CASE SweepCheck
  BY <1>6 DEF SweepCheck, Halted
<1>7. CASE SweepKill
  BY <1>7 DEF SweepKill, Signalled, Halted
<1>8. CASE SweepGrace
  BY <1>8 DEF SweepGrace, Reaped, Left
<1>9. CASE Await
  BY <1>9 DEF Await, Found, Orphaned
<1>10. CASE CompleteStopKill
  BY <1>10 DEF CompleteStopKill, Found, Orphaned
<1>11. CASE NoteSurvivorKilled
  BY <1>11 DEF NoteSurvivorKilled
<1>12. CASE NoteEvent
  BY <1>12 DEF NoteEvent
<1>13. CASE AwaitReturns
  BY <1>13 DEF AwaitReturns
<1>14. CASE DrainReaders
  BY <1>14 DEF DrainReaders, SweepLocalsReset
<1>15. CASE FinishSequence
  BY <1>15 DEF FinishSequence
<1>16. CASE JoinSequence
  BY <1>16 DEF JoinSequence
<1>17. CASE CancelSequence
  BY <1>17 DEF CancelSequence
<1>18. CASE GiveUpGroup
  BY <1>18 DEF GiveUpGroup, RunAnomalies, Disarmed
<1>19. CASE SweepReap
  BY <1>19 DEF SweepReap, Reaped, Left, Halted
<1>20. CASE AwaitReap
  BY <1>20 DEF AwaitReap, Reaped, Left
<1>21. CASE CompleteReap
  <2>1. CASE pc' = "note"
    <3>1. proc' = [Reaped EXCEPT !["stray"] = "zombie"] /\ proc["child"] = "gone"
      BY <1>21, <2>1 DEF CompleteReap
    <3>2. proc'["child"] = "gone"
      BY <3>1, KilledStray
    <3> QED BY <1>21, <2>1, <3>2 DEF CompleteReap
  <2>2. CASE pc' # "note"
    BY <1>21, <2>2 DEF CompleteReap, Reaped, Left
  <2> QED BY <2>1, <2>2
<1>22. CASE CompleteWait
  BY <1>22 DEF CompleteWait, Reaped, Left
<1> QED BY <1>1, <1>2, <1>3, <1>4, <1>5, <1>6, <1>7, <1>8, <1>9, <1>10, <1>11,
           <1>12, <1>13, <1>14, <1>15, <1>16, <1>17, <1>18, <1>19, <1>20, <1>21,
           <1>22 DEF Ending

LEMMA SafetyDeciding ==
    TypeOK /\ SafetyInv /\ Deciding => SafetyInv'
<1> SUFFICES ASSUME TypeOK, SafetyInv, Deciding
             PROVE  SafetyInv'
  OBVIOUS
<1> USE ConstantsAssumption
        DEF TypeOK, DataTypes, FlagTypes, SafetyInv, HandlesInv, StopInv, LatchInv,
            EscalationInv, RestartInv, SequenceInv, SweepInv, SurvivorInv, ForcedInv,
            TimerInv, GracefulStopMade, HeldPcs, LaunchPcs, SweepPcs, SweptPcs,
            LoopPcs, RunPcs, DecidePcs, LeftByChild, Parent, Slots, Group, Survivors
<1>1. CASE EndRun
  BY <1>1 DEF EndRun, RestartAllowed
<1>2. CASE LogTerminal
  BY <1>2 DEF LogTerminal
<1>3. CASE StoreTerminal
  BY <1>3 DEF StoreTerminal
<1>4. CASE RemoveRecord
  BY <1>4 DEF RemoveRecord
<1> QED BY <1>1, <1>2, <1>3, <1>4 DEF Deciding

LEMMA SafetyStopSequence ==
    TypeOK /\ SafetyInv /\ StopSequence => SafetyInv'
<1> SUFFICES ASSUME TypeOK, SafetyInv, StopSequence
             PROVE  SafetyInv'
  OBVIOUS
<1> USE ConstantsAssumption
        DEF TypeOK, DataTypes, FlagTypes, SafetyInv, HandlesInv, StopInv, LatchInv,
            EscalationInv, RestartInv, SequenceInv, SweepInv, SurvivorInv, ForcedInv,
            TimerInv, GracefulStopMade, HeldPcs, LaunchPcs, SweepPcs, SweptPcs,
            LoopPcs, RunPcs, DecidePcs, LeftByChild, Parent, Slots, Group, Survivors
<1>1. CASE SeqSelect
  BY <1>1 DEF SeqSelect
<1>2. CASE SeqCommandOver
  BY <1>2 DEF SeqCommandOver
<1>3. CASE SeqLock
  <2>1. EscalationInv' /\ TimerInv'
    BY <1>3, DisarmedAt, ArmedAt DEF SeqLock
  <2> QED BY <1>3, <2>1 DEF SeqLock
<1>4. CASE SeqSignals
  BY <1>4 DEF SeqSignals, SignalGroup, Signalled, ExitAfter
<1> QED BY <1>1, <1>2, <1>3, <1>4 DEF StopSequence

LEMMA SafetyStopProcess ==
    \A s \in Stops : TypeOK /\ SafetyInv /\ StopProcess(s) => SafetyInv'
<1> SUFFICES ASSUME NEW s \in Stops, TypeOK, SafetyInv, StopProcess(s)
             PROVE  SafetyInv'
  OBVIOUS
<1> USE ConstantsAssumption
        DEF TypeOK, DataTypes, FlagTypes, SafetyInv, HandlesInv, StopInv, LatchInv,
            EscalationInv, RestartInv, SequenceInv, SweepInv, SurvivorInv, ForcedInv,
            TimerInv, GracefulStopMade, HeldPcs, LaunchPcs, SweepPcs, SweptPcs,
            LoopPcs, RunPcs, DecidePcs, LeftByChild, Parent, Slots, Group, Survivors
<1>1. CASE StopLatchKill(s)
  BY <1>1 DEF StopLatchKill
<1>2. CASE StopBeginsSequence(s)
  BY <1>2 DEF StopBeginsSequence
<1>3. CASE StopReplacesDeadline(s)
  <2>1. EscalationInv' /\ TimerInv'
    BY <1>3, DisarmedAt, ArmedAt DEF StopReplacesDeadline, Escalates
  <2> QED BY <1>3, <2>1 DEF StopReplacesDeadline, Escalates
<1>4. CASE StopCancelsSequence(s)
  BY <1>4 DEF StopCancelsSequence
<1>5. CASE StopForceKills(s)
  BY <1>5 DEF StopForceKills, ForceKill, SignalGroup, Signalled, ExitAfter,
     RunGroup, LatchedFirst
<1>6. CASE StopReadsGroup(s)
  BY <1>6 DEF StopReadsGroup, RunGroup
<1>7. CASE StopSignals(s)
  BY <1>7 DEF StopSignals, SignalGroup, Signalled, ExitAfter
<1>8. CASE StopEvent(s)
  BY <1>8 DEF StopEvent
<1> QED BY <1>1, <1>2, <1>3, <1>4, <1>5, <1>6, <1>7, <1>8 DEF StopProcess

LEMMA SafetyEscalateStop ==
    \A s \in Stops : TypeOK /\ SafetyInv /\ EscalateStop(s) => SafetyInv'
<1> SUFFICES ASSUME NEW s \in Stops, TypeOK, SafetyInv, EscalateStop(s)
             PROVE  SafetyInv'
  OBVIOUS
<1> USE ConstantsAssumption
        DEF TypeOK, DataTypes, FlagTypes, SafetyInv, HandlesInv, StopInv, LatchInv,
            EscalationInv, RestartInv, SequenceInv, SweepInv, SurvivorInv, ForcedInv,
            TimerInv, GracefulStopMade, HeldPcs, LaunchPcs, SweepPcs, SweptPcs,
            LoopPcs, RunPcs, DecidePcs, LeftByChild, Parent, Slots, Group, Survivors
<1>1. CASE TimerFires(s)
  BY <1>1 DEF TimerFires
<1>2. CASE EscalateLatches(s)
  BY <1>2 DEF EscalateLatches
<1>3. CASE EscalateForceKills(s)
  BY <1>3 DEF EscalateForceKills, ForceKill, SignalGroup, Signalled, ExitAfter,
     RunGroup, LatchedFirst
<1>4. CASE EscalateEvent(s)
  BY <1>4 DEF EscalateEvent
<1> QED BY <1>1, <1>2, <1>3, <1>4 DEF EscalateStop

LEMMA SafetyStopRequest ==
    \A s \in Stops : TypeOK /\ SafetyInv /\ StopRequest(s) => SafetyInv'
<1> SUFFICES ASSUME NEW s \in Stops, TypeOK, SafetyInv, StopRequest(s)
             PROVE  SafetyInv'
  OBVIOUS
<1> USE ConstantsAssumption
        DEF TypeOK, DataTypes, FlagTypes, SafetyInv, HandlesInv, StopInv, LatchInv,
            EscalationInv, RestartInv, SequenceInv, SweepInv, SurvivorInv, ForcedInv,
            TimerInv, GracefulStopMade, HeldPcs, LaunchPcs, SweepPcs, SweptPcs,
            LoopPcs, RunPcs, DecidePcs, LeftByChild, Parent, Slots, Group, Survivors
<1> QED BY DEF StopRequest

\* The inductive invariant holds of every behaviour of the monitor.
THEOREM SafetyInvariant == Spec => []SafetyInv
<1>1. Init => SafetyInv
  BY SafetyInit
<1>2. TypeOK /\ SafetyInv /\ [Next]_vars => SafetyInv'
  <2> SUFFICES ASSUME TypeOK, SafetyInv, [Next]_vars PROVE SafetyInv'
    OBVIOUS
  <2>1. CASE UNCHANGED vars
    BY <2>1 DEF SafetyInv, HandlesInv, StopInv, LatchInv, EscalationInv,
           RestartInv, SequenceInv, SweepInv, SurvivorInv, ForcedInv, TimerInv,
           GracefulStopMade, LeftByChild, Parent
  <2>2. CASE Next
    BY <2>2, SafetyEnvironment, SafetyExec, SafetyLaunching, SafetyEnding,
       SafetyDeciding, SafetyStopSequence, SafetyStopRequest, SafetyStopProcess,
       SafetyEscalateStop
       DEF Next, RunLoop
  <2> QED BY <2>1, <2>2
<1> QED BY <1>1, <1>2, TypeCorrect, PTL DEF Spec

\* However a stop races the restart, the loop of runLoop starts at most one run
\* past it.
THEOREM StopEndsLoop == Spec => []OneRunPastStop
<1>1. TypeOK /\ SafetyInv => OneRunPastStop
  BY ConstantsAssumption DEF TypeOK, DataTypes, FlagTypes, SafetyInv, StopInv,
     OneRunPastStop
<1> QED BY <1>1, TypeCorrect, SafetyInvariant, PTL

\* A stop of a published run, its signal and its deadline included, meets no
\* process of a later run: StopProcess latches before it looks for the run.
THEOREM StopKeepsToRun == Spec => []StopKeepsToItsRun
<1>1. TypeOK /\ SafetyInv => StopKeepsToItsRun
  BY ConstantsAssumption DEF TypeOK, DataTypes, FlagTypes, SafetyInv, StopInv,
     StopKeepsToItsRun
<1> QED BY <1>1, TypeCorrect, SafetyInvariant, PTL

\* The state row setExited or setFailed writes is preceded by its event, and
\* agrees with it on the forced kill, although each reads the latch on its own.
THEOREM RowMatchesLog == Spec => []TerminalRowMatchesLog
<1>1. TypeOK /\ SafetyInv => TerminalRowMatchesLog
  BY ConstantsAssumption DEF TypeOK, DataTypes, FlagTypes, SafetyInv, LatchInv,
     TerminalRowMatchesLog
<1> QED BY <1>1, TypeCorrect, SafetyInvariant, PTL

\* No forced kill without a graceful stop before it, on any of the three paths
\* that latch one (StopProcess, escalateStop, noteSurvivorKilled).
THEOREM OnlyGracefulEscalates == Spec => []ForcedKillEscalates
<1>1. TypeOK /\ SafetyInv => ForcedKillEscalates
  BY ConstantsAssumption DEF TypeOK, DataTypes, FlagTypes, SafetyInv, EscalationInv,
     GracefulStopMade, ForcedKillEscalates
<1> QED BY <1>1, TypeCorrect, SafetyInvariant, PTL

\* RestartCount is exact whenever the loop ends by itself: the stop check comes
\* ahead of the counter.
THEOREM RestartsExact == Spec => []RestartsCounted
<1>1. TypeOK /\ SafetyInv => RestartsCounted
  BY ConstantsAssumption DEF TypeOK, DataTypes, FlagTypes, SafetyInv, RestartInv,
     RestartsCounted
<1> QED BY <1>1, TypeCorrect, SafetyInvariant, PTL

\* The terminating sweep sends at most one signal behind a stop's back.
THEOREM SweepYields == Spec => []SweepYieldsToStop
<1>1. TypeOK /\ SafetyInv => SweepYieldsToStop
  BY ConstantsAssumption DEF TypeOK, DataTypes, FlagTypes, SafetyInv, SweepInv,
     SweepYieldsToStop
<1> QED BY <1>1, TypeCorrect, SafetyInvariant, PTL

\* A run end that reports no survivors has left none of the child's own children
\* alive, where /proc can be read.
THEOREM NothingLeftBehind == Spec => []SessionSwept
<1>1. TypeOK /\ SafetyInv => SessionSwept
  BY ConstantsAssumption DEF TypeOK, DataTypes, FlagTypes, SafetyInv, SurvivorInv,
     LeftByChild, SessionSwept
<1> QED BY <1>1, TypeCorrect, SafetyInvariant, PTL

\* finishStopSequence keeps the process group until the sequence has sent its
\* signal.
THEOREM SequenceInsideRun == Spec => []SequenceHoldsGroup
<1>1. TypeOK /\ SafetyInv => SequenceHoldsGroup
  BY ConstantsAssumption DEF TypeOK, DataTypes, FlagTypes, SafetyInv, SequenceInv,
     HandlesInv, SequenceHoldsGroup, HeldPcs, RunPcs
<1> QED BY <1>1, TypeCorrect, SafetyInvariant, PTL

-----------------------------------------------------------------------------
(* The event of a forced kill.  A step either leaves the set of goroutines  *)
(* with the event still to append alone, adds the one that latched first,   *)
(* or removes the one that appended it.                                     *)

SameStops  == \A t \in Stops : rpc'[t] = "event" <=> rpc[t] = "event"
SameTimers == \A t \in Stops : timer'[t] = "event" <=> timer[t] = "event"
SameRun    == pc' = "noteEvent" <=> pc = "noteEvent"

LEMMA WritersSame ==
    SameStops /\ SameTimers /\ SameRun => EventWriters' = EventWriters
BY DEF SameStops, SameTimers, SameRun, EventWriters

LEMMA LoggedFrame ==
    ASSUME ForcedKillLoggedOnce, SameStops, SameTimers, SameRun,
           UNCHANGED <<forceKilled, forcedEvents>>
    PROVE  ForcedKillLoggedOnce'
BY WritersSame DEF ForcedKillLoggedOnce

LEMMA StopWriterAdded ==
    ASSUME TypeOK, NEW s \in Stops, rpc' = [rpc EXCEPT ![s] = "event"],
           SameTimers, SameRun
    PROVE  EventWriters' = EventWriters \cup {<<"stop", s>>}
BY DEF SameTimers, SameRun, EventWriters, TypeOK, DataTypes

LEMMA StopWriterRemoved ==
    ASSUME TypeOK, NEW s \in Stops, rpc' = [rpc EXCEPT ![s] = "returned"],
           SameTimers, SameRun
    PROVE  EventWriters' = EventWriters \ {<<"stop", s>>}
BY DEF SameTimers, SameRun, EventWriters, TypeOK, DataTypes

LEMMA TimerWriterAdded ==
    ASSUME TypeOK, NEW s \in Stops, timer' = [timer EXCEPT ![s] = "event"],
           SameStops, SameRun
    PROVE  EventWriters' = EventWriters \cup {<<"timer", s>>}
BY DEF SameStops, SameRun, EventWriters, TypeOK, DataTypes

LEMMA TimerWriterRemoved ==
    ASSUME TypeOK, NEW s \in Stops, timer' = [timer EXCEPT ![s] = "done"],
           SameStops, SameRun
    PROVE  EventWriters' = EventWriters \ {<<"timer", s>>}
BY DEF SameStops, SameRun, EventWriters, TypeOK, DataTypes

LEMMA RunWriter ==
    ASSUME SameStops, SameTimers
    PROVE  EventWriters' = (EventWriters \ {<<"run", NoStop>>})
                  \cup (IF pc' = "noteEvent" THEN {<<"run", NoStop>>} ELSE {})
BY DEF SameStops, SameTimers, EventWriters

LEMMA LoggedEnvironment ==
    TypeOK /\ SafetyInv /\ ForcedKillLoggedOnce /\ Environment => ForcedKillLoggedOnce'
<1> SUFFICES ASSUME TypeOK, SafetyInv, ForcedKillLoggedOnce, Environment
             PROVE  ForcedKillLoggedOnce'
  OBVIOUS
<1> USE ConstantsAssumption
        DEF TypeOK, DataTypes, FlagTypes, ForcedKillLoggedOnce, SameStops, SameTimers,
            SameRun
<1>1. CASE Spawn BY <1>1, LoggedFrame DEF Spawn
<1>2. CASE ChildExit BY <1>2, LoggedFrame DEF ChildExit
<1>3. CASE SurvivorExit BY <1>3, LoggedFrame DEF SurvivorExit
<1>4. CASE Shutdown BY <1>4, LoggedFrame DEF Shutdown
<1> QED BY <1>1, <1>2, <1>3, <1>4 DEF Environment

LEMMA LoggedExec ==
    TypeOK /\ SafetyInv /\ ForcedKillLoggedOnce /\ Exec => ForcedKillLoggedOnce'
<1> SUFFICES ASSUME TypeOK, SafetyInv, ForcedKillLoggedOnce, Exec
             PROVE  ForcedKillLoggedOnce'
  OBVIOUS
<1> USE ConstantsAssumption
        DEF TypeOK, DataTypes, FlagTypes, ForcedKillLoggedOnce, SameStops, SameTimers,
            SameRun
<1>1. CASE CancelCommand BY <1>1, LoggedFrame DEF CancelCommand
<1>2. CASE WaitDelayKill BY <1>2, LoggedFrame DEF WaitDelayKill
<1> QED BY <1>1, <1>2 DEF Exec

LEMMA LoggedLaunching ==
    TypeOK /\ SafetyInv /\ ForcedKillLoggedOnce /\ Launching => ForcedKillLoggedOnce'
<1> SUFFICES ASSUME TypeOK, SafetyInv, ForcedKillLoggedOnce, Launching
             PROVE  ForcedKillLoggedOnce'
  OBVIOUS
<1> USE ConstantsAssumption
        DEF TypeOK, DataTypes, FlagTypes, ForcedKillLoggedOnce, SameStops, SameTimers,
            SameRun
<1>1. CASE FirstIteration BY <1>1, LoggedFrame DEF FirstIteration
<1>2. CASE LoopTop BY <1>2, LoggedFrame DEF LoopTop
<1>3. CASE ConfigFails BY <1>3, LoggedFrame DEF ConfigFails
<1>4. CASE BeginRun
  <2>1. EventWriters' = EventWriters
    BY <1>4, WritersSame DEF BeginRun
  <2>2. ~forceKilled
    BY <1>4 DEF BeginRun, SafetyInv, ForcedInv, LaunchPcs
  <2> QED BY <1>4, <2>1, <2>2 DEF BeginRun
<1>5. CASE SetupFails BY <1>5, LoggedFrame DEF SetupFails
<1>6. CASE StartChild BY <1>6, LoggedFrame DEF StartChild
<1>7. CASE PublishRun BY <1>7, LoggedFrame DEF PublishRun
<1>8. CASE LogRunning BY <1>8, LoggedFrame DEF LogRunning
<1>9. CASE StoreRunning BY <1>9, LoggedFrame DEF StoreRunning
<1> QED BY <1>1, <1>2, <1>3, <1>4, <1>5, <1>6, <1>7, <1>8, <1>9 DEF Launching

LEMMA LoggedEnding ==
    TypeOK /\ SafetyInv /\ ForcedKillLoggedOnce /\ Ending => ForcedKillLoggedOnce'
<1> SUFFICES ASSUME TypeOK, SafetyInv, ForcedKillLoggedOnce, Ending
             PROVE  ForcedKillLoggedOnce'
  OBVIOUS
<1> USE ConstantsAssumption
        DEF TypeOK, DataTypes, FlagTypes, ForcedKillLoggedOnce, SameStops, SameTimers,
            SameRun
<1>1. CASE WaitReturns BY <1>1, LoggedFrame DEF WaitReturns
<1>2. CASE ClearHandles BY <1>2, LoggedFrame DEF ClearHandles
<1>3. CASE SweepStart BY <1>3, LoggedFrame DEF SweepStart
<1>4. CASE SweepScan BY <1>4, LoggedFrame DEF SweepScan
<1>5. CASE ScanFails BY <1>5, LoggedFrame DEF ScanFails
<1>6. CASE SweepCheck BY <1>6, LoggedFrame DEF SweepCheck
<1>7. CASE SweepKill BY <1>7, LoggedFrame DEF SweepKill
<1>8. CASE SweepGrace BY <1>8, LoggedFrame DEF SweepGrace
<1>9. CASE Await BY <1>9, LoggedFrame DEF Await
<1>10. CASE CompleteStopKill BY <1>10, LoggedFrame DEF CompleteStopKill
<1>11. CASE NoteSurvivorKilled
  <2>1. <<"run", NoStop>> \notin EventWriters
    BY <1>11 DEF NoteSurvivorKilled, EventWriters
  <2>2. EventWriters' = EventWriters
           \cup (IF gracefulStop /\ ~forceKilled THEN {<<"run", NoStop>>} ELSE {})
    BY <1>11, <2>1, RunWriter DEF NoteSurvivorKilled
  <2> QED BY <1>11, <2>2 DEF NoteSurvivorKilled
<1>12. CASE NoteEvent
  <2>1. EventWriters' = EventWriters \ {<<"run", NoStop>>}
    BY <1>12, RunWriter DEF NoteEvent
  <2>2. <<"run", NoStop>> \in EventWriters
    BY <1>12 DEF NoteEvent, EventWriters
  <2> QED BY <1>12, <2>1, <2>2 DEF NoteEvent
<1>13. CASE AwaitReturns BY <1>13, LoggedFrame DEF AwaitReturns
<1>14. CASE DrainReaders BY <1>14, LoggedFrame DEF DrainReaders
<1>15. CASE FinishSequence BY <1>15, LoggedFrame DEF FinishSequence
<1>16. CASE JoinSequence BY <1>16, LoggedFrame DEF JoinSequence
<1>17. CASE CancelSequence BY <1>17, LoggedFrame DEF CancelSequence
<1>18. CASE GiveUpGroup
  <2>1. SameTimers
    BY <1>18, DisarmedAt DEF GiveUpGroup
  <2> QED BY <1>18, <2>1, LoggedFrame DEF GiveUpGroup
<1>19. CASE SweepReap BY <1>19, LoggedFrame DEF SweepReap
<1>20. CASE AwaitReap BY <1>20, LoggedFrame DEF AwaitReap
<1>21. CASE CompleteReap BY <1>21, LoggedFrame DEF CompleteReap
<1>22. CASE CompleteWait BY <1>22, LoggedFrame DEF CompleteWait
<1> QED BY <1>1, <1>2, <1>3, <1>4, <1>5, <1>6, <1>7, <1>8, <1>9, <1>10, <1>11,
           <1>12, <1>13, <1>14, <1>15, <1>16, <1>17, <1>18, <1>19, <1>20, <1>21,
           <1>22 DEF Ending

LEMMA LoggedDeciding ==
    TypeOK /\ SafetyInv /\ ForcedKillLoggedOnce /\ Deciding => ForcedKillLoggedOnce'
<1> SUFFICES ASSUME TypeOK, SafetyInv, ForcedKillLoggedOnce, Deciding
             PROVE  ForcedKillLoggedOnce'
  OBVIOUS
<1> USE ConstantsAssumption
        DEF TypeOK, DataTypes, FlagTypes, ForcedKillLoggedOnce, SameStops, SameTimers,
            SameRun
<1>1. CASE EndRun BY <1>1, LoggedFrame DEF EndRun
<1>2. CASE LogTerminal BY <1>2, LoggedFrame DEF LogTerminal
<1>3. CASE StoreTerminal BY <1>3, LoggedFrame DEF StoreTerminal
<1>4. CASE RemoveRecord BY <1>4, LoggedFrame DEF RemoveRecord
<1> QED BY <1>1, <1>2, <1>3, <1>4 DEF Deciding

LEMMA LoggedStopSequence ==
    TypeOK /\ SafetyInv /\ ForcedKillLoggedOnce /\ StopSequence => ForcedKillLoggedOnce'
<1> SUFFICES ASSUME TypeOK, SafetyInv, ForcedKillLoggedOnce, StopSequence
             PROVE  ForcedKillLoggedOnce'
  OBVIOUS
<1> USE ConstantsAssumption
        DEF TypeOK, DataTypes, FlagTypes, ForcedKillLoggedOnce, SameStops, SameTimers,
            SameRun
<1>1. CASE SeqSelect BY <1>1, LoggedFrame DEF SeqSelect
<1>2. CASE SeqCommandOver BY <1>2, LoggedFrame DEF SeqCommandOver
<1>3. CASE SeqLock
  <2>1. SameTimers
    BY <1>3, DisarmedAt, ArmedAt
       DEF SeqLock, SafetyInv, TimerInv, EscalationInv, SequenceInv
  <2> QED BY <1>3, <2>1, LoggedFrame DEF SeqLock
<1>4. CASE SeqSignals BY <1>4, LoggedFrame DEF SeqSignals
<1> QED BY <1>1, <1>2, <1>3, <1>4 DEF StopSequence

LEMMA LoggedStopProcess ==
    \A s \in Stops : TypeOK /\ SafetyInv /\ ForcedKillLoggedOnce /\ StopProcess(s)
                       => ForcedKillLoggedOnce'
<1> SUFFICES ASSUME NEW s \in Stops, TypeOK, SafetyInv, ForcedKillLoggedOnce,
                    StopProcess(s)
             PROVE  ForcedKillLoggedOnce'
  OBVIOUS
<1> USE ConstantsAssumption
        DEF TypeOK, DataTypes, FlagTypes, ForcedKillLoggedOnce, SameStops, SameTimers,
            SameRun
<1>1. CASE StopLatchKill(s) BY <1>1, LoggedFrame DEF StopLatchKill
<1>2. CASE StopBeginsSequence(s) BY <1>2, LoggedFrame DEF StopBeginsSequence
<1>3. CASE StopReplacesDeadline(s)
  <2>1. SameTimers
    BY <1>3, DisarmedAt, ArmedAt DEF StopReplacesDeadline, SafetyInv, TimerInv
  <2> QED BY <1>3, <2>1, LoggedFrame DEF StopReplacesDeadline
<1>4. CASE StopCancelsSequence(s) BY <1>4, LoggedFrame DEF StopCancelsSequence
<1>5. CASE StopForceKills(s)
  <2>1. <<"stop", s>> \notin EventWriters
    BY <1>5 DEF StopForceKills, EventWriters
  <2>2. SameTimers /\ SameRun
    BY <1>5 DEF StopForceKills
  <2>3. CASE LatchedFirst
    <3>1. rpc' = [rpc EXCEPT ![s] = "event"]
      BY <1>5, <2>3 DEF StopForceKills
    <3>2. EventWriters' = EventWriters \cup {<<"stop", s>>}
      BY <2>2, <3>1, StopWriterAdded
    <3> QED BY <1>5, <2>3, <3>2 DEF StopForceKills, ForceKill, LatchedFirst
  <2>4. CASE ~LatchedFirst
    <3>1. rpc' = [rpc EXCEPT ![s] = "returned"]
      BY <1>5, <2>4 DEF StopForceKills
    <3>2. EventWriters' = EventWriters
      BY <2>1, <2>2, <3>1, StopWriterRemoved
    <3> QED BY <1>5, <2>4, <3>2 DEF StopForceKills, ForceKill, LatchedFirst
  <2> QED BY <2>3, <2>4
<1>6. CASE StopReadsGroup(s) BY <1>6, LoggedFrame DEF StopReadsGroup
<1>7. CASE StopSignals(s) BY <1>7, LoggedFrame DEF StopSignals
<1>8. CASE StopEvent(s)
  <2>1. rpc' = [rpc EXCEPT ![s] = "returned"]
    BY <1>8 DEF StopEvent
  <2>2. SameTimers /\ SameRun
    BY <1>8 DEF StopEvent
  <2>3. EventWriters' = EventWriters \ {<<"stop", s>>}
    BY <2>1, <2>2, StopWriterRemoved
  <2>4. <<"stop", s>> \in EventWriters
    BY <1>8 DEF StopEvent, EventWriters
  <2> QED BY <1>8, <2>3, <2>4 DEF StopEvent
<1> QED BY <1>1, <1>2, <1>3, <1>4, <1>5, <1>6, <1>7, <1>8 DEF StopProcess

LEMMA LoggedEscalateStop ==
    \A s \in Stops : TypeOK /\ SafetyInv /\ ForcedKillLoggedOnce /\ EscalateStop(s)
                       => ForcedKillLoggedOnce'
<1> SUFFICES ASSUME NEW s \in Stops, TypeOK, SafetyInv, ForcedKillLoggedOnce,
                    EscalateStop(s)
             PROVE  ForcedKillLoggedOnce'
  OBVIOUS
<1> USE ConstantsAssumption
        DEF TypeOK, DataTypes, FlagTypes, ForcedKillLoggedOnce, SameStops, SameTimers,
            SameRun
<1>1. CASE TimerFires(s) BY <1>1, LoggedFrame DEF TimerFires
<1>2. CASE EscalateLatches(s) BY <1>2, LoggedFrame DEF EscalateLatches
<1>3. CASE EscalateForceKills(s)
  <2>1. <<"timer", s>> \notin EventWriters
    BY <1>3 DEF EscalateForceKills, EventWriters
  <2>2. SameStops /\ SameRun
    BY <1>3 DEF EscalateForceKills
  <2>3. CASE LatchedFirst
    <3>1. timer' = [timer EXCEPT ![s] = "event"]
      BY <1>3, <2>3 DEF EscalateForceKills
    <3>2. EventWriters' = EventWriters \cup {<<"timer", s>>}
      BY <2>2, <3>1, TimerWriterAdded
    <3> QED BY <1>3, <2>3, <3>2 DEF EscalateForceKills, ForceKill, LatchedFirst
  <2>4. CASE ~LatchedFirst
    <3>1. timer' = [timer EXCEPT ![s] = "done"]
      BY <1>3, <2>4 DEF EscalateForceKills
    <3>2. EventWriters' = EventWriters
      BY <2>1, <2>2, <3>1, TimerWriterRemoved
    <3> QED BY <1>3, <2>4, <3>2 DEF EscalateForceKills, ForceKill, LatchedFirst
  <2> QED BY <2>3, <2>4
<1>4. CASE EscalateEvent(s)
  <2>1. timer' = [timer EXCEPT ![s] = "done"]
    BY <1>4 DEF EscalateEvent
  <2>2. SameStops /\ SameRun
    BY <1>4 DEF EscalateEvent
  <2>3. EventWriters' = EventWriters \ {<<"timer", s>>}
    BY <2>1, <2>2, TimerWriterRemoved
  <2>4. <<"timer", s>> \in EventWriters
    BY <1>4 DEF EscalateEvent, EventWriters
  <2> QED BY <1>4, <2>3, <2>4 DEF EscalateEvent
<1> QED BY <1>1, <1>2, <1>3, <1>4 DEF EscalateStop

LEMMA LoggedStopRequest ==
    \A s \in Stops : TypeOK /\ SafetyInv /\ ForcedKillLoggedOnce /\ StopRequest(s)
                       => ForcedKillLoggedOnce'
<1> SUFFICES ASSUME NEW s \in Stops, TypeOK, SafetyInv, ForcedKillLoggedOnce,
                    StopRequest(s)
             PROVE  ForcedKillLoggedOnce'
  OBVIOUS
<1> USE ConstantsAssumption
        DEF TypeOK, DataTypes, FlagTypes, ForcedKillLoggedOnce, SameStops, SameTimers,
            SameRun
<1> QED BY LoggedFrame DEF StopRequest

\* A forced kill gets one event, whichever of the racing SIGKILLs latches it.
THEOREM ForcedKillOneEvent == Spec => []ForcedKillLoggedOnce
<1>1. Init => ForcedKillLoggedOnce
  BY DEF Init, ForcedKillLoggedOnce, EventWriters
<1>2. TypeOK /\ SafetyInv /\ ForcedKillLoggedOnce /\ [Next]_vars => ForcedKillLoggedOnce'
  <2> SUFFICES ASSUME TypeOK, SafetyInv, ForcedKillLoggedOnce, [Next]_vars
               PROVE  ForcedKillLoggedOnce'
    OBVIOUS
  <2>1. CASE UNCHANGED vars
    BY <2>1 DEF ForcedKillLoggedOnce, EventWriters
  <2>2. CASE Next
    BY <2>2, LoggedEnvironment, LoggedExec, LoggedLaunching, LoggedEnding,
       LoggedDeciding, LoggedStopSequence, LoggedStopRequest, LoggedStopProcess,
       LoggedEscalateStop
       DEF Next, RunLoop
  <2> QED BY <2>1, <2>2
<1> QED BY <1>1, <1>2, TypeCorrect, SafetyInvariant, PTL DEF Spec
-----------------------------------------------------------------------------
(* The refinement.  A step of the monitor is a step of CommandLifecycle or   *)
(* leaves what that talks about alone.                                      *)

LifecycleStep == [Lifecycle!LifecycleNext]_(Lifecycle!lifecycleVars)

LEMMA LifecycleStutter ==
    ASSUME UNCHANGED <<state, stopRequested, run, stopRun>>,
           pc' \in RunPcs <=> pc \in RunPcs
    PROVE  UNCHANGED Lifecycle!lifecycleVars
BY DEF Lifecycle!lifecycleVars

LEMMA StepEnvironment ==
    TypeOK /\ SafetyInv /\ Environment => LifecycleStep
<1> SUFFICES ASSUME TypeOK, SafetyInv, Environment
             PROVE  LifecycleStep
  OBVIOUS
<1> USE DEF LifecycleStep, RunPcs, outside, rpcVars, loopVars, rowVars, runOwned
<1>1. CASE Spawn BY <1>1, LifecycleStutter DEF Spawn
<1>2. CASE ChildExit BY <1>2, LifecycleStutter DEF ChildExit
<1>3. CASE SurvivorExit BY <1>3, LifecycleStutter DEF SurvivorExit
<1>4. CASE Shutdown BY <1>4, LifecycleStutter DEF Shutdown
<1> QED BY <1>1, <1>2, <1>3, <1>4 DEF Environment

LEMMA StepExec ==
    TypeOK /\ SafetyInv /\ Exec => LifecycleStep
<1> SUFFICES ASSUME TypeOK, SafetyInv, Exec
             PROVE  LifecycleStep
  OBVIOUS
<1> USE DEF LifecycleStep, RunPcs, outside, rpcVars, loopVars, rowVars, runOwned
<1>1. CASE CancelCommand BY <1>1, LifecycleStutter DEF CancelCommand
<1>2. CASE WaitDelayKill BY <1>2, LifecycleStutter DEF WaitDelayKill
<1> QED BY <1>1, <1>2 DEF Exec

LEMMA StepLaunching ==
    TypeOK /\ SafetyInv /\ Launching => LifecycleStep
<1> SUFFICES ASSUME TypeOK, SafetyInv, Launching
             PROVE  LifecycleStep
  OBVIOUS
<1> USE DEF LifecycleStep, RunPcs, outside, rpcVars, loopVars, rowVars, runOwned
<1>1. CASE FirstIteration BY <1>1, LifecycleStutter DEF FirstIteration
<1>2. CASE LoopTop BY <1>2, LifecycleStutter DEF LoopTop
<1>3. CASE ConfigFails BY <1>3, LifecycleStutter DEF ConfigFails
<1>4. CASE BeginRun BY <1>4, LifecycleStutter DEF BeginRun
<1>5. CASE SetupFails BY <1>5, LifecycleStutter DEF SetupFails
<1>6. CASE StartChild
  <2> USE DEF TypeOK, DataTypes, FlagTypes
  <2>1. Lifecycle!Active /\ pc \notin RunPcs
    BY <1>6 DEF StartChild, Lifecycle!Active, SafetyInv, LatchInv, RunPcs
  <2>2. stopRequested => stopRun <= run /\ run <= stopRun
    BY <1>6 DEF StartChild, SafetyInv, StopInv, LaunchPcs
  <2>3. ~(stopRequested /\ run > stopRun)
    BY <2>2
  <2>4. pc' \in RunPcs /\ UNCHANGED <<state, stopRequested, stopRun>> /\ run' = run + 1
    BY <1>6 DEF StartChild, RunPcs, outside, rpcVars, rowVars
  <2>5. (stopRequested' /\ run' > stopRun') = stopRequested
    <3>1. stopRequested => run' > stopRun'
      BY <2>2, <2>4
    <3>2. stopRequested \in BOOLEAN
      OBVIOUS
    <3> QED BY <2>4, <3>1, <3>2, Zenon
  <2> QED BY <2>1, <2>3, <2>4, <2>5 DEF Lifecycle!LifecycleNext, Lifecycle!StartRun
<1>7. CASE PublishRun BY <1>7, LifecycleStutter DEF PublishRun
<1>8. CASE LogRunning BY <1>8, LifecycleStutter DEF LogRunning
<1>9. CASE StoreRunning
  <2>1. Lifecycle!Active /\ pc \in RunPcs /\ pc' \in RunPcs /\ state' = "running"
    BY <1>9 DEF StoreRunning, Lifecycle!Active, SafetyInv, LatchInv, RunPcs
  <2>2. UNCHANGED <<stopRequested, run, stopRun>>
    BY <1>9 DEF StoreRunning, outside, rpcVars, loopVars
  <2> QED BY <2>1, <2>2 DEF Lifecycle!LifecycleNext, Lifecycle!AnnounceRun
<1> QED BY <1>1, <1>2, <1>3, <1>4, <1>5, <1>6, <1>7, <1>8, <1>9 DEF Launching

LEMMA StepEnding ==
    TypeOK /\ SafetyInv /\ Ending => LifecycleStep
<1> SUFFICES ASSUME TypeOK, SafetyInv, Ending
             PROVE  LifecycleStep
  OBVIOUS
<1> USE DEF LifecycleStep, RunPcs, outside, rpcVars, loopVars, rowVars, runOwned
<1>1. CASE WaitReturns BY <1>1, LifecycleStutter DEF WaitReturns
<1>2. CASE ClearHandles BY <1>2, LifecycleStutter DEF ClearHandles
<1>3. CASE SweepStart BY <1>3, LifecycleStutter DEF SweepStart
<1>4. CASE SweepScan BY <1>4, LifecycleStutter DEF SweepScan
<1>5. CASE ScanFails BY <1>5, LifecycleStutter DEF ScanFails
<1>6. CASE SweepCheck BY <1>6, LifecycleStutter DEF SweepCheck
<1>7. CASE SweepKill BY <1>7, LifecycleStutter DEF SweepKill
<1>8. CASE SweepGrace BY <1>8, LifecycleStutter DEF SweepGrace
<1>9. CASE Await BY <1>9, LifecycleStutter DEF Await
<1>10. CASE CompleteStopKill BY <1>10, LifecycleStutter DEF CompleteStopKill
<1>11. CASE NoteSurvivorKilled BY <1>11, LifecycleStutter DEF NoteSurvivorKilled
<1>12. CASE NoteEvent BY <1>12, LifecycleStutter DEF NoteEvent
<1>13. CASE AwaitReturns BY <1>13, LifecycleStutter DEF AwaitReturns
<1>14. CASE DrainReaders BY <1>14, LifecycleStutter DEF DrainReaders
<1>15. CASE FinishSequence BY <1>15, LifecycleStutter DEF FinishSequence
<1>16. CASE JoinSequence BY <1>16, LifecycleStutter DEF JoinSequence
<1>17. CASE CancelSequence BY <1>17, LifecycleStutter DEF CancelSequence
<1>18. CASE GiveUpGroup
  <2>1. pc \in RunPcs /\ pc' \notin RunPcs
    BY <1>18 DEF GiveUpGroup, RunPcs
  <2>2. UNCHANGED <<state, stopRequested, run, stopRun>>
    BY <1>18 DEF GiveUpGroup, rpcVars, rowVars
  <2> QED BY <2>1, <2>2 DEF Lifecycle!LifecycleNext, Lifecycle!FinishRun
<1>19. CASE SweepReap BY <1>19, LifecycleStutter DEF SweepReap
<1>20. CASE AwaitReap BY <1>20, LifecycleStutter DEF AwaitReap
<1>21. CASE CompleteReap BY <1>21, LifecycleStutter DEF CompleteReap
<1>22. CASE CompleteWait BY <1>22, LifecycleStutter DEF CompleteWait
<1> QED BY <1>1, <1>2, <1>3, <1>4, <1>5, <1>6, <1>7, <1>8, <1>9, <1>10, <1>11,
           <1>12, <1>13, <1>14, <1>15, <1>16, <1>17, <1>18, <1>19, <1>20, <1>21,
           <1>22 DEF Ending

LEMMA StepDeciding ==
    TypeOK /\ SafetyInv /\ Deciding => LifecycleStep
<1> SUFFICES ASSUME TypeOK, SafetyInv, Deciding
             PROVE  LifecycleStep
  OBVIOUS
<1> USE DEF LifecycleStep, RunPcs, outside, rpcVars, loopVars, rowVars, runOwned
<1>1. CASE EndRun BY <1>1, LifecycleStutter DEF EndRun
<1>2. CASE LogTerminal BY <1>2, LifecycleStutter DEF LogTerminal
<1>3. CASE StoreTerminal
  <2>1. Lifecycle!Active /\ pc \notin RunPcs /\ pc' \notin RunPcs
    BY <1>3 DEF StoreTerminal, Lifecycle!Active, SafetyInv, LatchInv, RunPcs
  <2>2. state' \in {"exited", "failed"} /\ UNCHANGED <<stopRequested, run, stopRun>>
    BY <1>3 DEF StoreTerminal, outside, rpcVars, loopVars
  <2> QED BY <2>1, <2>2 DEF Lifecycle!LifecycleNext, Lifecycle!Terminate
<1>4. CASE RemoveRecord
  <2>1. state = "exited" /\ state' \in {"exited", "removed"}
    BY <1>4 DEF RemoveRecord, SafetyInv, LatchInv
  <2>2. pc \notin RunPcs /\ pc' \notin RunPcs /\ UNCHANGED <<stopRequested, run, stopRun>>
    BY <1>4 DEF RemoveRecord, outside, rpcVars, loopVars, RunPcs
  <2> QED BY <2>1, <2>2, LifecycleStutter DEF Lifecycle!LifecycleNext, Lifecycle!Remove
<1> QED BY <1>1, <1>2, <1>3, <1>4 DEF Deciding

LEMMA StepStopSequence ==
    TypeOK /\ SafetyInv /\ StopSequence => LifecycleStep
<1> SUFFICES ASSUME TypeOK, SafetyInv, StopSequence
             PROVE  LifecycleStep
  OBVIOUS
<1> USE DEF LifecycleStep, RunPcs, outside, rpcVars, loopVars, rowVars, runOwned
<1>1. CASE SeqSelect BY <1>1, LifecycleStutter DEF SeqSelect
<1>2. CASE SeqCommandOver BY <1>2, LifecycleStutter DEF SeqCommandOver
<1>3. CASE SeqLock BY <1>3, LifecycleStutter DEF SeqLock
<1>4. CASE SeqSignals BY <1>4, LifecycleStutter DEF SeqSignals
<1> QED BY <1>1, <1>2, <1>3, <1>4 DEF StopSequence

LEMMA StepStopProcess ==
    \A s \in Stops : TypeOK /\ SafetyInv /\ StopProcess(s) => LifecycleStep
<1> SUFFICES ASSUME NEW s \in Stops, TypeOK, SafetyInv, StopProcess(s)
             PROVE  LifecycleStep
  OBVIOUS
<1> USE DEF LifecycleStep, RunPcs, outside, rpcVars, loopVars, rowVars, runOwned
<1>1. CASE StopLatchKill(s) BY <1>1, LifecycleStutter DEF StopLatchKill
<1>2. CASE StopBeginsSequence(s) BY <1>2, LifecycleStutter DEF StopBeginsSequence
<1>3. CASE StopReplacesDeadline(s) BY <1>3, LifecycleStutter DEF StopReplacesDeadline
<1>4. CASE StopCancelsSequence(s) BY <1>4, LifecycleStutter DEF StopCancelsSequence
<1>5. CASE StopForceKills(s) BY <1>5, LifecycleStutter DEF StopForceKills
<1>6. CASE StopReadsGroup(s) BY <1>6, LifecycleStutter DEF StopReadsGroup
<1>7. CASE StopSignals(s) BY <1>7, LifecycleStutter DEF StopSignals
<1>8. CASE StopEvent(s) BY <1>8, LifecycleStutter DEF StopEvent
<1> QED BY <1>1, <1>2, <1>3, <1>4, <1>5, <1>6, <1>7, <1>8 DEF StopProcess

LEMMA StepEscalateStop ==
    \A s \in Stops : TypeOK /\ SafetyInv /\ EscalateStop(s) => LifecycleStep
<1> SUFFICES ASSUME NEW s \in Stops, TypeOK, SafetyInv, EscalateStop(s)
             PROVE  LifecycleStep
  OBVIOUS
<1> USE DEF LifecycleStep, RunPcs, outside, rpcVars, loopVars, rowVars, runOwned
<1>1. CASE TimerFires(s) BY <1>1, LifecycleStutter DEF TimerFires
<1>2. CASE EscalateLatches(s) BY <1>2, LifecycleStutter DEF EscalateLatches
<1>3. CASE EscalateForceKills(s) BY <1>3, LifecycleStutter DEF EscalateForceKills
<1>4. CASE EscalateEvent(s) BY <1>4, LifecycleStutter DEF EscalateEvent
<1> QED BY <1>1, <1>2, <1>3, <1>4 DEF EscalateStop

LEMMA StepStopRequest ==
    \A s \in Stops : TypeOK /\ SafetyInv /\ StopRequest(s) => LifecycleStep
<1> SUFFICES ASSUME NEW s \in Stops, TypeOK, SafetyInv, StopRequest(s)
             PROVE  LifecycleStep
  OBVIOUS
<1> USE DEF LifecycleStep
<1>1. UNCHANGED <<state, run, pc>> /\ stopRequested'
  BY DEF StopRequest, runOwned, loopVars, rowVars
<1>2. CASE stopRequested
  <2>1. stopRequested' = stopRequested /\ stopRun' = stopRun
    BY <1>2 DEF StopRequest, TypeOK, FlagTypes
  <2> QED BY <1>1, <2>1, LifecycleStutter
<1>3. CASE ~stopRequested
  <2>1. stopRun' = run
    BY <1>3 DEF StopRequest
  <2>2. ~(run' > stopRun')
    BY <1>1, <2>1 DEF TypeOK, DataTypes
  <2> QED BY <1>1, <1>3, <2>2 DEF Lifecycle!LifecycleNext, Lifecycle!AskStop
<1> QED BY <1>2, <1>3

\* A monitor implements the lifecycle that clients rely on: one run at a time,
\* no terminal state while a run is live, no state past a terminal one, and at
\* most one run that slipped past a stop.
THEOREM RefinesLifecycle == Spec => ImplementsLifecycle
<1>1. Init => Lifecycle!LifecycleInit
  BY DEF Init, Lifecycle!LifecycleInit, RunPcs
<1>2. TypeOK /\ SafetyInv /\ [Next]_vars => LifecycleStep
  <2> SUFFICES ASSUME TypeOK, SafetyInv, [Next]_vars PROVE LifecycleStep
    OBVIOUS
  <2>1. CASE UNCHANGED vars
    BY <2>1, LifecycleStutter
       DEF LifecycleStep, vars, outside, rpcVars, loopVars, rowVars, runOwned
  <2>2. CASE Next
    BY <2>2, StepEnvironment, StepExec, StepLaunching, StepEnding, StepDeciding,
       StepStopSequence, StepStopRequest, StepStopProcess, StepEscalateStop
       DEF Next, RunLoop
  <2> QED BY <2>1, <2>2
<1> QED BY <1>1, <1>2, TypeCorrect, SafetyInvariant, PTL
        DEF Spec, ImplementsLifecycle, Lifecycle!Spec, LifecycleStep

-----------------------------------------------------------------------------
(* What the runs check as one property each.                               *)

\* A stop keeps to its run: it meets no process of a later one, its sequence sends
\* inside its own run, and the loop starts at most one run past it.
THEOREM StopSafe == Spec => []StopSafety
<1>1. OneRunPastStop /\ StopKeepsToItsRun /\ SequenceHoldsGroup => StopSafety
  BY DEF StopSafety
<1> QED BY <1>1, StopEndsLoop, StopKeepsToRun, SequenceInsideRun, PTL

\* A forced kill is the escalation of a graceful stop and is recorded once,
\* whichever of the paths that send SIGKILL comes first.
THEOREM ForcedKillSafe == Spec => []ForcedKillSafety
<1>1. ForcedKillLoggedOnce /\ ForcedKillEscalates => ForcedKillSafety
  BY DEF ForcedKillSafety
<1> QED BY <1>1, ForcedKillOneEvent, OnlyGracefulEscalates, PTL

\* What setExited and setFailed record of a run, and the restarts counted, are what
\* happened.
THEOREM RowSafe == Spec => []RowSafety
<1>1. TerminalRowMatchesLog /\ RestartsCounted => RowSafety
  BY DEF RowSafety
<1> QED BY <1>1, RowMatchesLog, RestartsExact, PTL

\* The sweep of a run's session takes every child of the command's and keeps out
\* of a stop's way.
THEOREM SweepSafe == Spec => []SweepSafety
<1>1. SweepYieldsToStop /\ SessionSwept => SweepSafety
  BY DEF SweepSafety
<1> QED BY <1>1, SweepYields, NothingLeftBehind, PTL
=============================================================================
