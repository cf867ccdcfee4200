-------------------------- MODULE SupervisionProofs --------------------------
(***************************************************************************)
(* Theorems about Supervision, for any set of invocations, monitors and    *)
(* operations.                                                             *)
(***************************************************************************)
EXTENDS Supervision, TLAPS

-----------------------------------------------------------------------------
(* Typing of the helpers.                                                  *)

\* A client that moves on to a step stays typed.
LEMMA GoesTyped ==
    ASSUME TypeOK, NEW c \in Clients, NEW to \in ClientSteps, Goes(c, to)
    PROVE  cpc' \in [Clients -> ClientSteps]
BY DEF TypeOK, Goes

\* An operation that ends reports one of the results.
LEMMA EndsTyped ==
    ASSUME TypeOK, NEW c \in Clients, NEW r \in Results, Ends(c, r)
    PROVE  cpc' \in [Clients -> ClientSteps] /\ result' \in [Clients -> Results]
BY DEF TypeOK, Ends, Goes, ClientSteps

\* A stop that returns hands its caller a step or a result.
LEMMA StopReturnsTyped ==
    ASSUME TypeOK, NEW c \in Clients, NEW u \in BOOLEAN, NEW f \in BOOLEAN, StopReturns(c, u, f)
    PROVE  /\ cpc' \in [Clients -> ClientSteps] /\ result' \in [Clients -> Results]
           /\ died' \in [Clients -> BOOLEAN]
<1>1. died' \in [Clients -> BOOLEAN]
  BY DEF TypeOK, StopReturns
<1>2. CASE \E r \in Results : Ends(c, r)
  BY <1>1, <1>2, EndsTyped
<1>3. CASE (\E to \in ClientSteps : Goes(c, to)) /\ UNCHANGED result
  BY <1>1, <1>3, GoesTyped DEF TypeOK
<1> QED BY <1>2, <1>3 DEF StopReturns, Results, ClientSteps

\* What a monitor stores is a row.
LEMMA StoreTyped ==
    ASSUME TypeOK, NEW m \in Monitors, NEW s \in Active \cup Terminal, NEW p \in BOOLEAN,
           Store(Row(s, m, p))
    PROVE  rec' \in Rows /\ cfgDir' \in BOOLEAN /\ fresh' \in [Clients -> BOOLEAN]
BY DEF TypeOK, Store, Updated, Row, Rows, Active, Terminal

\* Opening with O_CREATE names a pid file.
LEMMA OpenTyped ==
    ASSUME TypeOK, OpenCreate
    PROVE  pidFile' \in Inodes \cup {0} /\ inodes' \in 0 .. MaxInodes /\ Opened \in Inodes
BY InodeAssumption DEF TypeOK, OpenCreate, Opened, Inodes

\* Locks are held by processes, whoever takes or drops one.
LEMMA LocksTyped ==
    ASSUME TypeOK
    PROVE  /\ \A p : LocksWithout(p) \in [Inodes -> Monitors \cup Clients \cup {Nobody}]
           /\ \A i, p : p \in Monitors \cup Clients =>
                 Locked(i, p) \in [Inodes -> Monitors \cup Clients \cup {Nobody}]
BY DEF TypeOK, LocksWithout, Locked

\* A removed record and a death marked on a row that was read are rows.
LEMMA RowsTyped ==
    /\ Gone \in Rows
    /\ \A r \in Rows : [r EXCEPT !.state = "failed", !.died = TRUE] \in Rows
BY DEF Rows, Gone, Row, Terminal

\* What follows a marked death is typed too.
LEMMA MarkedTyped ==
    ASSUME TypeOK, NEW c \in Clients, Marked(c)
    PROVE  /\ cpc' \in [Clients -> ClientSteps] /\ result' \in [Clients -> Results]
           /\ died' \in [Clients -> BOOLEAN]
<1>1. late[c] \in BOOLEAN /\ "ok" \in Results
  BY DEF TypeOK, Results
<1>2. CASE op[c] = "list"
  BY <1>1, <1>2, EndsTyped DEF Marked, TypeOK
<1>3. CASE op[c] # "list"
  BY <1>1, <1>3, StopReturnsTyped DEF Marked
<1> QED BY <1>2, <1>3

\* Every step of a monitor or an invocation keeps the variables in their domains.
LEMMA TypeStep == TypeOK /\ [Next]_vars => TypeOK'
<1> SUFFICES ASSUME TypeOK, [Next]_vars PROVE TypeOK'
  OBVIOUS
<1> USE ProcessAssumption, InodeAssumption
<1>1. ASSUME NEW m \in Monitors, Monitor(m) PROVE TypeOK'
  <2>1. CASE MonNew(m)
    BY <2>1, TypeOK DEF MonNew, MonGoes, MonSteps, ComingUp, Supervising, Leaving, Aborting, TypeOK, vars, storeVars, fileVars, monVars, readVars, stopVars, clientVars
  <2>2. CASE MonOpen(m)
    BY <2>2, TypeOK, OpenTyped DEF MonOpen, MonGoes, MonSteps, ComingUp, Supervising, Leaving, Aborting, OpenCreate, TypeOK, vars, storeVars, fileVars, monVars, readVars, stopVars, clientVars
  <2>3. CASE MonLock(m)
    BY <2>3, TypeOK, LocksTyped DEF MonLock, MonGoes, MonSteps, ComingUp, Supervising, Leaving, Aborting, TypeOK, vars, storeVars, fileVars, monVars, readVars, stopVars, clientVars
  <2>4. CASE MonCheck(m)
    BY <2>4, TypeOK DEF MonCheck, MonGoes, MonSteps, ComingUp, Supervising, Leaving, Aborting, TypeOK, vars, storeVars, fileVars, monVars, readVars, stopVars, clientVars
  <2>5. CASE MonClaim(m)
    BY <2>5, TypeOK, StoreTyped DEF MonClaim, MonGoes, MonSteps, ComingUp, Supervising, Leaving, Aborting, Updated, Active, Terminal, TypeOK, vars, storeVars, fileVars, monVars, readVars, stopVars, clientVars
  <2>6. CASE MonAnnounce(m)
    BY <2>6, TypeOK, StoreTyped DEF MonAnnounce, MonGoes, MonSteps, ComingUp, Supervising, Leaving, Aborting, Updated, Active, Terminal, TypeOK, vars, storeVars, fileVars, monVars, readVars, stopVars, clientVars
  <2>7. CASE MonListen(m)
    BY <2>7, TypeOK DEF MonListen, MonGoes, MonSteps, ComingUp, Supervising, Leaving, Aborting, TypeOK, vars, storeVars, fileVars, monVars, readVars, stopVars, clientVars
  <2>8. CASE MonAborts(m)
    BY <2>8, TypeOK DEF MonAborts, MonGoes, MonSteps, ComingUp, Supervising, Leaving, Aborting, TypeOK, vars, storeVars, fileVars, monVars, readVars, stopVars, clientVars
  <2>9. CASE MonRunning(m)
    BY <2>9, TypeOK, StoreTyped DEF MonRunning, MonGoes, MonSteps, ComingUp, Supervising, Leaving, Aborting, Updated, Active, Terminal, TypeOK, vars, storeVars, fileVars, monVars, readVars, stopVars, clientVars
  <2>10. CASE MonExited(m)
    BY <2>10, TypeOK, StoreTyped DEF MonExited, MonGoes, MonSteps, ComingUp, Supervising, Leaving, Aborting, Updated, Active, Terminal, TypeOK, vars, storeVars, fileVars, monVars, readVars, stopVars, clientVars
  <2>11. CASE MonFailed(m)
    BY <2>11, TypeOK, StoreTyped DEF MonFailed, MonGoes, MonSteps, ComingUp, Supervising, Leaving, Aborting, Updated, Active, Terminal, TypeOK, vars, storeVars, fileVars, monVars, readVars, stopVars, clientVars
  <2>12. CASE MonDeletes(m)
    BY <2>12, TypeOK, RowsTyped DEF MonDeletes, MonGoes, MonSteps, ComingUp, Supervising, Leaving, Aborting, TypeOK, vars, storeVars, fileVars, monVars, readVars, stopVars, clientVars
  <2>13. CASE MonDropsDir(m)
    BY <2>13, TypeOK DEF MonDropsDir, MonGoes, MonSteps, ComingUp, Supervising, Leaving, Aborting, TypeOK, vars, storeVars, fileVars, monVars, readVars, stopVars, clientVars
  <2>14. CASE MonUnbinds(m)
    BY <2>14, TypeOK DEF MonUnbinds, MonGoes, MonSteps, ComingUp, Supervising, Leaving, Aborting, TypeOK, vars, storeVars, fileVars, monVars, readVars, stopVars, clientVars
  <2>15. CASE MonUnnames(m)
    BY <2>15, TypeOK DEF MonUnnames, MonGoes, MonSteps, ComingUp, Supervising, Leaving, Aborting, TypeOK, vars, storeVars, fileVars, monVars, readVars, stopVars, clientVars
  <2>16. CASE MonUnlocks(m)
    BY <2>16, TypeOK, LocksTyped DEF MonUnlocks, MonGoes, MonSteps, ComingUp, Supervising, Leaving, Aborting, TypeOK, vars, storeVars, fileVars, monVars, readVars, stopVars, clientVars
  <2> QED BY <1>1, <2>1, <2>2, <2>3, <2>4, <2>5, <2>6, <2>7, <2>8, <2>9, <2>10, <2>11, <2>12, <2>13, <2>14, <2>15, <2>16 DEF Monitor
<1>2. ASSUME NEW m \in Monitors, Crash(m) PROVE TypeOK'
  BY <1>2, TypeOK, LocksTyped DEF Crash, Dies, Alive, LocksWithout, MonSteps, TypeOK, vars, storeVars, fileVars, monVars, readVars, stopVars, clientVars
<1>3. ASSUME NEW c \in Clients, StartOp(c) PROVE TypeOK'
  <2>1. CASE RestartReads(c)
    BY <2>1, TypeOK, EndsTyped, GoesTyped DEF RestartReads, At, ClientSteps, Results, TypeOK, vars, storeVars, fileVars, monVars, readVars, stopVars, clientVars
  <2>2. CASE StartMarks(c)
    BY <2>2, TypeOK, EndsTyped, GoesTyped DEF StartMarks, At, ClientSteps, Reads, Results, TypeOK, vars, storeVars, fileVars, monVars, readVars, stopVars, clientVars
  <2>3. CASE StartSpawns(c)
    BY <2>3, TypeOK, EndsTyped, GoesTyped DEF StartSpawns, At, ClientSteps, MonGoes, Results, MonSteps, ComingUp, TypeOK, vars, storeVars, fileVars, monVars, readVars, stopVars, clientVars
  <2>4. CASE StartPolls(c)
    BY <2>4, TypeOK, EndsTyped, GoesTyped DEF StartPolls, At, ClientSteps, Progress, Results, TypeOK, vars, storeVars, fileVars, monVars, readVars, stopVars, clientVars
  <2>5. CASE StartTimesOut(c)
    BY <2>5, TypeOK, EndsTyped, GoesTyped DEF StartTimesOut, At, ClientSteps, Results, TypeOK, vars, storeVars, fileVars, monVars, readVars, stopVars, clientVars
  <2> QED BY <1>3, <2>1, <2>2, <2>3, <2>4, <2>5 DEF StartOp
<1>4. ASSUME NEW c \in Clients, ListOp(c) PROVE TypeOK'
  <2>1. CASE ListReads(c)
    BY <2>1, TypeOK, EndsTyped, GoesTyped DEF ListReads, At, ClientSteps, Results, Rows, TypeOK, vars, storeVars, fileVars, monVars, readVars, stopVars, clientVars
  <2>2. CASE ProbeOpens(c)
    BY <2>2, TypeOK, GoesTyped DEF ProbeOpens, At, ClientSteps, TypeOK, vars, storeVars, fileVars, monVars, readVars, stopVars, clientVars
  <2>3. CASE ProbeLocks(c)
    BY <2>3, TypeOK, EndsTyped, GoesTyped, LocksTyped DEF ProbeLocks, At, ClientSteps, Results, TypeOK, vars, storeVars, fileVars, monVars, readVars, stopVars, clientVars
  <2>4. CASE ProbeUnlocks(c)
    BY <2>4, TypeOK, GoesTyped, LocksTyped DEF ProbeUnlocks, At, ClientSteps, TypeOK, vars, storeVars, fileVars, monVars, readVars, stopVars, clientVars
  <2>5. CASE ListRereads(c)
    BY <2>5, TypeOK, EndsTyped, GoesTyped DEF ListRereads, At, ClientSteps, Reads, Results, TypeOK, vars, storeVars, fileVars, monVars, readVars, stopVars, clientVars
  <2>6. CASE MarkMonitorDied(c)
    <3>1. rec' \in Rows
      BY <2>6, TypeOK, RowsTyped DEF MarkMonitorDied, Updated, TypeOK
    <3>2. /\ cpc' \in [Clients -> ClientSteps] /\ result' \in [Clients -> Results]
          /\ died' \in [Clients -> BOOLEAN]
      <4>1. CASE Goes(c, "autoDelete") /\ UNCHANGED <<died, result>>
        BY <4>1, TypeOK, GoesTyped DEF TypeOK, ClientSteps
      <4>2. CASE Marked(c)
        BY <4>2, TypeOK, MarkedTyped
      <4> QED BY <2>6, <4>1, <4>2 DEF MarkMonitorDied
    <3> QED BY <2>6, <3>1, <3>2, TypeOK DEF MarkMonitorDied, TypeOK, fileVars, monVars, readVars
  <2>7. CASE MarkDeletes(c)
    BY <2>7, TypeOK, GoesTyped, RowsTyped DEF MarkDeletes, At, ClientSteps, TypeOK, vars, storeVars, fileVars, monVars, readVars, stopVars, clientVars
  <2>8. CASE MarkDropsDirs(c)
    BY <2>8, TypeOK, MarkedTyped DEF MarkDropsDirs, TypeOK, storeVars, monVars, readVars
  <2> QED BY <1>4, <2>1, <2>2, <2>3, <2>4, <2>5, <2>6, <2>7, <2>8 DEF ListOp
<1>5. ASSUME NEW c \in Clients, StopOp(c) PROVE TypeOK'
  <2>1. CASE StopReads(c)
    BY <2>1, TypeOK, EndsTyped, StopReturnsTyped, GoesTyped DEF StopReads, At, ClientSteps, Results, TypeOK, vars, storeVars, fileVars, monVars, readVars, stopVars, clientVars
  <2>2. CASE StopSends(c)
    BY <2>2, TypeOK, EndsTyped, StopReturnsTyped, GoesTyped DEF StopSends, At, ClientSteps, Results, TypeOK, vars, storeVars, fileVars, monVars, readVars, stopVars, clientVars
  <2>3. CASE StopDials(c)
    BY <2>3, TypeOK, EndsTyped, StopReturnsTyped, GoesTyped DEF StopDials, At, ClientSteps, Results, TypeOK, vars, storeVars, fileVars, monVars, readVars, stopVars, clientVars
  <2>4. CASE StopSeesEnd(c)
    BY <2>4, TypeOK, EndsTyped, StopReturnsTyped, GoesTyped DEF StopSeesEnd, At, ClientSteps, Results, TypeOK, vars, storeVars, fileVars, monVars, readVars, stopVars, clientVars
  <2>5. CASE StopTimesOut(c)
    BY <2>5, TypeOK, EndsTyped, StopReturnsTyped, GoesTyped DEF StopTimesOut, At, ClientSteps, Results, TypeOK, vars, storeVars, fileVars, monVars, readVars, stopVars, clientVars
  <2>6. CASE StopSettles(c)
    <3>1. late[c] \in BOOLEAN /\ rec \in Rows /\ "markDied" \in ClientSteps
      BY TypeOK DEF TypeOK, ClientSteps
    <3>2. /\ cpc' \in [Clients -> ClientSteps] /\ result' \in [Clients -> Results]
          /\ died' \in [Clients -> BOOLEAN]
      <4>1. CASE \E u, f \in BOOLEAN : StopReturns(c, u, f)
        BY <4>1, TypeOK, StopReturnsTyped
      <4>2. CASE Goes(c, "markDied") /\ UNCHANGED <<died, result>>
        BY <4>2, <3>1, TypeOK, GoesTyped DEF TypeOK
      <4> QED BY <2>6, <3>1, <4>1, <4>2 DEF StopSettles
    <3>3. seen' \in [Clients -> Rows]
      BY <2>6, <3>1, TypeOK DEF StopSettles, Reads, TypeOK
    <3> QED BY <2>6, <3>2, <3>3, TypeOK DEF StopSettles, TypeOK, storeVars, fileVars, monVars
  <2> QED BY <1>5, <2>1, <2>2, <2>3, <2>4, <2>5, <2>6 DEF StopOp
<1>6. ASSUME NEW c \in Clients, RemoveOp(c) PROVE TypeOK'
  <2>1. CASE HoldOpens(c)
    BY <2>1, TypeOK, GoesTyped, OpenTyped DEF HoldOpens, At, ClientSteps, OpenCreate, TypeOK, vars, storeVars, fileVars, monVars, readVars, stopVars, clientVars
  <2>2. CASE HoldLocks(c)
    BY <2>2, TypeOK, EndsTyped, GoesTyped, LocksTyped DEF HoldLocks, At, ClientSteps, Results, TypeOK, vars, storeVars, fileVars, monVars, readVars, stopVars, clientVars
  <2>3. CASE HoldReleases(c)
    BY <2>3, TypeOK, GoesTyped, LocksTyped DEF HoldReleases, At, ClientSteps, TypeOK, vars, storeVars, fileVars, monVars, readVars, stopVars, clientVars
  <2>4. CASE RemoveReads(c)
    BY <2>4, TypeOK, EndsTyped, GoesTyped DEF RemoveReads, At, ClientSteps, Results, Rows, TypeOK, vars, storeVars, fileVars, monVars, readVars, stopVars, clientVars
  <2>5. CASE RemoveKills(c)
    BY <2>5, TypeOK, GoesTyped, LocksTyped DEF RemoveKills, At, ClientSteps, Dies, Alive, MonSteps, TypeOK, vars, storeVars, fileVars, monVars, readVars, stopVars, clientVars
  <2>6. CASE RemoveDeletes(c)
    BY <2>6, TypeOK, GoesTyped, RowsTyped DEF RemoveDeletes, At, ClientSteps, TypeOK, vars, storeVars, fileVars, monVars, readVars, stopVars, clientVars
  <2>7. CASE RemoveDropsCommandDir(c)
    BY <2>7, TypeOK, GoesTyped DEF RemoveDropsCommandDir, At, ClientSteps, TypeOK, vars, storeVars, fileVars, monVars, readVars, stopVars, clientVars
  <2>8. CASE RemoveDropsRuntimeDir(c)
    BY <2>8, TypeOK, EndsTyped, GoesTyped DEF RemoveDropsRuntimeDir, At, ClientSteps, Results, TypeOK, vars, storeVars, fileVars, monVars, readVars, stopVars, clientVars
  <2> QED BY <1>6, <2>1, <2>2, <2>3, <2>4, <2>5, <2>6, <2>7, <2>8 DEF RemoveOp
<1>7. ASSUME NEW c \in Clients, NEW o \in Ops, Begin(c, o) PROVE TypeOK'
  BY <1>7, TypeOK, GoesTyped DEF Begin, At, Goes, ClientSteps, TypeOK, vars, storeVars, fileVars, monVars, readVars, stopVars, clientVars
<1>8. CASE UNCHANGED vars
  BY <1>8, TypeOK DEF TypeOK, vars, storeVars, fileVars, monVars, readVars, stopVars, clientVars
<1> QED BY <1>1, <1>2, <1>3, <1>4, <1>5, <1>6, <1>7, <1>8 DEF Next, Client, Finished

\* The rows, files, locks and steps stay in their domains, for any number of
\* invocations and monitors.
THEOREM TypeCorrect == Spec => []TypeOK
<1>1. Init => TypeOK
  BY ProcessAssumption, InodeAssumption
  DEF Init, TypeOK, Rows, Row, Gone, Inodes, MonSteps, ClientSteps, Results
<1>2. TypeOK /\ [Next]_vars => TypeOK'
  BY TypeStep
<1> QED BY <1>1, <1>2, PTL DEF Spec

-----------------------------------------------------------------------------
(* What a step leaves alone.                                               *)

\* A monitor's step leaves the clients alone; it stores a row of its own, removes
\* the record or leaves the row as it is.
LEMMA MonitorFrame ==
    ASSUME NEW m \in Monitors, Monitor(m) \/ Crash(m)
    PROVE  /\ UNCHANGED clientVars
           /\ \/ UNCHANGED <<rec, fresh>>
              \/ rec' = Gone /\ UNCHANGED fresh
              \/ \E s \in Active \cup Terminal, p \in BOOLEAN : Store(Row(s, m, p))
<1>1. CASE MonNew(m)
  BY <1>1 DEF MonNew, storeVars
<1>2. CASE MonOpen(m)
  BY <1>2 DEF MonOpen, storeVars
<1>3. CASE MonLock(m)
  BY <1>3 DEF MonLock, storeVars
<1>4. CASE MonCheck(m)
  BY <1>4 DEF MonCheck, storeVars
<1>5. CASE MonClaim(m)
  BY <1>5 DEF MonClaim, Active, Terminal, storeVars
<1>6. CASE MonAnnounce(m)
  BY <1>6 DEF MonAnnounce, Active, Terminal, storeVars
<1>7. CASE MonListen(m)
  BY <1>7 DEF MonListen, storeVars
<1>8. CASE MonAborts(m)
  BY <1>8 DEF MonAborts, storeVars
<1>9. CASE MonRunning(m)
  BY <1>9 DEF MonRunning, Active, Terminal, storeVars
<1>10. CASE MonExited(m)
  BY <1>10 DEF MonExited, Active, Terminal, storeVars
<1>11. CASE MonFailed(m)
  BY <1>11 DEF MonFailed, Active, Terminal, storeVars
<1>12. CASE MonDeletes(m)
  BY <1>12 DEF MonDeletes, storeVars
<1>13. CASE MonDropsDir(m)
  BY <1>13 DEF MonDropsDir, storeVars
<1>14. CASE MonUnbinds(m)
  BY <1>14 DEF MonUnbinds, storeVars
<1>15. CASE MonUnnames(m)
  BY <1>15 DEF MonUnnames, storeVars
<1>16. CASE MonUnlocks(m)
  BY <1>16 DEF MonUnlocks, storeVars
<1>17. CASE Crash(m)
  BY <1>17 DEF Crash, storeVars
<1> QED BY <1>1, <1>2, <1>3, <1>4, <1>5, <1>6, <1>7, <1>8, <1>9, <1>10, <1>11, <1>12, <1>13, <1>14, <1>15, <1>16, <1>17 DEF Monitor

\* A client's step is local to the client, except for what it does to the locks,
\* to a monitor it spawns or kills, and to the row.
ClientFrameOf(c) ==
    /\ UNCHANGED mino
    /\ \/ UNCHANGED <<mpc, lock>>
       \/ StartSpawns(c) \/ RemoveKills(c)
       \/ \E i \in {cino[c]} : lock[i] = Nobody /\ lock' = Locked(i, c) /\ UNCHANGED mpc
       \/ lock' = LocksWithout(c) /\ UNCHANGED mpc
    /\ \/ UNCHANGED <<rec, fresh>>
       \/ StartMarks(c)
       \/ rec' = Gone /\ UNCHANGED fresh
       \/ MarkMonitorDied(c)
    /\ \A d \in Clients \ {c} :
          /\ cpc'[d] = cpc[d] /\ seen'[d] = seen[d] /\ progressed'[d] = progressed[d]
          /\ result'[d] = result[d] /\ cino'[d] = cino[d]
    /\ cpc'[c] \in {"spawn", "await"} => StartMarks(c) \/ StartSpawns(c) \/ StartPolls(c)
    /\ cpc'[c] \in {"probeLock", "holdLock"} => cino'[c] # 0
    /\ \/ result'[c] = result[c] /\ cpc[c] \notin {"done"}
       \/ StartPolls(c)
       \/ result'[c] \in {"ok", "err", "late"} /\ cpc'[c] \in {"release", "done"}

\* Every step of an invocation is within that frame.
LEMMA ClientFrame ==
    ASSUME TypeOK, NEW c \in Clients, Client(c)
    PROVE  ClientFrameOf(c)
<1>1. CASE RestartReads(c)
  BY <1>1, TypeOK DEF ClientFrameOf, TypeOK, RestartReads, At, Goes, Ends, storeVars, fileVars, monVars, readVars, stopVars
<1>2. CASE StartMarks(c)
  BY <1>2, TypeOK DEF ClientFrameOf, TypeOK, StartMarks, At, Goes, Reads, Ends, storeVars, fileVars, monVars, readVars, stopVars
<1>3. CASE StartSpawns(c)
  BY <1>3, TypeOK DEF ClientFrameOf, TypeOK, StartSpawns, At, Goes, Ends, storeVars, fileVars, monVars, readVars, stopVars
<1>4. CASE StartPolls(c)
  BY <1>4, TypeOK DEF ClientFrameOf, TypeOK, StartPolls, At, Goes, Ends, storeVars, fileVars, monVars, readVars, stopVars
<1>5. CASE StartTimesOut(c)
  BY <1>5, TypeOK DEF ClientFrameOf, TypeOK, StartTimesOut, At, Goes, Ends, storeVars, fileVars, monVars, readVars, stopVars
<1>6. CASE ListReads(c)
  BY <1>6, TypeOK DEF ClientFrameOf, TypeOK, ListReads, At, Goes, Ends, storeVars, fileVars, monVars, readVars, stopVars
<1>7. CASE ProbeOpens(c)
  BY <1>7, TypeOK DEF ClientFrameOf, TypeOK, ProbeOpens, At, Goes, storeVars, fileVars, monVars, readVars, stopVars
<1>8. CASE ProbeLocks(c)
  BY <1>8, TypeOK DEF ClientFrameOf, TypeOK, ProbeLocks, At, Goes, Ends, storeVars, fileVars, monVars, readVars, stopVars
<1>9. CASE ProbeUnlocks(c)
  BY <1>9, TypeOK DEF ClientFrameOf, TypeOK, ProbeUnlocks, At, Goes, storeVars, fileVars, monVars, readVars, stopVars
<1>10. CASE ListRereads(c)
  BY <1>10, TypeOK DEF ClientFrameOf, TypeOK, ListRereads, At, Goes, Reads, Ends, storeVars, fileVars, monVars, readVars, stopVars
<1>11. CASE MarkMonitorDied(c)
  BY <1>11, TypeOK DEF ClientFrameOf, TypeOK, MarkMonitorDied, At, Goes, Marked, StopReturns, Ends, storeVars, fileVars, monVars, readVars, stopVars
<1>12. CASE MarkDeletes(c)
  BY <1>12, TypeOK DEF ClientFrameOf, TypeOK, MarkDeletes, At, Goes, storeVars, fileVars, monVars, readVars, stopVars
<1>13. CASE MarkDropsDirs(c)
  BY <1>13, TypeOK DEF ClientFrameOf, TypeOK, MarkDropsDirs, At, Goes, Marked, StopReturns, Ends, storeVars, fileVars, monVars, readVars, stopVars
<1>14. CASE StopReads(c)
  BY <1>14, TypeOK DEF ClientFrameOf, TypeOK, StopReads, At, Goes, StopReturns, Ends, storeVars, fileVars, monVars, readVars, stopVars
<1>15. CASE StopSends(c)
  BY <1>15, TypeOK DEF ClientFrameOf, TypeOK, StopSends, At, Goes, StopReturns, Ends, storeVars, fileVars, monVars, readVars, stopVars
<1>16. CASE StopDials(c)
  BY <1>16, TypeOK DEF ClientFrameOf, TypeOK, StopDials, At, Goes, StopReturns, Ends, storeVars, fileVars, monVars, readVars, stopVars
<1>17. CASE StopSeesEnd(c)
  BY <1>17, TypeOK DEF ClientFrameOf, TypeOK, StopSeesEnd, At, Goes, StopReturns, Ends, storeVars, fileVars, monVars, readVars, stopVars
<1>18. CASE StopTimesOut(c)
  BY <1>18, TypeOK DEF ClientFrameOf, TypeOK, StopTimesOut, At, Goes, StopReturns, Ends, storeVars, fileVars, monVars, readVars, stopVars
<1>19. CASE StopSettles(c)
  BY <1>19, TypeOK DEF ClientFrameOf, TypeOK, StopSettles, At, Goes, Reads, StopReturns, Ends, storeVars, fileVars, monVars, readVars, stopVars
<1>20. CASE HoldOpens(c)
  BY <1>20, TypeOK, OpenTyped DEF ClientFrameOf, TypeOK, HoldOpens, At, Goes, OpenCreate, Inodes, storeVars, fileVars, monVars, readVars, stopVars
<1>21. CASE HoldLocks(c)
  BY <1>21, TypeOK DEF ClientFrameOf, TypeOK, HoldLocks, At, Goes, Ends, storeVars, fileVars, monVars, readVars, stopVars
<1>22. CASE HoldReleases(c)
  BY <1>22, TypeOK DEF ClientFrameOf, TypeOK, HoldReleases, At, Goes, storeVars, fileVars, monVars, readVars, stopVars
<1>23. CASE RemoveReads(c)
  BY <1>23, TypeOK DEF ClientFrameOf, TypeOK, RemoveReads, At, Goes, Ends, storeVars, fileVars, monVars, readVars, stopVars
<1>24. CASE RemoveKills(c)
  BY <1>24, TypeOK DEF ClientFrameOf, TypeOK, RemoveKills, At, Goes, storeVars, fileVars, monVars, readVars, stopVars
<1>25. CASE RemoveDeletes(c)
  BY <1>25, TypeOK DEF ClientFrameOf, TypeOK, RemoveDeletes, At, Goes, storeVars, fileVars, monVars, readVars, stopVars
<1>26. CASE RemoveDropsCommandDir(c)
  BY <1>26, TypeOK DEF ClientFrameOf, TypeOK, RemoveDropsCommandDir, At, Goes, storeVars, fileVars, monVars, readVars, stopVars
<1>27. CASE RemoveDropsRuntimeDir(c)
  BY <1>27, TypeOK DEF ClientFrameOf, TypeOK, RemoveDropsRuntimeDir, At, Goes, Ends, storeVars, fileVars, monVars, readVars, stopVars
<1> QED BY <1>1, <1>2, <1>3, <1>4, <1>5, <1>6, <1>7, <1>8, <1>9, <1>10, <1>11, <1>12, <1>13, <1>14, <1>15, <1>16, <1>17, <1>18, <1>19, <1>20, <1>21, <1>22, <1>23, <1>24, <1>25, <1>26, <1>27 DEF Client, StartOp, ListOp, StopOp, RemoveOp

-----------------------------------------------------------------------------
(* The inductive invariant.                                                *)

\* Only the holder gives up a lock, and only a free one is taken: no step of one
\* process takes the pid file from under a monitor that holds it.
LEMMA HoldsStep ==
    ASSUME TypeOK, HoldsItsFile, StepOrder, [Next]_vars
    PROVE  HoldsItsFile'
<1> USE ProcessAssumption DEF HoldsItsFile, Supervising, Leaving, Aborting
<1>1. ASSUME NEW m \in Monitors, Monitor(m) PROVE HoldsItsFile'
  <2>1. CASE MonNew(m)
    BY <2>1, TypeOK DEF MonNew, MonGoes, TypeOK, fileVars
  <2>2. CASE MonOpen(m)
    BY <2>2, TypeOK DEF MonOpen, MonGoes, TypeOK, fileVars, OpenCreate
  <2>3. CASE MonLock(m)
    BY <2>3, TypeOK, StepOrder DEF MonLock, MonGoes, TypeOK, fileVars, Locked, StepOrder
  <2>4. CASE MonCheck(m)
    BY <2>4, TypeOK DEF MonCheck, MonGoes, TypeOK, fileVars
  <2>5. CASE MonClaim(m)
    BY <2>5, TypeOK DEF MonClaim, MonGoes, TypeOK, fileVars
  <2>6. CASE MonAnnounce(m)
    BY <2>6, TypeOK DEF MonAnnounce, MonGoes, TypeOK, fileVars
  <2>7. CASE MonListen(m)
    BY <2>7, TypeOK DEF MonListen, MonGoes, TypeOK, fileVars
  <2>8. CASE MonAborts(m)
    BY <2>8, TypeOK DEF MonAborts, MonGoes, TypeOK, fileVars
  <2>9. CASE MonRunning(m)
    BY <2>9, TypeOK DEF MonRunning, MonGoes, TypeOK, fileVars
  <2>10. CASE MonExited(m)
    BY <2>10, TypeOK DEF MonExited, MonGoes, TypeOK, fileVars
  <2>11. CASE MonFailed(m)
    BY <2>11, TypeOK DEF MonFailed, MonGoes, TypeOK, fileVars
  <2>12. CASE MonDeletes(m)
    BY <2>12, TypeOK DEF MonDeletes, MonGoes, TypeOK, fileVars
  <2>13. CASE MonDropsDir(m)
    BY <2>13, TypeOK DEF MonDropsDir, MonGoes, TypeOK, fileVars
  <2>14. CASE MonUnbinds(m)
    BY <2>14, TypeOK DEF MonUnbinds, MonGoes, TypeOK, fileVars
  <2>15. CASE MonUnnames(m)
    BY <2>15, TypeOK DEF MonUnnames, MonGoes, TypeOK, fileVars
  <2>16. CASE MonUnlocks(m)
    BY <2>16, TypeOK DEF MonUnlocks, MonGoes, TypeOK, fileVars, LocksWithout
  <2> QED BY <1>1, <2>1, <2>2, <2>3, <2>4, <2>5, <2>6, <2>7, <2>8, <2>9, <2>10, <2>11, <2>12, <2>13, <2>14, <2>15, <2>16 DEF Monitor
<1>2. ASSUME NEW m \in Monitors, Crash(m) PROVE HoldsItsFile'
  BY <1>2, TypeOK DEF Crash, Dies, LocksWithout, TypeOK
<1>3. ASSUME NEW c \in Clients, Client(c) PROVE HoldsItsFile'
  <2>1. ClientFrameOf(c)
    BY <1>3, TypeOK, ClientFrame
  <2>2. CASE StartSpawns(c)
    BY <2>2, TypeOK DEF StartSpawns, MonGoes, TypeOK, fileVars
  <2>3. CASE RemoveKills(c)
    BY <2>3, TypeOK DEF RemoveKills, Dies, LocksWithout, TypeOK
  <2>4. CASE \E i \in {cino[c]} : lock[i] = Nobody /\ lock' = Locked(i, c) /\ UNCHANGED mpc
    BY <2>1, <2>4, TypeOK DEF ClientFrameOf, Locked, TypeOK
  <2>5. CASE lock' = LocksWithout(c) /\ UNCHANGED mpc
    BY <2>1, <2>5, TypeOK DEF ClientFrameOf, LocksWithout, TypeOK
  <2> QED BY <2>1, <2>2, <2>3, <2>4, <2>5 DEF ClientFrameOf
<1>4. ASSUME NEW c \in Clients, NEW o \in Ops, Begin(c, o) PROVE HoldsItsFile'
  BY <1>4 DEF Begin, fileVars, monVars
<1>5. CASE UNCHANGED vars
  BY <1>5 DEF vars, fileVars, monVars
<1> QED BY <1>1, <1>2, <1>3, <1>4, <1>5 DEF Next, Finished

\* A monitor writes the end of its run before it leaves, and nobody else writes a
\* row in its name except to mark a death.
LEMMA EndStep ==
    ASSUME TypeOK, EndIsRecorded, [Next]_vars
    PROVE  EndIsRecorded'
<1> USE DEF EndIsRecorded, Leaving, Terminal
<1>1. ASSUME NEW m \in Monitors, Monitor(m) PROVE EndIsRecorded'
  <2>1. CASE MonNew(m)
    BY <2>1, TypeOK, ProcessAssumption DEF MonNew, MonGoes, TypeOK, storeVars
  <2>2. CASE MonOpen(m)
    BY <2>2, TypeOK, ProcessAssumption DEF MonOpen, MonGoes, TypeOK, storeVars
  <2>3. CASE MonLock(m)
    BY <2>3, TypeOK, ProcessAssumption DEF MonLock, MonGoes, TypeOK, storeVars
  <2>4. CASE MonCheck(m)
    BY <2>4, TypeOK, ProcessAssumption DEF MonCheck, MonGoes, TypeOK, storeVars
  <2>5. CASE MonClaim(m)
    BY <2>5, TypeOK, ProcessAssumption DEF MonClaim, MonGoes, TypeOK, storeVars, Store, Updated, Row, Rows
  <2>6. CASE MonAnnounce(m)
    BY <2>6, TypeOK, ProcessAssumption DEF MonAnnounce, MonGoes, TypeOK, storeVars, Store, Updated, Row, Rows
  <2>7. CASE MonListen(m)
    BY <2>7, TypeOK, ProcessAssumption DEF MonListen, MonGoes, TypeOK, storeVars
  <2>8. CASE MonAborts(m)
    BY <2>8, TypeOK, ProcessAssumption DEF MonAborts, MonGoes, TypeOK, storeVars
  <2>9. CASE MonRunning(m)
    BY <2>9, TypeOK, ProcessAssumption DEF MonRunning, MonGoes, TypeOK, storeVars, Store, Updated, Row, Rows
  <2>10. CASE MonExited(m)
    <3>1. \A n \in Monitors \ {m} : mpc'[n] = mpc[n]
      BY <2>10, TypeOK DEF MonExited, MonGoes, TypeOK
    <3>2. CASE rec.state = "gone"
      BY <2>10, <3>2, ProcessAssumption DEF MonExited, Store, Updated
    <3>3. CASE rec.state # "gone"
      BY <2>10, <3>3 DEF MonExited, Store, Updated, Row
    <3> QED BY <3>2, <3>3
  <2>11. CASE MonFailed(m)
    <3>1. \A n \in Monitors \ {m} : mpc'[n] = mpc[n]
      BY <2>11, TypeOK DEF MonFailed, MonGoes, TypeOK
    <3>2. CASE rec.state = "gone"
      BY <2>11, <3>2, ProcessAssumption DEF MonFailed, Store, Updated
    <3>3. CASE rec.state # "gone"
      BY <2>11, <3>3 DEF MonFailed, Store, Updated, Row
    <3> QED BY <3>2, <3>3
  <2>12. CASE MonDeletes(m)
    BY <2>12, TypeOK, ProcessAssumption DEF MonDeletes, MonGoes, TypeOK, storeVars, Gone, Row
  <2>13. CASE MonDropsDir(m)
    BY <2>13, TypeOK, ProcessAssumption DEF MonDropsDir, MonGoes, TypeOK, storeVars
  <2>14. CASE MonUnbinds(m)
    BY <2>14, TypeOK, ProcessAssumption DEF MonUnbinds, MonGoes, TypeOK, storeVars
  <2>15. CASE MonUnnames(m)
    BY <2>15, TypeOK, ProcessAssumption DEF MonUnnames, MonGoes, TypeOK, storeVars
  <2>16. CASE MonUnlocks(m)
    BY <2>16, TypeOK, ProcessAssumption DEF MonUnlocks, MonGoes, TypeOK, storeVars
  <2> QED BY <1>1, <2>1, <2>2, <2>3, <2>4, <2>5, <2>6, <2>7, <2>8, <2>9, <2>10, <2>11, <2>12, <2>13, <2>14, <2>15, <2>16 DEF Monitor
<1>2. ASSUME NEW m \in Monitors, Crash(m) PROVE EndIsRecorded'
  BY <1>2, TypeOK DEF Crash, Dies, TypeOK, storeVars
<1>3. ASSUME NEW c \in Clients, Client(c) PROVE EndIsRecorded'
  <2>1. ClientFrameOf(c)
    BY <1>3, TypeOK, ClientFrame
  <2>2. \A m \in Monitors : mpc'[m] \in Leaving \cup {"left"} => mpc[m] = mpc'[m]
    BY <2>1, TypeOK DEF ClientFrameOf, StartSpawns, MonGoes, RemoveKills, Dies, TypeOK
  <2>3. CASE UNCHANGED rec
    BY <2>2, <2>3
  <2>4. CASE rec' = Gone
    BY <2>4, ProcessAssumption DEF Gone, Row
  <2>5. CASE MarkMonitorDied(c)
    BY <2>2, <2>5, TypeOK DEF MarkMonitorDied, Updated, TypeOK, Rows
  <2> QED BY <2>1, <2>3, <2>4, <2>5 DEF ClientFrameOf, StartMarks
<1>4. ASSUME NEW c \in Clients, NEW o \in Ops, Begin(c, o) PROVE EndIsRecorded'
  BY <1>4 DEF Begin, storeVars, monVars
<1>5. CASE UNCHANGED vars
  BY <1>5 DEF vars, storeVars, monVars
<1> QED BY <1>1, <1>2, <1>3, <1>4, <1>5 DEF Next, Finished

\* While a Start waits, the row moves away from its mark by a monitor's write, by
\* a marked death or by a removal, and only the first brings a run into it.
LEMMA WaitStep ==
    ASSUME TypeOK, WaitsOnItsMark, [Next]_vars
    PROVE  WaitsOnItsMark'
<1> USE DEF WaitsOnItsMark
<1>1. ASSUME NEW m \in Monitors, Monitor(m) \/ Crash(m) PROVE WaitsOnItsMark'
  <2>1. UNCHANGED <<cpc, seen, progressed>>
    BY <1>1, MonitorFrame DEF clientVars, readVars
  <2>2. CASE UNCHANGED <<rec, fresh>>
    BY <2>1, <2>2
  <2>3. CASE rec' = Gone
    BY <2>1, <2>3 DEF Gone, Row, Active
  <2>4. ASSUME NEW s \in Active \cup Terminal, NEW p \in BOOLEAN, Store(Row(s, m, p))
        PROVE  WaitsOnItsMark'
    BY <2>1, <2>4 DEF Store, Updated
  <2> QED BY <1>1, <2>2, <2>3, <2>4, MonitorFrame
<1>2. ASSUME NEW c \in Clients, Client(c) PROVE WaitsOnItsMark'
  <2>1. ClientFrameOf(c)
    BY <1>2, TypeOK, ClientFrame
  <2>2. CASE StartMarks(c)
    <3>1. rec' = rec /\ \A d \in Clients \ {c} :
            /\ fresh'[d] = fresh[d] /\ cpc'[d] = cpc[d]
            /\ seen'[d] = seen[d] /\ progressed'[d] = progressed[d]
      BY <2>2, TypeOK DEF StartMarks, Reads, Goes, Ends, TypeOK
    <3>2. seen'[c] = rec /\ ~progressed'[c]
      BY <2>2, TypeOK DEF StartMarks, Reads, TypeOK
    <3>3. cpc'[c] \in {"spawn", "await"} => rec.state \notin Active
      BY <2>2, TypeOK DEF StartMarks, Goes, Ends, TypeOK, Active, Terminal
    <3> QED BY <3>1, <3>2, <3>3
  <2>3. CASE StartSpawns(c)
    BY <2>1, <2>3, TypeOK DEF ClientFrameOf, StartSpawns, At, TypeOK, storeVars, readVars
  <2>4. CASE StartPolls(c)
    BY <2>1, <2>4, TypeOK DEF ClientFrameOf, StartPolls, At, Progress, TypeOK, storeVars, Active
  <2>5. CASE ~StartMarks(c) /\ ~StartSpawns(c) /\ ~StartPolls(c)
    <3>1. SUFFICES ASSUME NEW d \in Clients \ {c}, cpc[d] \in {"spawn", "await"}, ~fresh'[d]
                   PROVE  /\ rec'.state \notin Active
                          /\ rec'.state = "exited" =>
                               seen[d].state = "exited" /\ seen[d].pid = rec'.pid /\ ~progressed[d]
      BY <2>1, <2>5 DEF ClientFrameOf
    <3>2. fresh' = fresh
      BY <2>1, <2>5 DEF ClientFrameOf, MarkMonitorDied
    <3>3. rec' = rec \/ rec'.state \in {"gone", "failed"}
      <4>1. CASE MarkMonitorDied(c)
        BY <4>1, TypeOK DEF MarkMonitorDied, Updated, TypeOK, Rows
      <4>2. CASE rec' = Gone
        BY <4>2 DEF Gone, Row
      <4> QED BY <2>1, <2>5, <4>1, <4>2 DEF ClientFrameOf
    <3> QED BY <3>1, <3>2, <3>3 DEF Active
  <2> QED BY <2>2, <2>3, <2>4, <2>5
<1>3. ASSUME NEW c \in Clients, NEW o \in Ops, Begin(c, o) PROVE WaitsOnItsMark'
  BY <1>3, TypeOK DEF Begin, Goes, storeVars, TypeOK
<1>4. CASE UNCHANGED vars
  BY <1>4 DEF vars, storeVars, clientVars, readVars
<1> QED BY <1>1, <1>2, <1>3, <1>4 DEF Next, Finished

\* A file is opened on the way to its lock, and an operation that has a result
\* goes nowhere but to its end.
LEMMA OrderStep ==
    ASSUME TypeOK, StepOrder, [Next]_vars
    PROVE  StepOrder'
<1> USE DEF StepOrder
<1>1. ASSUME NEW m \in Monitors, Monitor(m) PROVE StepOrder'
  <2>1. UNCHANGED <<cpc, cino, result>>
    BY <1>1, MonitorFrame DEF clientVars, readVars, stopVars
  <2>2. CASE MonOpen(m)
    BY <2>1, <2>2, TypeOK, OpenTyped DEF MonOpen, MonGoes, TypeOK
  <2>3. CASE ~MonOpen(m)
    <3>1. mino' = mino /\ \A n \in Monitors : mpc'[n] = "locking" => mpc[n] = "locking"
      BY <1>1, <2>3, TypeOK DEF Monitor, MonGoes, TypeOK, MonNew, MonOpen, MonLock, MonCheck, MonClaim, MonAnnounce, MonListen, MonAborts, MonRunning, MonExited, MonFailed, MonDeletes, MonDropsDir, MonUnbinds, MonUnnames, MonUnlocks
    <3> QED BY <2>1, <3>1
  <2> QED BY <2>2, <2>3
<1>2. ASSUME NEW m \in Monitors, Crash(m) PROVE StepOrder'
  BY <1>2, TypeOK DEF Crash, Dies, TypeOK, clientVars, readVars, stopVars
<1>3. ASSUME NEW c \in Clients, Client(c) PROVE StepOrder'
  <2>1. ClientFrameOf(c)
    BY <1>3, TypeOK, ClientFrame
  <2>2. mino' = mino /\ \A n \in Monitors : mpc'[n] = "locking" => mpc[n] = "locking"
    BY <2>1, TypeOK DEF ClientFrameOf, StartSpawns, RemoveKills, MonGoes, Dies, TypeOK
  <2>3. TypeOK'
    BY TypeOK, TypeStep
  <2>4. cpc'[c] \in {"probeLock", "holdLock"} => cino'[c] \in Inodes
    BY <2>1, <2>3 DEF ClientFrameOf, TypeOK
  <2>5. result'[c] \in {"running", "exited"} => cpc'[c] \in {"release", "done"}
    <3>1. CASE StartPolls(c)
      BY <3>1, TypeOK DEF StartPolls, Ends, Goes, At, TypeOK
    <3>2. CASE result'[c] = result[c]
      <4>1. CASE cpc[c] = "release"
        BY <4>1, <1>3, TypeOK DEF Client, StartOp, ListOp, StopOp, RemoveOp, At, HoldReleases, Goes, TypeOK, RestartReads, StartMarks, StartSpawns, StartPolls, StartTimesOut, ListReads, ProbeOpens, ProbeLocks, ProbeUnlocks, ListRereads, MarkMonitorDied, MarkDeletes, MarkDropsDirs, StopReads, StopSends, StopDials, StopSeesEnd, StopTimesOut, StopSettles, HoldOpens, HoldLocks, RemoveReads, RemoveKills, RemoveDeletes, RemoveDropsCommandDir, RemoveDropsRuntimeDir
      <4>2. CASE cpc[c] = "done"
        BY <4>2, <1>3, TypeOK DEF Client, StartOp, ListOp, StopOp, RemoveOp, At, RestartReads, StartMarks, StartSpawns, StartPolls, StartTimesOut, ListReads, ProbeOpens, ProbeLocks, ProbeUnlocks, ListRereads, MarkMonitorDied, MarkDeletes, MarkDropsDirs, StopReads, StopSends, StopDials, StopSeesEnd, StopTimesOut, StopSettles, HoldOpens, HoldLocks, HoldReleases, RemoveReads, RemoveKills, RemoveDeletes, RemoveDropsCommandDir, RemoveDropsRuntimeDir
      <4> QED BY <3>2, <4>1, <4>2
    <3> QED BY <2>1, <3>1, <3>2 DEF ClientFrameOf
  <2> QED BY <2>1, <2>2, <2>4, <2>5 DEF ClientFrameOf
<1>4. ASSUME NEW c \in Clients, NEW o \in Ops, Begin(c, o) PROVE StepOrder'
  BY <1>4, TypeOK DEF Begin, At, Goes, TypeOK, monVars, stopVars
<1>5. CASE UNCHANGED vars
  BY <1>5 DEF vars, monVars, clientVars, readVars, stopVars
<1> QED BY <1>1, <1>2, <1>3, <1>4, <1>5 DEF Next, Finished

\* Who holds which lock, what a leaving monitor has left in the row and what a
\* waiting Start can see: all of it holds in every reachable state.
THEOREM SupervisionInvariant == Spec => []SupervisionInv
<1>1. Init => SupervisionInv
  BY DEF Init, SupervisionInv, HoldsItsFile, EndIsRecorded, WaitsOnItsMark, StepOrder,
         Row, Supervising, Leaving, Aborting
<1>2. TypeOK /\ SupervisionInv /\ [Next]_vars => SupervisionInv'
  BY HoldsStep, EndStep, WaitStep, OrderStep DEF SupervisionInv
<1> QED BY <1>1, <1>2, TypeCorrect, PTL DEF Spec

\* A monitor that ran its command and left has recorded the end of the run before
\* its lock was released.
THEOREM EndRecorded == Spec => []EndRecordedBeforeRelease
<1>1. SupervisionInv => EndRecordedBeforeRelease
  BY DEF SupervisionInv, EndIsRecorded, EndRecordedBeforeRelease
<1> QED BY <1>1, SupervisionInvariant, PTL

\* No pid file, removed from its name or not, ever has two monitors past init.
THEOREM OneSupervisor == Spec => []OneSupervisorPerFile
<1>1. SupervisionInv => OneSupervisorPerFile
  BY DEF SupervisionInv, HoldsItsFile, OneSupervisorPerFile
<1> QED BY <1>1, SupervisionInvariant, PTL

\* WaitForState reports a run only after a monitor has written the row since the
\* mark, whatever other invocations and monitors do to the record meanwhile.
THEOREM PollSound == Spec => []PollSeesNewRun
<1>1. Init => PollSeesNewRun
  BY DEF Init, PollSeesNewRun
<1>2. TypeOK /\ SupervisionInv /\ PollSeesNewRun /\ [Next]_vars => PollSeesNewRun'
  <2> SUFFICES ASSUME TypeOK, SupervisionInv, PollSeesNewRun, [Next]_vars
               PROVE  PollSeesNewRun'
    OBVIOUS
  <2> USE DEF PollSeesNewRun
  <2>1. ASSUME NEW m \in Monitors, Monitor(m) \/ Crash(m) PROVE PollSeesNewRun'
    BY <2>1, TypeOK, MonitorFrame DEF clientVars, stopVars, Store, TypeOK
  <2>2. ASSUME NEW c \in Clients, Client(c) PROVE PollSeesNewRun'
    <3>1. ClientFrameOf(c)
      BY <2>2, TypeOK, ClientFrame
    <3>2. CASE StartPolls(c)
      <4>1. result'[c] \in {"running", "exited"} => fresh[c]
        BY <3>2, SupervisionInv, TypeOK
        DEF StartPolls, At, Ends, Progress, SupervisionInv, WaitsOnItsMark, StepOrder, TypeOK, Active
      <4>2. fresh' = fresh
        BY <3>2 DEF StartPolls, storeVars
      <4> QED BY <3>1, <4>1, <4>2 DEF ClientFrameOf
    <3>3. CASE StartMarks(c)
      BY <3>1, <3>3, SupervisionInv, TypeOK
      DEF ClientFrameOf, StartMarks, At, Ends, SupervisionInv, StepOrder, TypeOK
    <3>4. CASE ~StartPolls(c) /\ ~StartMarks(c)
      BY <3>1, <3>4 DEF ClientFrameOf, MarkMonitorDied
    <3> QED BY <3>2, <3>3, <3>4
  <2>3. ASSUME NEW c \in Clients, NEW o \in Ops, Begin(c, o) PROVE PollSeesNewRun'
    BY <2>3 DEF Begin, storeVars, stopVars
  <2>4. CASE UNCHANGED vars
    BY <2>4 DEF vars, storeVars, clientVars, stopVars
  <2> QED BY <2>1, <2>2, <2>3, <2>4 DEF Next, Finished
<1> QED BY <1>1, <1>2, TypeCorrect, SupervisionInvariant, PTL DEF Spec

\* One monitor at a time works under a pid file, its end is on record before the
\* file is anybody else's, and a start reports no run but a new one.
THEOREM SupervisorSafe == Spec => []SupervisorSafety
<1>1. EndRecordedBeforeRelease /\ OneSupervisorPerFile /\ PollSeesNewRun => SupervisorSafety
  BY DEF SupervisorSafety
<1> QED BY <1>1, EndRecorded, OneSupervisor, PollSound, PTL

-----------------------------------------------------------------------------
(* A listing that probes a monitor.                                        *)

Unopened == {"unborn", "spawned", "opening"}
Unclaimed == Unopened \cup {"locking", "checking", "claiming"}
Named == {"locking", "checking", "deleting", "dropping", "closing", "unsock", "unname", "abortName"} \cup Supervising
Through == {"unlock", "left", "abortLock", "dead"}
Probing == {"probeOpen", "probeLock", "probeUnlock", "reread", "markDied"}
ListPcs == Probing \cup {"begin", "autoDelete", "autoDirs", "done"}

\* A monitor opens one file; the directories go once the row is gone; a row names
\* a monitor that has claimed it.
OpensOnce == \A m \in Monitors : mpc[m] \in Unopened => mino[m] = 0
RowFirst == \A c \in Clients : cpc[c] \in {"autoDirs", "cmdDir", "runDir"} => rec.state = "gone"
ClaimsFirst ==
    \A m \in Monitors : mpc[m] \in Unclaimed => rec.pid # m /\ \A c \in Clients : seen[c].pid # m
ListsInTurn == \A c \in Clients : op[c] = "list" => cpc[c] \in ListPcs

\* While nobody shares a file, it keeps its name until its monitor takes it away.
NameKept == OwnFiles /\ rec.state # "gone" => \A m \in Monitors : mpc[m] \in Named => pidFile = mino[m]

\* What a listing has found out of the monitor m it set out to probe.
Probed(c, m) ==
    /\ mpc[m] \notin Unclaimed
    /\ OwnFiles /\ rec.state # "gone" =>
          /\ cpc[c] = "probeLock" /\ mpc[m] \in Named => cino[c] = mino[m]
          /\ cpc[c] \in {"probeUnlock", "reread", "markDied"} => mpc[m] \in Through
          /\ cpc[c] = "markDied" => ~(rec.state = "exited" /\ rec.pid = m)
ProbesTrue ==
    \A c \in Clients, m \in Monitors :
        op[c] = "list" /\ owner[c] = m /\ cpc[c] \in Probing => Probed(c, m)

CleanInv == OpensOnce /\ RowFirst /\ ClaimsFirst /\ ListsInTurn /\ NameKept /\ ProbesTrue

\* A monitor's step, by what it does to its place, its file and the row.
Advances(m) ==
    /\ mpc'[m] \in Unopened => mpc[m] \in Unopened
    /\ mpc'[m] \in Named => mpc[m] \in Named
    /\ mpc'[m] \in Unclaimed => mpc[m] \in Unclaimed
RowStep(m) ==
    \/ rec' = rec
    \/ rec'.state = "gone" /\ rec'.pid = Nobody
    \/ rec.state # "gone" /\ rec'.pid = m /\ mpc[m] \in Supervising /\ mpc'[m] \notin Unclaimed
MonEffect(m) ==
    /\ UNCHANGED <<op, cpc, seen, owner, cino>>
    /\ \A n \in Monitors \ {m} : mpc'[n] = mpc[n]
    /\ \/ mpc[m] = "opening" /\ mpc'[m] = "locking" /\ mino' = [mino EXCEPT ![m] = Opened] /\ pidFile' = Opened /\ rec' = rec
       \/ mpc[m] \in {"unname", "abortName"} /\ mpc'[m] \in Through /\ pidFile' = 0 /\ mino' = mino /\ rec' = rec
       \/ Advances(m) /\ pidFile' = pidFile /\ mino' = mino /\ RowStep(m)

LEMMA MonEffects ==
    ASSUME TypeOK, EndIsRecorded, NEW m \in Monitors, Monitor(m) \/ Crash(m)
    PROVE  MonEffect(m)
<1> USE DEF clientVars, readVars, TypeOK
<1>a. rec.state = "gone" => rec.pid = Nobody
  BY DEF EndIsRecorded
<1>1. CASE MonNew(m)
  BY <1>1 DEF MonEffect, MonNew, MonGoes, Advances, RowStep, Unopened, Unclaimed, Named, Through, Supervising, storeVars, fileVars
<1>2. CASE MonOpen(m)
  BY <1>2 DEF MonEffect, MonOpen, MonGoes, OpenCreate, storeVars
<1>3. CASE MonLock(m)
  BY <1>3 DEF MonEffect, MonLock, MonGoes, Advances, RowStep, Unopened, Unclaimed, Named, Through, Supervising, storeVars, fileVars
<1>4. CASE MonCheck(m)
  BY <1>4 DEF MonEffect, MonCheck, MonGoes, Advances, RowStep, Unopened, Unclaimed, Named, Through, Supervising, storeVars, fileVars
<1>5. CASE MonClaim(m)
  <2>1. Advances(m) /\ mpc[m] \in Supervising /\ mpc'[m] \notin Unclaimed /\ \A n \in Monitors \ {m} : mpc'[n] = mpc[n]
    BY <1>5 DEF MonClaim, MonGoes, Advances, Unopened, Unclaimed, Named, Through, Supervising
  <2>2. RowStep(m)
    BY <1>a, <1>5, <2>1 DEF MonClaim, Store, Updated, Row, RowStep
  <2> QED BY <1>5, <2>1, <2>2 DEF MonEffect, MonClaim, fileVars
<1>6. CASE MonAnnounce(m)
  <2>1. Advances(m) /\ mpc[m] \in Supervising /\ mpc'[m] \notin Unclaimed /\ \A n \in Monitors \ {m} : mpc'[n] = mpc[n]
    BY <1>6 DEF MonAnnounce, MonGoes, Advances, Unopened, Unclaimed, Named, Through, Supervising
  <2>2. RowStep(m)
    BY <1>a, <1>6, <2>1 DEF MonAnnounce, Store, Updated, Row, RowStep
  <2> QED BY <1>6, <2>1, <2>2 DEF MonEffect, MonAnnounce, fileVars
<1>7. CASE MonListen(m)
  BY <1>7 DEF MonEffect, MonListen, MonGoes, Advances, RowStep, Unopened, Unclaimed, Named, Through, Supervising, storeVars, fileVars
<1>8. CASE MonAborts(m)
  BY <1>8 DEF MonEffect, MonAborts, MonGoes, Advances, RowStep, Unopened, Unclaimed, Named, Through, Supervising, storeVars, fileVars
<1>9. CASE MonRunning(m)
  <2>1. Advances(m) /\ mpc[m] \in Supervising /\ mpc'[m] \notin Unclaimed /\ \A n \in Monitors \ {m} : mpc'[n] = mpc[n]
    BY <1>9 DEF MonRunning, MonGoes, Advances, Unopened, Unclaimed, Named, Through, Supervising
  <2>2. RowStep(m)
    BY <1>a, <1>9, <2>1 DEF MonRunning, Store, Updated, Row, RowStep
  <2> QED BY <1>9, <2>1, <2>2 DEF MonEffect, MonRunning, fileVars
<1>10. CASE MonExited(m)
  <2>1. Advances(m) /\ mpc[m] \in Supervising /\ mpc'[m] \notin Unclaimed /\ \A n \in Monitors \ {m} : mpc'[n] = mpc[n]
    BY <1>10 DEF MonExited, MonGoes, Advances, Unopened, Unclaimed, Named, Through, Supervising
  <2>2. RowStep(m)
    BY <1>a, <1>10, <2>1 DEF MonExited, Store, Updated, Row, RowStep
  <2> QED BY <1>10, <2>1, <2>2 DEF MonEffect, MonExited, fileVars
<1>11. CASE MonFailed(m)
  <2>1. Advances(m) /\ mpc[m] \in Supervising /\ mpc'[m] \notin Unclaimed /\ \A n \in Monitors \ {m} : mpc'[n] = mpc[n]
    BY <1>11 DEF MonFailed, MonGoes, Advances, Unopened, Unclaimed, Named, Through, Supervising
  <2>2. RowStep(m)
    BY <1>a, <1>11, <2>1 DEF MonFailed, Store, Updated, Row, RowStep
  <2> QED BY <1>11, <2>1, <2>2 DEF MonEffect, MonFailed, fileVars
<1>12. CASE MonDeletes(m)
  BY <1>12 DEF MonEffect, MonDeletes, MonGoes, Advances, RowStep, Unopened, Unclaimed, Named, Through, Supervising, storeVars, fileVars, Gone, Row
<1>13. CASE MonDropsDir(m)
  BY <1>13 DEF MonEffect, MonDropsDir, MonGoes, Advances, RowStep, Unopened, Unclaimed, Named, Through, Supervising, storeVars, fileVars
<1>14. CASE MonUnbinds(m)
  BY <1>14 DEF MonEffect, MonUnbinds, MonGoes, Advances, RowStep, Unopened, Unclaimed, Named, Through, Supervising, storeVars, fileVars
<1>15. CASE MonUnnames(m)
  BY <1>15 DEF MonEffect, MonUnnames, MonGoes, Through, storeVars
<1>16. CASE MonUnlocks(m)
  BY <1>16 DEF MonEffect, MonUnlocks, MonGoes, Advances, RowStep, Unopened, Unclaimed, Named, Through, Supervising, storeVars, fileVars
<1>17. CASE Crash(m)
  BY <1>17 DEF MonEffect, Crash, Dies, Advances, RowStep, Unopened, Unclaimed, Named, Through, Supervising, storeVars
<1> QED BY <1>1, <1>2, <1>3, <1>4, <1>5, <1>6, <1>7, <1>8, <1>9, <1>10, <1>11, <1>12, <1>13, <1>14, <1>15, <1>16, <1>17 DEF Monitor

\* A step of a listing, by what it learns.
ListStep(c) ==
    \/ cpc'[c] \in {"done", "autoDelete", "autoDirs"}
    \/ /\ UNCHANGED <<mpc, rec>>
       /\ \/ cpc[c] = "begin" /\ cpc'[c] = "probeOpen" /\ owner'[c] = rec.pid
          \/ /\ owner'[c] = owner[c]
             /\ \/ cpc[c] = "probeOpen" /\ cpc'[c] = "reread" /\ pidFile = 0
                \/ cpc[c] = "probeOpen" /\ cpc'[c] = "probeLock" /\ cino'[c] = pidFile
                \/ cpc[c] = "probeLock" /\ cpc'[c] = "probeUnlock" /\ lock[cino[c]] = Nobody
                \/ cpc[c] = "probeUnlock" /\ cpc'[c] = "reread"
                \/ cpc[c] = "reread" /\ cpc'[c] = "markDied" /\ rec.state \in Active
ClientEffect(c) ==
    /\ UNCHANGED <<mino, op>>
    /\ \A m \in Monitors : mpc'[m] = mpc[m] \/ (mpc[m] = "unborn" /\ mpc'[m] = "spawned") \/ mpc'[m] = "dead"
    /\ \/ rec' = rec
       \/ rec'.state = "gone" /\ rec'.pid = Nobody
       \/ rec.state # "gone" /\ rec'.state = "failed" /\ rec'.pid = seen[c].pid
    /\ pidFile' = pidFile \/ pidFile = 0 \/ (cpc[c] \in {"autoDirs", "runDir"} /\ rec' = rec)
    /\ \A d \in Clients \ {c} :
          cpc'[d] = cpc[d] /\ seen'[d] = seen[d] /\ owner'[d] = owner[d] /\ cino'[d] = cino[d]
    /\ seen'[c] \in {seen[c], rec}
    /\ cpc'[c] \in {"autoDirs", "cmdDir", "runDir"} => rec'.state = "gone" \/ (cpc[c] = "cmdDir" /\ rec' = rec)
    /\ op[c] = "list" /\ cpc[c] \in ListPcs => ListStep(c)

LEMMA ClientEffects ==
    ASSUME TypeOK, EndIsRecorded, NEW c \in Clients, Client(c)
    PROVE  ClientEffect(c)
<1> USE DEF TypeOK, ClientEffect, ListStep, At, Goes, ListPcs, Probing
<1>a. rec.state = "gone" => rec.pid = Nobody
  BY DEF EndIsRecorded
<1>1. CASE RestartReads(c)
  BY <1>a, <1>1 DEF RestartReads, storeVars, fileVars, monVars, readVars, stopVars, Ends
<1>2. CASE StartMarks(c)
  BY <1>a, <1>2 DEF StartMarks, storeVars, fileVars, monVars, readVars, stopVars, Ends, Reads
<1>3. CASE StartSpawns(c)
  BY <1>a, <1>3 DEF StartSpawns, storeVars, fileVars, monVars, readVars, stopVars, Ends, MonGoes
<1>4. CASE StartPolls(c)
  BY <1>a, <1>4 DEF StartPolls, storeVars, fileVars, monVars, readVars, stopVars, Ends
<1>5. CASE StartTimesOut(c)
  BY <1>a, <1>5 DEF StartTimesOut, storeVars, fileVars, monVars, readVars, stopVars, Ends
<1>6. CASE ListReads(c)
  BY <1>a, <1>6 DEF ListReads, storeVars, fileVars, monVars, readVars, stopVars, Ends
<1>7. CASE ProbeOpens(c)
  BY <1>a, <1>7 DEF ProbeOpens, storeVars, fileVars, monVars, readVars, stopVars
<1>8. CASE ProbeLocks(c)
  BY <1>a, <1>8 DEF ProbeLocks, storeVars, fileVars, monVars, readVars, stopVars, Ends
<1>9. CASE ProbeUnlocks(c)
  BY <1>a, <1>9 DEF ProbeUnlocks, storeVars, fileVars, monVars, readVars, stopVars
<1>10. CASE ListRereads(c)
  BY <1>a, <1>10 DEF ListRereads, storeVars, fileVars, monVars, readVars, stopVars, Ends, Reads
<1>11. CASE MarkMonitorDied(c)
  BY <1>a, <1>11 DEF MarkMonitorDied, storeVars, fileVars, monVars, readVars, stopVars, Marked, StopReturns, Ends, Updated, Rows
<1>12. CASE MarkDeletes(c)
  BY <1>a, <1>12 DEF MarkDeletes, storeVars, fileVars, monVars, readVars, stopVars, Gone, Row
<1>13. CASE MarkDropsDirs(c)
  BY <1>a, <1>13 DEF MarkDropsDirs, storeVars, fileVars, monVars, readVars, stopVars, Marked, StopReturns, Ends
<1>14. CASE StopReads(c)
  BY <1>a, <1>14 DEF StopReads, storeVars, fileVars, monVars, readVars, stopVars, Ends, StopReturns
<1>15. CASE StopSends(c)
  BY <1>a, <1>15 DEF StopSends, storeVars, fileVars, monVars, readVars, stopVars, Ends, StopReturns
<1>16. CASE StopDials(c)
  BY <1>a, <1>16 DEF StopDials, storeVars, fileVars, monVars, readVars, stopVars, Ends, StopReturns
<1>17. CASE StopSeesEnd(c)
  BY <1>a, <1>17 DEF StopSeesEnd, storeVars, fileVars, monVars, readVars, stopVars, Ends, StopReturns
<1>18. CASE StopTimesOut(c)
  BY <1>a, <1>18 DEF StopTimesOut, storeVars, fileVars, monVars, readVars, stopVars, Ends, StopReturns
<1>19. CASE StopSettles(c)
  BY <1>a, <1>19 DEF StopSettles, storeVars, fileVars, monVars, readVars, stopVars, Ends, StopReturns, Reads
<1>20. CASE HoldOpens(c)
  BY <1>a, <1>20 DEF HoldOpens, storeVars, fileVars, monVars, readVars, stopVars, OpenCreate, Opened
<1>21. CASE HoldLocks(c)
  BY <1>a, <1>21 DEF HoldLocks, storeVars, fileVars, monVars, readVars, stopVars, Ends
<1>22. CASE HoldReleases(c)
  BY <1>a, <1>22 DEF HoldReleases, storeVars, fileVars, monVars, readVars, stopVars
<1>23. CASE RemoveReads(c)
  BY <1>a, <1>23 DEF RemoveReads, storeVars, fileVars, monVars, readVars, stopVars, Ends
<1>24. CASE RemoveKills(c)
  BY <1>a, <1>24 DEF RemoveKills, storeVars, fileVars, monVars, readVars, stopVars, Dies
<1>25. CASE RemoveDeletes(c)
  BY <1>a, <1>25 DEF RemoveDeletes, storeVars, fileVars, monVars, readVars, stopVars, Gone, Row
<1>26. CASE RemoveDropsCommandDir(c)
  BY <1>a, <1>26 DEF RemoveDropsCommandDir, storeVars, fileVars, monVars, readVars, stopVars
<1>27. CASE RemoveDropsRuntimeDir(c)
  BY <1>a, <1>27 DEF RemoveDropsRuntimeDir, storeVars, fileVars, monVars, readVars, stopVars, Ends
<1> QED BY <1>1, <1>2, <1>3, <1>4, <1>5, <1>6, <1>7, <1>8, <1>9, <1>10, <1>11, <1>12, <1>13, <1>14, <1>15, <1>16, <1>17, <1>18, <1>19, <1>20, <1>21, <1>22, <1>23, <1>24, <1>25, <1>26, <1>27 DEF Client, StartOp, ListOp, StopOp, RemoveOp

LEMMA CleanMonitorStep ==
    ASSUME TypeOK, SupervisionInv, CleanInv, NEW m \in Monitors, Monitor(m) \/ Crash(m), TypeOK'
    PROVE  CleanInv'
<1> USE ProcessAssumption
<1>a. /\ MonEffect(m) /\ UNCHANGED <<op, cpc, seen, owner, cino>> /\ \A n \in Monitors \ {m} : mpc'[n] = mpc[n]
      /\ mpc[m] \in MonSteps /\ mpc'[m] \in MonSteps
  BY MonEffects DEF SupervisionInv, MonEffect, TypeOK
<1>b. ASSUME NEW n \in Monitors, mpc[n] \in Named PROVE mino[n] \in Inodes /\ mino[n] # 0
  <2>1. mino[n] \in Inodes
    BY <1>b DEF SupervisionInv, HoldsItsFile, StepOrder, Named, Supervising, Leaving, Aborting
  <2> QED BY <2>1, InodeAssumption DEF Inodes
<1>c. rec.state = "gone" => rec'.state = "gone"
  BY <1>a DEF MonEffect, RowStep
<1>1. CASE mpc[m] = "opening" /\ mpc'[m] = "locking" /\ mino' = [mino EXCEPT ![m] = Opened] /\ pidFile' = Opened /\ rec' = rec
  <2>1. mino[m] = 0 /\ mino'[m] = Opened /\ \A n \in Monitors \ {m} : mino'[n] = mino[n]
    BY <1>1 DEF CleanInv, OpensOnce, Unopened, TypeOK
  <2>2. OwnFiles' => OwnFiles
    BY <2>1 DEF OwnFiles
  <2>3. OpensOnce' /\ RowFirst' /\ ListsInTurn' /\ ClaimsFirst'
    BY <1>1, <1>a, <2>1 DEF CleanInv, OpensOnce, RowFirst, ListsInTurn, ClaimsFirst, Unopened, Unclaimed
  <2>4. NameKept'
    BY <1>1, <1>a, <1>b, <2>1, <2>2 DEF CleanInv, NameKept, Opened
  <2>5. ProbesTrue'
    BY <1>1, <1>a, <2>1, <2>2 DEF CleanInv, ProbesTrue, Probed, Unopened, Unclaimed, Named, Through
  <2> QED BY <2>3, <2>4, <2>5 DEF CleanInv
<1>2. CASE mpc[m] \in {"unname", "abortName"} /\ mpc'[m] \in Through /\ pidFile' = 0 /\ mino' = mino /\ rec' = rec
  <2>1. OwnFiles' <=> OwnFiles
    BY <1>2 DEF OwnFiles
  <2>2. OpensOnce' /\ RowFirst' /\ ListsInTurn' /\ ClaimsFirst'
    BY <1>2, <1>a DEF CleanInv, OpensOnce, RowFirst, ListsInTurn, ClaimsFirst, Unopened, Unclaimed, Through
  <2>3. NameKept'
    <3> SUFFICES ASSUME OwnFiles, rec.state # "gone", NEW n \in Monitors, mpc'[n] \in Named PROVE FALSE
      BY <1>2, <2>1 DEF NameKept
    <3>1. n # m /\ mpc[n] \in Named /\ mpc[m] \in Named
      BY <1>2, <1>a DEF Named, Through, Supervising
    <3>2. mino[n] = mino[m] /\ mino[n] # 0
      BY <1>b, <3>1 DEF CleanInv, NameKept
    <3> QED BY <3>1, <3>2 DEF OwnFiles
  <2>4. ProbesTrue'
    BY <1>2, <1>a, <2>1 DEF CleanInv, ProbesTrue, Probed, Unopened, Unclaimed, Named, Through, Supervising
  <2> QED BY <2>2, <2>3, <2>4 DEF CleanInv
<1>3. CASE Advances(m) /\ pidFile' = pidFile /\ mino' = mino /\ RowStep(m)
  <2>1. OwnFiles' <=> OwnFiles
    BY <1>3 DEF OwnFiles
  <2>2. \A n \in Monitors : /\ mpc'[n] \in Unopened => mpc[n] \in Unopened
                            /\ mpc'[n] \in Named => mpc[n] \in Named
                            /\ mpc'[n] \in Unclaimed => mpc[n] \in Unclaimed
    BY <1>3, <1>a DEF Advances
  <2>3. OpensOnce' /\ RowFirst' /\ ListsInTurn'
    BY <1>3, <1>a, <1>c, <2>2 DEF CleanInv, OpensOnce, RowFirst, ListsInTurn
  <2>4. ClaimsFirst'
    BY <1>3, <1>a, <2>2 DEF CleanInv, ClaimsFirst, RowStep
  <2>5. NameKept'
    BY <1>3, <1>c, <2>1, <2>2 DEF CleanInv, NameKept
  <2>6. ASSUME NEW n \in Monitors, mpc[n] \in Through PROVE mpc'[n] \in Through
    <3>1. mpc[n] \notin Named \cup Unopened /\ mpc'[n] \in MonSteps
      BY <1>a, <2>6 DEF Through, Named, Unopened, Supervising, TypeOK
    <3>2. mpc'[n] \notin Named \cup Unopened
      BY <2>2, <3>1
    <3> QED BY <3>1, <3>2 DEF MonSteps, ComingUp, Leaving, Aborting, Through, Named, Unopened, Supervising
  <2>7. ProbesTrue'
    <3> SUFFICES ASSUME NEW c \in Clients, NEW n \in Monitors, op[c] = "list", owner[c] = n, cpc[c] \in Probing
                 PROVE  Probed(c, n)'
      BY <1>a DEF ProbesTrue
    <3>1. Probed(c, n)
      BY DEF CleanInv, ProbesTrue
    <3>2. mpc'[n] \notin Unclaimed
      BY <2>2, <3>1 DEF Probed
    <3>3. ASSUME OwnFiles, rec'.state # "gone", cpc[c] = "markDied" PROVE ~(rec'.state = "exited" /\ rec'.pid = n)
      <4>1. mpc[n] \in Through /\ ~(rec.state = "exited" /\ rec.pid = n)
        BY <1>c, <3>1, <3>3 DEF Probed
      <4>2. mpc[n] \notin Supervising
        BY <4>1 DEF Through, Supervising
      <4> QED BY <1>3, <3>3, <4>1, <4>2 DEF RowStep
    <3> QED BY <1>3, <1>a, <1>c, <2>1, <2>2, <2>6, <3>1, <3>2, <3>3 DEF Probed
  <2> QED BY <2>3, <2>4, <2>5, <2>7 DEF CleanInv
<1> QED BY <1>1, <1>2, <1>3, <1>a DEF MonEffect

LEMMA CleanClientStep ==
    ASSUME TypeOK, SupervisionInv, CleanInv, NEW c \in Clients, Client(c), TypeOK'
    PROVE  CleanInv'
<1> USE ProcessAssumption
<1>a. ClientEffect(c) /\ UNCHANGED <<mino, op>>
  BY ClientEffects DEF SupervisionInv, ClientEffect
<1>b. ASSUME NEW n \in Monitors, mpc[n] \in Named PROVE mino[n] \in Inodes /\ mino[n] # 0
  <2>1. mino[n] \in Inodes
    BY <1>b DEF SupervisionInv, HoldsItsFile, StepOrder, Named, Supervising, Leaving, Aborting
  <2> QED BY <2>1, InodeAssumption DEF Inodes
<1>c. rec.state = "gone" => rec'.state = "gone"
  BY <1>a DEF ClientEffect
<1>1. OwnFiles' <=> OwnFiles
  BY <1>a DEF OwnFiles
<1>2. \A n \in Monitors : /\ mpc'[n] \in Unopened => mpc[n] \in Unopened
                          /\ mpc'[n] \in Named => mpc[n] \in Named
                          /\ mpc'[n] \in Unclaimed => mpc[n] \in Unclaimed
                          /\ mpc[n] \in Through => mpc'[n] \in Through
  BY <1>a DEF ClientEffect, Unopened, Named, Unclaimed, Through, Supervising
<1>3. OpensOnce'
  BY <1>a, <1>2 DEF CleanInv, OpensOnce
<1>4. RowFirst'
  BY <1>a, <1>c DEF CleanInv, RowFirst, ClientEffect
<1>5. ClaimsFirst'
  <2> SUFFICES ASSUME NEW n \in Monitors, mpc'[n] \in Unclaimed, NEW d \in Clients
               PROVE  rec'.pid # n /\ seen'[d].pid # n
    BY DEF ClaimsFirst
  <2>1. rec.pid # n /\ seen[c].pid # n /\ seen[d].pid # n
    BY <1>2 DEF CleanInv, ClaimsFirst
  <2> QED BY <1>a, <2>1 DEF ClientEffect
<1>6. ListsInTurn'
  <2> SUFFICES ASSUME NEW d \in Clients, op[d] = "list" PROVE cpc'[d] \in ListPcs
    BY <1>a DEF ListsInTurn
  <2>1. cpc[d] \in ListPcs
    BY DEF CleanInv, ListsInTurn
  <2>2. CASE d # c
    BY <1>a, <2>1, <2>2 DEF ClientEffect
  <2>3. CASE d = c
    BY <1>a, <2>1, <2>3 DEF ClientEffect, ListStep, ListPcs, Probing
  <2> QED BY <2>2, <2>3
<1>7. NameKept'
  <2> SUFFICES ASSUME OwnFiles, rec'.state # "gone", NEW n \in Monitors, mpc'[n] \in Named PROVE pidFile' = mino[n]
    BY <1>1, <1>a DEF NameKept
  <2>1. pidFile = mino[n] /\ mino[n] # 0
    BY <1>2, <1>b, <1>c DEF CleanInv, NameKept
  <2>2. cpc[c] \notin {"autoDirs", "runDir"} \/ rec' # rec
    BY DEF CleanInv, RowFirst
  <2> QED BY <1>a, <2>1, <2>2 DEF ClientEffect
<1>8. ProbesTrue'
  <2> SUFFICES ASSUME NEW d \in Clients, NEW n \in Monitors, op[d] = "list", owner'[d] = n, cpc'[d] \in Probing
               PROVE  Probed(d, n)'
    BY <1>a DEF ProbesTrue
  <2>1. CASE d # c
    <3>1. cpc'[d] = cpc[d] /\ owner[d] = n /\ cino'[d] = cino[d]
      BY <1>a, <2>1 DEF ClientEffect
    <3>2. Probed(d, n)
      BY <3>1 DEF CleanInv, ProbesTrue
    <3>3. rec'.state = "exited" /\ rec'.pid = n => rec.state = "exited" /\ rec.pid = n
      BY <1>a DEF ClientEffect
    <3> QED BY <1>1, <1>2, <1>a, <1>c, <3>1, <3>2, <3>3 DEF Probed
  <2>2. CASE d = c
    <3>1. ListStep(c) /\ cpc'[c] \notin {"done", "autoDelete", "autoDirs"}
      BY <1>a, <2>2 DEF CleanInv, ListsInTurn, ClientEffect, Probing
    <3>2. UNCHANGED <<mpc, rec>>
      BY <3>1 DEF ListStep
    <3>3. CASE cpc[c] = "begin" /\ cpc'[c] = "probeOpen" /\ owner'[c] = rec.pid
      BY <2>2, <3>2, <3>3 DEF Probed, CleanInv, ClaimsFirst
    <3>4. CASE /\ owner'[c] = owner[c]
               /\ \/ cpc[c] = "probeOpen" /\ cpc'[c] = "reread" /\ pidFile = 0
                  \/ cpc[c] = "probeOpen" /\ cpc'[c] = "probeLock" /\ cino'[c] = pidFile
                  \/ cpc[c] = "probeLock" /\ cpc'[c] = "probeUnlock" /\ lock[cino[c]] = Nobody
                  \/ cpc[c] = "probeUnlock" /\ cpc'[c] = "reread"
                  \/ cpc[c] = "reread" /\ cpc'[c] = "markDied" /\ rec.state \in Active
      <4>1. Probed(c, n) /\ owner[c] = n
        BY <2>2, <3>4 DEF CleanInv, ProbesTrue, Probing
      <4>2. mpc[n] \notin Unclaimed /\ mpc[n] \in Named \cup Through
        BY <4>1 DEF Probed, TypeOK, MonSteps, Named, Through, Unclaimed, Unopened, ComingUp, Supervising, Leaving, Aborting
      <4>3. ASSUME OwnFiles, rec.state # "gone", mpc[n] \in Named PROVE pidFile = mino[n] /\ pidFile # 0 /\ lock[mino[n]] = n
        <5>1. pidFile = mino[n] /\ pidFile # 0
          BY <1>b, <4>3 DEF CleanInv, NameKept
        <5>2. lock[mino[n]] = n
          BY <4>2, <4>3 DEF SupervisionInv, HoldsItsFile, Named, Unclaimed, Supervising, Leaving, Aborting
        <5> QED BY <5>1, <5>2
      <4>4. ASSUME OwnFiles, rec.state # "gone"
            PROVE  /\ cpc'[c] = "probeLock" /\ mpc[n] \in Named => cino'[c] = mino[n]
                   /\ cpc'[c] \in {"probeUnlock", "reread", "markDied"} => mpc[n] \in Through
                   /\ cpc'[c] = "markDied" => rec.state # "exited"
        BY <3>4, <4>1, <4>2, <4>3, <4>4 DEF Probed, Active
      <4> QED BY <1>1, <1>a, <2>2, <3>2, <4>2, <4>4 DEF Probed
    <3> QED BY <3>1, <3>3, <3>4 DEF ListStep
  <2> QED BY <2>1, <2>2
<1> QED BY <1>3, <1>4, <1>5, <1>6, <1>7, <1>8 DEF CleanInv

\* The argument behind the re-read of cleanStaleEntry: whatever a probe finds, the
\* monitor it is about has let its lock go, or somebody shared its file.
THEOREM CleanInvariant == Spec => []CleanInv
<1>1. Init => CleanInv
  BY ProcessAssumption DEF Init, CleanInv, OpensOnce, RowFirst, ClaimsFirst, ListsInTurn, NameKept, ProbesTrue, Row, Gone,
     Unopened, Unclaimed, Named, Probing, Supervising
<1>2. TypeOK /\ TypeOK' /\ SupervisionInv /\ CleanInv /\ [Next]_vars => CleanInv'
  <2> SUFFICES ASSUME TypeOK, TypeOK', SupervisionInv, CleanInv, [Next]_vars PROVE CleanInv'
    OBVIOUS
  <2>1. ASSUME NEW m \in Monitors, Monitor(m) \/ Crash(m) PROVE CleanInv'
    BY <2>1, CleanMonitorStep
  <2>2. ASSUME NEW c \in Clients, Client(c) PROVE CleanInv'
    BY <2>2, CleanClientStep
  <2>3. ASSUME NEW c \in Clients, NEW o \in Ops, Begin(c, o) PROVE CleanInv'
    <3>1. UNCHANGED <<rec, pidFile, mpc, mino, seen, owner, cino>>
      BY <2>3 DEF Begin, storeVars, fileVars, monVars
    <3>2. /\ op'[c] = o /\ (o = "list" => cpc'[c] = "begin") /\ cpc'[c] \notin Probing \cup {"autoDirs", "cmdDir", "runDir"}
          /\ \A d \in Clients \ {c} : op'[d] = op[d] /\ cpc'[d] = cpc[d]
      BY <2>3 DEF Begin, Goes, TypeOK, Probing
    <3>3. OwnFiles' <=> OwnFiles
      BY <3>1 DEF OwnFiles
    <3>4. OpensOnce' /\ RowFirst' /\ ClaimsFirst' /\ NameKept'
      BY <3>1, <3>2, <3>3 DEF CleanInv, OpensOnce, RowFirst, ClaimsFirst, NameKept
    <3>5. ListsInTurn'
      BY <3>2 DEF CleanInv, ListsInTurn, ListPcs
    <3>6. ProbesTrue'
      BY <3>1, <3>2, <3>3 DEF CleanInv, ProbesTrue, Probed
    <3> QED BY <3>4, <3>5, <3>6 DEF CleanInv
  <2>4. CASE UNCHANGED vars
    BY <2>4 DEF vars, storeVars, fileVars, monVars, clientVars, readVars, CleanInv, OpensOnce, RowFirst, ClaimsFirst,
       ListsInTurn, NameKept, ProbesTrue, Probed, OwnFiles
  <2> QED BY <2>1, <2>2, <2>3, <2>4 DEF Next, Finished
<1> QED BY <1>1, <1>2, TypeCorrect, SupervisionInvariant, PTL DEF Spec

\* A listing marks no death on top of the clean end of the monitor it probed, as
\* long as no two monitors opened one pid file (CleanStaleEntries).
THEOREM CleanEnd == Spec => []CleanEndKept
<1>1. CleanInv => CleanEndKept
  BY DEF CleanInv, ProbesTrue, Probed, Probing, CleanEndKept, At
<1> QED BY <1>1, CleanInvariant, PTL
=============================================================================
