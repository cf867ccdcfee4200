----------------------------- MODULE Supervision -----------------------------
(***************************************************************************)
(* One command record, the monitor processes started for it and the cmdman *)
(* invocations that work on it.  They share nothing but the record's row   *)
(* in the store, the files of its directories and the monitor's socket, so *)
(* every read of one of them is stale by the next step.                    *)
(*                                                                         *)
(* A client is one invocation and performs one operation.  What a monitor  *)
(* does while its command runs is the subject of MonitorRun: here a run is *)
(* the time between two writes of the row.                                 *)
(***************************************************************************)
EXTENDS Naturals

CONSTANTS
    Clients,        \* invocations
    Monitors,       \* monitor processes; an identity is a pid, never reused
    Nobody,         \* no process
    Ops,            \* the operations the clients may perform
    AutoRemove,     \* the command was created to remove itself
    MaxInodes       \* bound on the pid files created under the one name

AllOps == {"start", "restart", "stop", "list", "rm", "rmf", "replace", "hold"}

ASSUME ProcessAssumption ==
    /\ Nobody \notin Clients \cup Monitors
    /\ Clients \cap Monitors = {}
ASSUME OpsAssumption == Ops \subseteq AllOps
ASSUME AutoRemoveAssumption == AutoRemove \in BOOLEAN
ASSUME InodeAssumption == MaxInodes \in Nat

VARIABLES
    rec,        \* the record's row: state, monitor pid, socket path set, death marked
    cfgDir,     \* the command directory, with the config a monitor reads, is there
    pidFile,    \* the inode the pid file's name stands for, 0 when there is none
    inodes,     \* the number of pid files created so far
    lock,       \* for each inode, the process whose flock is on it
    sock,       \* the monitor bound to the socket's name
    mpc, mino,  \* a monitor's next step, and the inode of the pid file it opened
    op, cpc,    \* a client's operation and its next step
    seen,       \* the row as the client last read it
    owner,      \* the monitor pid a listing or a removal read first
    cino,       \* the inode a client opened
    late,       \* a stop's first wait has run out
    died,       \* what a stop reports of its monitor
    progressed, \* WaitForState has seen the row change
    result,     \* what the operation reported
    fresh       \* history: a monitor wrote the row since the client marked it

storeVars == <<rec, cfgDir, fresh>>
fileVars == <<pidFile, inodes, lock, sock>>
monVars == <<mpc, mino>>
readVars == <<op, seen, owner, cino, progressed>>
stopVars == <<late, died, result>>
clientVars == <<readVars, stopVars, cpc>>
vars == <<storeVars, fileVars, monVars, clientVars>>

Inodes == 1 .. MaxInodes
Active == {"starting", "running"}
Terminal == {"exited", "failed"}
Rows == [state : {"created", "gone"} \cup Active \cup Terminal,
         pid : Monitors \cup {Nobody}, sock : BOOLEAN, died : BOOLEAN]
Row(state, pid, path) == [state |-> state, pid |-> pid, sock |-> path, died |-> FALSE]
Gone == Row("gone", Nobody, FALSE)

ComingUp == {"spawned", "opening", "locking", "checking"}
Supervising == {"claiming", "announcing", "listening", "starting", "running"}
Leaving == {"deleting", "dropping", "closing", "unsock", "unname", "unlock"}
Aborting == {"abortName", "abortLock"}
MonSteps == {"unborn", "dead", "left"} \cup ComingUp \cup Supervising \cup Leaving \cup Aborting
ClientSteps == {"idle", "begin", "mark", "spawn", "await", "probeOpen", "probeLock",
    "probeUnlock", "reread", "markDied", "autoDelete", "autoDirs", "stop", "send", "dial",
    "wait", "settle", "holdOpen", "holdLock", "rm", "kill", "delete", "cmdDir", "runDir",
    "release", "done"}
Results == {"none", "ok", "err", "running", "exited", "gone", "late"}

\* Every variable stays in its domain: the rows UpdateCommandState writes, the
\* inodes flock is called on, the steps of a monitor and of a client.
TypeOK ==
    /\ rec \in Rows /\ cfgDir \in BOOLEAN
    /\ pidFile \in Inodes \cup {0} /\ inodes \in 0 .. MaxInodes
    /\ lock \in [Inodes -> Monitors \cup Clients \cup {Nobody}]
    /\ sock \in Monitors \cup {Nobody}
    /\ mpc \in [Monitors -> MonSteps] /\ mino \in [Monitors -> Inodes \cup {0}]
    /\ op \in [Clients -> Ops \cup {"none"}] /\ cpc \in [Clients -> ClientSteps]
    /\ seen \in [Clients -> Rows] /\ owner \in [Clients -> Monitors \cup {Nobody}]
    /\ cino \in [Clients -> Inodes \cup {0}]
    /\ late \in [Clients -> BOOLEAN] /\ died \in [Clients -> BOOLEAN]
    /\ progressed \in [Clients -> BOOLEAN] /\ fresh \in [Clients -> BOOLEAN]
    /\ result \in [Clients -> Results]

Init ==
    /\ rec = Row("created", Nobody, FALSE) /\ cfgDir = TRUE
    /\ pidFile = 0 /\ inodes = 0 /\ sock = Nobody
    /\ lock = [i \in Inodes |-> Nobody]
    /\ mpc = [m \in Monitors |-> "unborn"] /\ mino = [m \in Monitors |-> 0]
    /\ op = [c \in Clients |-> "none"] /\ cpc = [c \in Clients |-> "idle"]
    /\ seen = [c \in Clients |-> Gone] /\ owner = [c \in Clients |-> Nobody]
    /\ cino = [c \in Clients |-> 0]
    /\ late = [c \in Clients |-> FALSE] /\ died = [c \in Clients |-> FALSE]
    /\ progressed = [c \in Clients |-> FALSE] /\ fresh = [c \in Clients |-> FALSE]
    /\ result = [c \in Clients |-> "none"]

-----------------------------------------------------------------------------
(* The row, the files and the processes.                                   *)

\* An update of a missing row succeeds without touching anything.
Updated(row) == IF rec.state = "gone" THEN rec ELSE row

\* A monitor's own write.
Store(row) ==
    /\ rec' = Updated(row)
    /\ fresh' = IF rec.state = "gone" THEN fresh ELSE [c \in Clients |-> TRUE]
    /\ UNCHANGED cfgDir

\* Opening the pid file with O_CREATE: the file the name stands for, or a new one.
Opened == IF pidFile = 0 THEN inodes + 1 ELSE pidFile
OpenCreate ==
    /\ Opened \in Inodes
    /\ pidFile' = Opened
    /\ inodes' = IF pidFile = 0 THEN inodes + 1 ELSE inodes
    /\ UNCHANGED <<lock, sock>>

Locked(i, p) == [lock EXCEPT ![i] = p]
\* The kernel drops the locks of a process that ends.
LocksWithout(p) == [i \in Inodes |-> IF lock[i] = p THEN Nobody ELSE lock[i]]

Alive(m) == mpc[m] \notin {"unborn", "dead", "left"}
\* The listener is closed by GracefulStop, once the loop has returned.
Serving(m) == mpc[m] \in {"starting", "running", "deleting", "dropping", "closing"}
Reachable == sock # Nobody /\ Serving(sock)

-----------------------------------------------------------------------------
(* A monitor, from its start to its exit.                                  *)

MonGoes(m, from, to) == mpc[m] = from /\ mpc' = [mpc EXCEPT ![m] = to]

\* newMonitor: the config is read from the command directory.
MonNew(m) ==
    /\ MonGoes(m, "spawned", IF cfgDir THEN "opening" ELSE "dead")
    /\ UNCHANGED <<storeVars, fileVars, mino, clientVars>>

MonOpen(m) ==
    /\ MonGoes(m, "opening", "locking")
    /\ OpenCreate
    /\ mino' = [mino EXCEPT ![m] = Opened]
    /\ UNCHANGED <<storeVars, clientVars>>

\* Mutant of MonLock: the answer of TryLockExclusive is not looked at.
MonLockUnchecked(m) ==
    /\ MonGoes(m, "locking", "checking")
    /\ lock' = Locked(mino[m], m)
    /\ UNCHANGED <<storeVars, pidFile, inodes, sock, mino, clientVars>>

\* A lock that is busy is another monitor's as far as init can tell: it exits.
MonLock(m) ==
    /\ MonGoes(m, "locking", IF lock[mino[m]] = Nobody THEN "checking" ELSE "dead")
    /\ lock' = IF lock[mino[m]] = Nobody THEN Locked(mino[m], m) ELSE lock
    /\ UNCHANGED <<storeVars, pidFile, inodes, sock, mino, clientVars>>

\* Behind the lock: a record removed on the way up is not run.
MonCheck(m) ==
    /\ MonGoes(m, "checking", IF rec.state = "gone" THEN "abortName" ELSE "claiming")
    /\ UNCHANGED <<storeVars, fileVars, mino, clientVars>>

\* Mutant of MonClaim: the pid is left at its zero value.
MonClaimNoPid(m) ==
    /\ MonGoes(m, "claiming", "announcing")
    /\ Store(Row("starting", 0, FALSE))
    /\ UNCHANGED <<fileVars, mino, clientVars>>

\* The first of the two starting writes, before the socket's path is known.
MonClaim(m) ==
    /\ MonGoes(m, "claiming", "announcing")
    /\ Store(Row("starting", m, FALSE))
    /\ UNCHANGED <<fileVars, mino, clientVars>>

MonAnnounce(m) ==
    /\ MonGoes(m, "announcing", "listening")
    /\ Store(Row("starting", m, TRUE))
    /\ UNCHANGED <<fileVars, mino, clientVars>>

\* listen removes whatever has the socket's name before it binds it.
MonListen(m) ==
    /\ MonGoes(m, "listening", "starting")
    /\ sock' = m
    /\ UNCHANGED <<storeVars, pidFile, inodes, lock, mino, clientVars>>

\* A failure of init after the lock, or of listen: the clean-ups so far run, and
\* the row stays as it is.
MonAborts(m) ==
    /\ \E from \in {"claiming", "announcing", "listening"} : MonGoes(m, from, "abortName")
    /\ UNCHANGED <<storeVars, fileVars, mino, clientVars>>

\* setRunning, once for every run of the loop.
MonRunning(m) ==
    /\ \E from \in {"starting", "running"} : MonGoes(m, from, "running")
    /\ Store(Row("running", m, TRUE))
    /\ UNCHANGED <<fileVars, mino, clientVars>>

\* setExited.  A loop that ran to its end removes the record of a command that
\* asked for it, one that a shutdown cut short does not.
MonExited(m) ==
    /\ \E from \in {"starting", "running"}, to \in {"closing", "deleting"} :
          /\ to = "deleting" => AutoRemove /\ from = "running"
          /\ MonGoes(m, from, to)
    /\ Store(Row("exited", m, TRUE))
    /\ UNCHANGED <<fileVars, mino, clientVars>>

\* setFailed: the config or the run's set-up fails.
MonFailed(m) ==
    /\ \E from \in {"starting", "running"} : MonGoes(m, from, "closing")
    /\ Store(Row("failed", m, TRUE))
    /\ UNCHANGED <<fileVars, mino, clientVars>>

\* maybeAutoRemove: the rows, then the command directory.
MonDeletes(m) ==
    /\ MonGoes(m, "deleting", "dropping")
    /\ rec' = Gone
    /\ UNCHANGED <<cfgDir, fresh, fileVars, mino, clientVars>>

MonDropsDir(m) ==
    /\ MonGoes(m, "dropping", "closing")
    /\ cfgDir' = FALSE
    /\ UNCHANGED <<rec, fresh, fileVars, mino, clientVars>>

\* GracefulStop closes the listener, which unlinks the socket's name; Close
\* unlinks it once more.  Both go by the name, whoever is bound to it.
MonUnbinds(m) ==
    /\ MonGoes(m, "closing", "unsock") \/ MonGoes(m, "unsock", "unname")
    /\ sock' = Nobody
    /\ UNCHANGED <<storeVars, pidFile, inodes, lock, mino, clientVars>>

\* Mutant of MonUnnames: the file is closed, and its lock gone, ahead of its turn.
MonUnnamesUnlocked(m) ==
    /\ MonGoes(m, "unname", "unlock") \/ MonGoes(m, "abortName", "abortLock")
    /\ pidFile' = 0
    /\ lock' = LocksWithout(m)
    /\ UNCHANGED <<storeVars, inodes, sock, mino, clientVars>>

\* The pid file's name goes while the lock is held.
MonUnnames(m) ==
    /\ MonGoes(m, "unname", "unlock") \/ MonGoes(m, "abortName", "abortLock")
    /\ pidFile' = 0
    /\ UNCHANGED <<storeVars, inodes, lock, sock, mino, clientVars>>

MonUnlocks(m) ==
    /\ MonGoes(m, "unlock", "left") \/ MonGoes(m, "abortLock", "dead")
    /\ lock' = LocksWithout(m)
    /\ UNCHANGED <<storeVars, pidFile, inodes, sock, mino, clientVars>>

\* A process that ends on the spot: the kernel has its locks back, the names stay.
Dies(m) ==
    /\ Alive(m)
    /\ mpc' = [mpc EXCEPT ![m] = "dead"]
    /\ lock' = LocksWithout(m)

Crash(m) ==
    /\ Dies(m)
    /\ UNCHANGED <<storeVars, pidFile, inodes, sock, mino, clientVars>>

-----------------------------------------------------------------------------
(* Operations of the clients.                                              *)

At(c, step) == cpc[c] = step
Goes(c, to) == cpc' = [cpc EXCEPT ![c] = to]
Reads(c) == seen' = [seen EXCEPT ![c] = rec]

\* The deferred release of HoldPIDLock runs however the removal ends.
Ends(c, r) ==
    /\ Goes(c, IF op[c] = "hold" /\ cino[c] # 0 /\ lock[cino[c]] = c THEN "release" ELSE "done")
    /\ result' = [result EXCEPT ![c] = r]

Begin(c, o) ==
    /\ At(c, "idle")
    /\ op' = [op EXCEPT ![c] = o]
    /\ Goes(c, CASE o = "start" -> "mark"
                 [] o = "stop" -> "stop"
                 [] o = "hold" -> "holdOpen"
                 [] o \in {"rm", "rmf", "replace"} -> "rm"
                 [] OTHER -> "begin")
    /\ UNCHANGED <<storeVars, fileVars, monVars, seen, owner, cino, progressed, stopVars>>

\* Restart stops a command that is up before it starts it.
RestartReads(c) ==
    /\ At(c, "begin") /\ op[c] = "restart"
    /\ \/ rec.state = "gone" /\ Ends(c, "err")
       \/ rec.state \in Active /\ Goes(c, "stop") /\ UNCHANGED result
       \/ rec.state \notin Active \cup {"gone"} /\ Goes(c, "mark") /\ UNCHANGED result
    /\ UNCHANGED <<storeVars, fileVars, monVars, readVars, late, died>>

\* Start reads the record's StateMark and refuses a command that is up.
StartMarks(c) ==
    /\ At(c, "mark")
    /\ Reads(c)
    /\ fresh' = [fresh EXCEPT ![c] = FALSE]
    /\ progressed' = [progressed EXCEPT ![c] = FALSE]
    /\ \/ rec.state \in {"created"} \cup Terminal /\ Goes(c, "spawn") /\ UNCHANGED result
       \/ rec.state \in {"gone"} \cup Active /\ Ends(c, "err")
    /\ UNCHANGED <<rec, cfgDir, fileVars, monVars, op, owner, cino, late, died>>

StartSpawns(c) ==
    /\ At(c, "spawn")
    /\ \/ \E m \in Monitors : MonGoes(m, "unborn", "spawned") /\ Goes(c, "await") /\ UNCHANGED result
       \/ Ends(c, "err") /\ UNCHANGED mpc
    /\ UNCHANGED <<storeVars, fileVars, mino, readVars, late, died>>

\* One poll of WaitForState, which tells the run it waits for from a leftover by
\* what has changed since the mark.
Progress(c) == progressed[c] \/ rec.state # seen[c].state \/ rec.pid # seen[c].pid
StartPolls(c) ==
    /\ At(c, "await")
    /\ progressed' = [progressed EXCEPT ![c] = Progress(c)]
    /\ \/ rec.state = "gone" /\ Ends(c, "gone")
       \/ rec.state = "running" /\ Ends(c, "running")
       \/ rec.state = "failed" /\ Progress(c) /\ Ends(c, "err")
       \/ rec.state = "exited" /\ Progress(c) /\ Ends(c, "exited")
       \/ /\ rec.state \in {"created", "starting"} \/ (rec.state \in Terminal /\ ~Progress(c))
          /\ UNCHANGED <<cpc, result>>
    /\ UNCHANGED <<storeVars, fileVars, monVars, op, seen, owner, cino, late, died>>

\* The polls are used up.  Start takes a final exited for a run that ended.
StartTimesOut(c) ==
    /\ At(c, "await")
    /\ Ends(c, IF rec.state = "exited" THEN "late" ELSE "err")
    /\ UNCHANGED <<storeVars, fileVars, monVars, readVars, late, died>>

-----------------------------------------------------------------------------
(* CleanStaleEntries, part of every listing.                               *)

ListReads(c) ==
    /\ At(c, "begin") /\ op[c] = "list"
    /\ owner' = [owner EXCEPT ![c] = rec.pid]
    /\ \/ rec.state \in Active /\ Goes(c, "probeOpen") /\ UNCHANGED result
       \/ rec.state \notin Active /\ Ends(c, "ok")
    /\ UNCHANGED <<storeVars, fileVars, monVars, op, seen, cino, progressed, late, died>>

\* Mutant of ProbeOpens: a pid file that is not there counts as no evidence.
ProbeOpensOrSkips(c) ==
    /\ At(c, "probeOpen")
    /\ \/ pidFile = 0 /\ Ends(c, "ok")
       \/ pidFile # 0 /\ Goes(c, "probeLock") /\ UNCHANGED result
    /\ cino' = [cino EXCEPT ![c] = pidFile]
    /\ UNCHANGED <<storeVars, fileVars, monVars, op, seen, owner, progressed, late, died>>

\* isStaleMonitor: no pid file is a monitor that left.
ProbeOpens(c) ==
    /\ At(c, "probeOpen")
    /\ Goes(c, IF pidFile = 0 THEN "reread" ELSE "probeLock")
    /\ cino' = [cino EXCEPT ![c] = pidFile]
    /\ UNCHANGED <<storeVars, fileVars, monVars, op, seen, owner, progressed, stopVars>>

ProbeLocks(c) ==
    /\ At(c, "probeLock")
    /\ \/ /\ lock[cino[c]] = Nobody
          /\ lock' = Locked(cino[c], c)
          /\ Goes(c, "probeUnlock") /\ UNCHANGED result
       \/ /\ lock[cino[c]] # Nobody
          /\ Ends(c, "ok") /\ UNCHANGED lock
    /\ UNCHANGED <<storeVars, pidFile, inodes, sock, monVars, readVars, late, died>>

ProbeUnlocks(c) ==
    /\ At(c, "probeUnlock")
    /\ lock' = LocksWithout(c)
    /\ Goes(c, "reread")
    /\ UNCHANGED <<storeVars, pidFile, inodes, sock, monVars, readVars, stopVars>>

\* Mutant of ListRereads: the state read before the probe is trusted.
ListTrustsFirstRead(c) ==
    /\ At(c, "reread")
    /\ Reads(c)
    /\ Goes(c, "markDied")
    /\ UNCHANGED <<storeVars, fileVars, monVars, op, owner, cino, progressed, stopVars>>

\* The row is read again after the probe.
ListRereads(c) ==
    /\ At(c, "reread")
    /\ Reads(c)
    /\ \/ rec.state \in Active /\ Goes(c, "markDied") /\ UNCHANGED result
       \/ rec.state \notin Active /\ Ends(c, "ok")
    /\ UNCHANGED <<storeVars, fileVars, monVars, op, owner, cino, progressed, late, died>>

-----------------------------------------------------------------------------
(* Stop, and what a caller does with its answer.                           *)

\* unreachable: the monitor died short of recording the end of the run.
StopReturns(c, unreachable, failed) ==
    /\ died' = [died EXCEPT ![c] = unreachable]
    /\ \/ op[c] = "stop" /\ Ends(c, IF failed THEN "err" ELSE "ok")
       \/ op[c] = "restart" /\ failed /\ Ends(c, "err")
       \/ op[c] = "restart" /\ ~failed /\ Goes(c, "mark") /\ UNCHANGED result
       \/ /\ op[c] \in {"rmf", "hold"}
          /\ Goes(c, IF unreachable \/ failed THEN "kill" ELSE "delete")
          /\ UNCHANGED result

StopReads(c) ==
    /\ At(c, "stop")
    /\ \/ rec.state \in Terminal \cup {"gone"} /\ StopReturns(c, FALSE, FALSE)
       \/ rec.state \notin Terminal \cup {"gone"} /\ Goes(c, "send") /\ UNCHANGED <<died, result>>
    /\ UNCHANGED <<storeVars, fileVars, monVars, readVars, late>>

\* sendStop reads the socket's path from the row.  The second send, SIGKILL after
\* the wait has run out, takes a removed record for a stop that worked.
StopSends(c) ==
    /\ At(c, "send")
    /\ \/ rec.state = "gone" /\ StopReturns(c, FALSE, ~late[c])
       \/ rec.state # "gone" /\ ~rec.sock /\ StopReturns(c, FALSE, TRUE)
       \/ rec.state # "gone" /\ rec.sock /\ Goes(c, "dial") /\ UNCHANGED <<died, result>>
    /\ UNCHANGED <<storeVars, fileVars, monVars, readVars, late>>

\* The call: it is answered, fails on its way, or finds nobody listening.
StopDials(c) ==
    /\ At(c, "dial")
    /\ \/ Reachable /\ Goes(c, "wait") /\ UNCHANGED <<died, result>>
       \/ Reachable /\ StopReturns(c, FALSE, TRUE)
       \/ ~Reachable /\ Goes(c, "settle") /\ UNCHANGED <<died, result>>
    /\ UNCHANGED <<storeVars, fileVars, monVars, readVars, late>>

StopSeesEnd(c) ==
    /\ At(c, "wait")
    /\ rec.state \in Terminal \cup {"gone"}
    /\ StopReturns(c, FALSE, FALSE)
    /\ UNCHANGED <<storeVars, fileVars, monVars, readVars, late>>

\* waitForStopped runs out: SIGKILL and a second wait, then an error.
StopTimesOut(c) ==
    /\ At(c, "wait")
    /\ \/ ~late[c] /\ late' = [late EXCEPT ![c] = TRUE] /\ Goes(c, "send") /\ UNCHANGED <<died, result>>
       \/ late[c] /\ StopReturns(c, FALSE, TRUE) /\ UNCHANGED late
    /\ UNCHANGED <<storeVars, fileVars, monVars, readVars>>

\* settleUnreachableMonitor: the state read again decides what silence means.
StopSettles(c) ==
    /\ At(c, "settle")
    /\ Reads(c)
    /\ \/ rec.died /\ StopReturns(c, TRUE, late[c])
       \/ ~rec.died /\ rec.state \in Terminal \cup {"gone"} /\ StopReturns(c, FALSE, FALSE)
       \/ /\ ~rec.died /\ rec.state \notin Terminal \cup {"gone"}
          /\ Goes(c, "markDied") /\ UNCHANGED <<died, result>>
    /\ UNCHANGED <<storeVars, fileVars, monVars, op, owner, cino, progressed, late>>

-----------------------------------------------------------------------------
(* MarkMonitorDied, shared by the listing and the stop.                    *)

\* What the caller of MarkMonitorDied does next.
Marked(c) ==
    \/ op[c] = "list" /\ Ends(c, "ok") /\ UNCHANGED died
    \/ op[c] # "list" /\ StopReturns(c, TRUE, late[c])

\* The death is recorded on top of the row the caller read.
MarkMonitorDied(c) ==
    /\ At(c, "markDied")
    /\ rec' = Updated([seen[c] EXCEPT !.state = "failed", !.died = TRUE])
    /\ \/ AutoRemove /\ Goes(c, "autoDelete") /\ UNCHANGED <<died, result>>
       \/ ~AutoRemove /\ Marked(c)
    /\ UNCHANGED <<cfgDir, fresh, fileVars, monVars, readVars, late>>

MarkDeletes(c) ==
    /\ At(c, "autoDelete")
    /\ rec' = Gone
    /\ Goes(c, "autoDirs")
    /\ UNCHANGED <<cfgDir, fresh, fileVars, monVars, readVars, stopVars>>

\* Removing the runtime directory takes the pid file's and the socket's names.
MarkDropsDirs(c) ==
    /\ At(c, "autoDirs")
    /\ cfgDir' = FALSE /\ pidFile' = 0 /\ sock' = Nobody
    /\ Marked(c)
    /\ UNCHANGED <<rec, fresh, inodes, lock, monVars, readVars, late>>

-----------------------------------------------------------------------------
(* Remove, replace, and the removal that holds the pid file's lock.        *)

HoldOpens(c) ==
    /\ At(c, "holdOpen")
    /\ OpenCreate
    /\ cino' = [cino EXCEPT ![c] = Opened]
    /\ Goes(c, "holdLock")
    /\ UNCHANGED <<storeVars, monVars, op, seen, owner, progressed, stopVars>>

\* A busy lock is a monitor's: the record stays.
HoldLocks(c) ==
    /\ At(c, "holdLock")
    /\ \/ /\ lock[cino[c]] = Nobody
          /\ lock' = Locked(cino[c], c)
          /\ Goes(c, "rm") /\ UNCHANGED result
       \/ /\ lock[cino[c]] # Nobody
          /\ Ends(c, "ok") /\ UNCHANGED lock
    /\ UNCHANGED <<storeVars, pidFile, inodes, sock, monVars, readVars, late, died>>

HoldReleases(c) ==
    /\ At(c, "release")
    /\ lock' = LocksWithout(c)
    /\ Goes(c, "done")
    /\ UNCHANGED <<storeVars, pidFile, inodes, sock, monVars, readVars, stopVars>>

\* rmOne and replaceOrInsertCommand read the state.  A removal with force stops a
\* command that is up, the others refuse it; a replace of nothing just inserts.
RemoveReads(c) ==
    /\ At(c, "rm")
    /\ owner' = [owner EXCEPT ![c] = rec.pid]
    /\ \/ rec.state = "gone" /\ Ends(c, IF op[c] = "replace" THEN "ok" ELSE "err")
       \/ rec.state \in Active /\ op[c] \in {"rm", "replace"} /\ Ends(c, "err")
       \/ rec.state \in Active /\ op[c] \in {"rmf", "hold"} /\ Goes(c, "stop") /\ UNCHANGED result
       \/ rec.state \notin Active \cup {"gone"} /\ Goes(c, "delete") /\ UNCHANGED result
    /\ UNCHANGED <<storeVars, fileVars, monVars, op, seen, cino, progressed, late, died>>

\* stopForRemoval kills the monitor that the row named when the removal began.
RemoveKills(c) ==
    /\ At(c, "kill")
    /\ Goes(c, "delete")
    /\ \/ owner[c] \in Monitors /\ Dies(owner[c])
       \/ (owner[c] \in Monitors => ~Alive(owner[c])) /\ UNCHANGED <<mpc, lock>>
    /\ UNCHANGED <<storeVars, pidFile, inodes, sock, mino, readVars, stopVars>>

RemoveDeletes(c) ==
    /\ At(c, "delete")
    /\ rec' = Gone
    /\ Goes(c, "cmdDir")
    /\ UNCHANGED <<cfgDir, fresh, fileVars, monVars, readVars, stopVars>>

RemoveDropsCommandDir(c) ==
    /\ At(c, "cmdDir")
    /\ cfgDir' = FALSE
    /\ Goes(c, "runDir")
    /\ UNCHANGED <<rec, fresh, fileVars, monVars, readVars, stopVars>>

RemoveDropsRuntimeDir(c) ==
    /\ At(c, "runDir")
    /\ pidFile' = 0 /\ sock' = Nobody
    /\ Ends(c, "ok")
    /\ UNCHANGED <<storeVars, inodes, lock, monVars, readVars, late, died>>

-----------------------------------------------------------------------------
(* The system.                                                             *)

Monitor(m) ==
    \/ MonNew(m) \/ MonOpen(m) \/ MonLock(m) \/ MonCheck(m)
    \/ MonClaim(m) \/ MonAnnounce(m) \/ MonListen(m) \/ MonAborts(m)
    \/ MonRunning(m) \/ MonExited(m) \/ MonFailed(m)
    \/ MonDeletes(m) \/ MonDropsDir(m)
    \/ MonUnbinds(m) \/ MonUnnames(m) \/ MonUnlocks(m)

StartOp(c) == RestartReads(c) \/ StartMarks(c) \/ StartSpawns(c) \/ StartPolls(c) \/ StartTimesOut(c)

ListOp(c) ==
    \/ ListReads(c) \/ ProbeOpens(c) \/ ProbeLocks(c) \/ ProbeUnlocks(c) \/ ListRereads(c)
    \/ MarkMonitorDied(c) \/ MarkDeletes(c) \/ MarkDropsDirs(c)

StopOp(c) ==
    \/ StopReads(c) \/ StopSends(c) \/ StopDials(c)
    \/ StopSeesEnd(c) \/ StopTimesOut(c) \/ StopSettles(c)

RemoveOp(c) ==
    \/ HoldOpens(c) \/ HoldLocks(c) \/ HoldReleases(c)
    \/ RemoveReads(c) \/ RemoveKills(c) \/ RemoveDeletes(c)
    \/ RemoveDropsCommandDir(c) \/ RemoveDropsRuntimeDir(c)

Client(c) == StartOp(c) \/ ListOp(c) \/ StopOp(c) \/ RemoveOp(c)

\* Every invocation has returned and every monitor spawned is gone.
Finished ==
    /\ \A c \in Clients : At(c, "done")
    /\ \A m \in Monitors : ~Alive(m)
    /\ UNCHANGED vars

Next ==
    \/ \E m \in Monitors : Monitor(m) \/ Crash(m)
    \/ \E c \in Clients : Client(c) \/ \E o \in Ops : Begin(c, o)
    \/ Finished

Spec == Init /\ [][Next]_vars

\* An invocation that has begun keeps running.  Monitors need no fairness here:
\* the property below asks for nothing while one is alive.
FairSpec == Spec /\ \A c \in Clients : WF_vars(Client(c))

-----------------------------------------------------------------------------
(* What holds.                                                             *)

\* The ground the re-read of cleanStaleEntry stands on: a monitor that ran its
\* command and left of its own accord recorded the end of the run before its lock
\* went, so a row it wrote last never says that the command is up.
EndRecordedBeforeRelease ==
    \A m \in Monitors : mpc[m] = "left" /\ rec.pid = m => rec.state \in Terminal

\* The pid lock as a dedupe guard: two monitors past init never work under the
\* same pid file, whoever probes, holds or removes it meanwhile.
OneSupervisorPerFile ==
    \A m, n \in Monitors :
        mpc[m] \in Supervising /\ mpc[n] \in Supervising /\ mino[m] = mino[n] => m = n

\* WaitForState reports a run, running or ended, only when a monitor has written
\* the row since the mark: a leftover state is never taken for the new run's.
PollSeesNewRun ==
    \A c \in Clients : result[c] \in {"running", "exited"} => fresh[c]

\* No pid file was ever opened by two monitors.
OwnFiles == \A m, n \in Monitors : mino[m] = mino[n] => m = n \/ mino[m] = 0

\* What the re-read is for: a listing never comes to mark a death on top of a
\* clean end recorded by the very monitor it set out to probe, as long as no two
\* monitors opened the same pid file.  (One that opened a file another was about
\* to leave locks it once its name is gone, takes away the next file's name on its
\* way out, and then a probe misses that file's owner.)
CleanEndKept ==
    OwnFiles =>
        \A c \in Clients, m \in Monitors :
            At(c, "markDied") /\ op[c] = "list" /\ owner[c] = m
                => ~(rec.state = "exited" /\ rec.pid = m)

\* One monitor at a time works under a pid file, its end is on record before the
\* file is anybody else's, and a start reports no run but a new one.
SupervisorSafety == EndRecordedBeforeRelease /\ OneSupervisorPerFile /\ PollSeesNewRun

\* A listing that begins when a command's monitor is dead leads to a row that no
\* longer says the command is up, whatever other listings probe meanwhile.
DeadRunSettled ==
    \A c \in Clients :
        (op[c] = "list" /\ At(c, "begin") /\ \A m \in Monitors : ~Alive(m))
            ~> (rec.state \notin Active \/ \E m \in Monitors : Alive(m))

\* A monitor past TryLockExclusive holds the lock of the file it opened until its
\* clean-up has removed the file's name.
HoldsItsFile ==
    \A m \in Monitors :
        mpc[m] \in {"checking"} \cup Supervising \cup Leaving \cup Aborting
            => mino[m] \in Inodes /\ lock[mino[m]] = m

\* What a monitor that has recorded its end wrote last says so, and a record that
\* is gone names no monitor.
EndIsRecorded ==
    /\ rec.state = "gone" => rec.pid = Nobody
    /\ \A m \in Monitors :
          mpc[m] \in Leaving \cup {"left"} /\ rec.pid = m => rec.state \in Terminal

\* Until a monitor writes the row, a Start that waits sees the state it marked, a
\* death or a removal, and an exited state is the one it marked.
WaitsOnItsMark ==
    \A c \in Clients :
        cpc[c] \in {"spawn", "await"} /\ ~fresh[c] =>
            /\ rec.state \notin Active
            /\ rec.state = "exited" =>
                  seen[c].state = "exited" /\ seen[c].pid = rec.pid /\ ~progressed[c]

\* A file is opened before it is locked, and a result ends its operation.
StepOrder ==
    /\ \A m \in Monitors : mpc[m] = "locking" => mino[m] \in Inodes
    /\ \A c \in Clients : cpc[c] \in {"probeLock", "holdLock"} => cino[c] \in Inodes
    /\ \A c \in Clients : result[c] \in {"running", "exited"} => cpc[c] \in {"release", "done"}

\* The inductive invariant behind the properties above: who holds which lock, what
\* a monitor on its way out has left in the row, and what a waiting Start can see.
SupervisionInv == HoldsItsFile /\ EndIsRecorded /\ WaitsOnItsMark /\ StepOrder
=============================================================================
