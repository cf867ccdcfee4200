---------------------------- MODULE DetachedJob ----------------------------
(***************************************************************************)
(* The two operations of the CLI that run in a cmdman command of their own *)
(* so that they outlive the pane they were typed in: the compose down job  *)
(* of the TUI ("down": one kept record per project, launches serialised by *)
(* a lock file) and the worker of a mux verb ("muxop": an auto-removed     *)
(* record whose name keeps two operations off one window).                 *)
(*                                                                         *)
(* Everything here is about one name.  A listing settles the record of a   *)
(* monitor that died in one step; Supervision has the steps of it.         *)
(***************************************************************************)
EXTENDS Integers, FiniteSets

CONSTANTS
    Procs,          \* the invocations
    Watched,        \* those FollowEnds is checked for: they are all alike
    Kinds,          \* the operations
    Nobody,
    MaxIds,         \* bound: records ever created under the name
    MaxTicks,       \* bound: seconds that pass; a mux record is fresh for one
    MaxFaults       \* bound: monitors killed, invocations killed or failing half way

ASSUME DetachedJobAssumption ==
    /\ Kinds \subseteq {"down", "muxop"} /\ Watched \subseteq Procs
    /\ Nobody \notin Procs /\ "mon" \notin Procs \cup {Nobody}
    /\ \A n \in {MaxIds, MaxTicks, MaxFaults} : n \in Nat

VARIABLES
    kind,
    rec,        \* the record that has the name
    ids,        \* ids handed out
    mon,        \* the monitor of each id
    pidLock,    \* who holds the PID lock of each id
    jobLock,    \* who holds the job's lock file
    events,     \* exit events: <<id, how it ended>>
    ended,      \* how the process of each id ended, while its monitor saw it
    orphans,    \* the ids whose process works on after its monitor was killed
    tick,
    proc,       \* the invocations
    faults,
    slow,       \* whether a monitor came up after the wait for it was over, or
                \* was not running by the time its record was taken for a leftover
    never       \* the ids a probe took for records that never ran

cmdVars == <<rec, ids, mon, pidLock, events, ended>>
vars == <<kind, orphans, cmdVars, jobLock, tick, proc, faults, slow, never>>

Ids == 1 .. MaxIds
NoRec == [id |-> 0, state |-> "none", made |-> 0, started |-> -1]
Active == {"starting", "running"}
Terminal == {"exited", "failed"}
Fresh == [pc |-> "idle", id |-> 0, seen |-> 0, req |-> 0, got |-> "none"]

Init ==
    /\ kind \in Kinds
    /\ rec = NoRec /\ ids = 0 /\ events = {} /\ tick = 0
    /\ mon = [i \in Ids |-> "none"] /\ pidLock = [i \in Ids |-> Nobody]
    /\ ended = [i \in Ids |-> "none"] /\ jobLock = Nobody
    /\ proc = [p \in Procs |-> Fresh] /\ faults = 0 /\ slow = FALSE /\ never = {} /\ orphans = {}
-----------------------------------------------------------------------------
(* The monitor of record i                                                 *)

Release(o) == [i \in Ids |-> IF pidLock[i] = o THEN Nobody ELSE pidLock[i]]
MonTo(i, s) == mon' = [mon EXCEPT ![i] = s]
Others == <<kind, orphans, ids, jobLock, tick, proc, faults, never>>
Awaited(i) == \E p \in Procs : proc[p].pc = "await" /\ proc[p].id = i

MonLocks(i) ==
    /\ mon[i] = "spawned"
    /\ IF pidLock[i] = Nobody THEN MonTo(i, "locked") /\ pidLock' = [pidLock EXCEPT ![i] = "mon"]
       ELSE MonTo(i, "left") /\ UNCHANGED pidLock
    /\ slow' = (slow \/ ~Awaited(i))
    /\ UNCHANGED <<Others, rec, events, ended>>

\* A record that is gone is not run.
MonClaims(i) ==
    /\ mon[i] = "locked"
    /\ IF rec.id # i THEN MonTo(i, "left") /\ pidLock' = [pidLock EXCEPT ![i] = Nobody] /\ UNCHANGED rec
       ELSE MonTo(i, "starting") /\ rec' = [rec EXCEPT !.state = "starting"] /\ UNCHANGED pidLock
    /\ UNCHANGED <<Others, events, ended, slow>>

Recorded(i, state) == rec' = IF rec.id = i THEN [rec EXCEPT !.state = state] ELSE rec

MonRuns(i) ==
    /\ mon[i] = "starting" /\ MonTo(i, "running")
    /\ rec' = IF rec.id = i THEN [rec EXCEPT !.state = "running", !.started = tick] ELSE rec
    /\ UNCHANGED <<Others, pidLock, events, ended, slow>>

MonEnds(i, code) ==
    /\ mon[i] \in {"starting", "running"} /\ (code = "failed" \/ mon[i] = "running")
    /\ MonTo(i, "over") /\ ended' = [ended EXCEPT ![i] = code]
    /\ events' = events \cup {<<i, code>>}
    /\ UNCHANGED <<Others, rec, pidLock, slow>>
MonRecords(i) ==
    /\ mon[i] = "over" /\ MonTo(i, IF kind = "muxop" /\ ended[i] # "failed" THEN "removing" ELSE "leaving")
    /\ Recorded(i, ended[i])
    /\ UNCHANGED <<Others, pidLock, events, ended, slow>>
MonRemoves(i) ==
    /\ mon[i] = "removing" /\ MonTo(i, "leaving")
    /\ rec' = IF rec.id = i THEN NoRec ELSE rec
    /\ UNCHANGED <<Others, pidLock, events, ended, slow>>
MonLeaves(i) ==
    /\ mon[i] = "leaving" /\ MonTo(i, "left") /\ pidLock' = [pidLock EXCEPT ![i] = Nobody]
    /\ UNCHANGED <<Others, rec, events, ended, slow>>

\* Nothing ties the process to its monitor: it works on, unless the monitor had not
\* come to start it, until it is done or loses its output.
MonKilled(i) ==
    /\ mon[i] \notin {"none", "left", "dead"} /\ faults < MaxFaults
    /\ faults' = faults + 1 /\ MonTo(i, "dead")
    /\ pidLock' = [pidLock EXCEPT ![i] = IF @ = "mon" THEN Nobody ELSE @]
    /\ \/ mon[i] \in {"starting", "running"} /\ orphans' = orphans \cup {i}
       \/ mon[i] # "running" /\ UNCHANGED orphans
    /\ UNCHANGED <<kind, rec, ids, events, ended, jobLock, tick, proc, slow, never>>
OrphanEnds(i) ==
    /\ i \in orphans /\ orphans' = orphans \ {i}
    /\ UNCHANGED <<kind, cmdVars, jobLock, tick, proc, faults, slow, never>>
-----------------------------------------------------------------------------
(* The store, as an invocation uses it                                     *)

At(p, s) == proc[p].pc = s
Goes(p, s) == proc' = [proc EXCEPT ![p].pc = s]
MonVars == <<mon, pidLock, events, ended>>
Rest == <<kind, orphans, tick, faults, slow, never>>

\* A listing: the record of a monitor that died is settled; a record whose state
\* row was never written is not seen.
Settled ==
    IF rec.state \in Active /\ pidLock[rec.id] = Nobody
    THEN IF kind = "muxop" THEN NoRec ELSE [rec EXCEPT !.state = "failed"]
    ELSE rec
Listed == IF Settled.state = "half" THEN NoRec ELSE Settled

\* insertCommand: the config row has the name at once, the state row follows.
\* In between the config file may fail to be written.
CreateAnyway(p, next, conflict) ==
    /\ ids < MaxIds /\ ids' = ids + 1
    /\ rec' = [NoRec EXCEPT !.id = ids + 1, !.state = "half", !.made = tick]
    /\ proc' = [proc EXCEPT ![p].pc = next, ![p].id = ids + 1]
CreateConfig(p, next, conflict) ==
    IF rec.id # 0 THEN Goes(p, conflict) /\ UNCHANGED <<rec, ids>>
    ELSE /\ ids < MaxIds /\ ids' = ids + 1
         /\ rec' = [NoRec EXCEPT !.id = ids + 1, !.state = "half", !.made = tick]
         /\ proc' = [proc EXCEPT ![p].pc = next, ![p].id = ids + 1]
CreateState(p) ==
    /\ At(p, "insert")
    /\ \/ Recorded(proc[p].id, "created") /\ Goes(p, "start") /\ UNCHANGED faults
       \/ /\ faults < MaxFaults /\ faults' = faults + 1 /\ UNCHANGED rec
          /\ proc' = [proc EXCEPT ![p] = Fresh]
    /\ jobLock' = IF faults' # faults /\ jobLock = p THEN Nobody ELSE jobLock
    /\ UNCHANGED <<kind, orphans, ids, MonVars, tick, slow, never>>

\* Service.Start
StartSpawns(p) ==
    /\ At(p, "start")
    /\ Goes(p, "await") /\ MonTo(proc[p].id, "spawned")
    /\ UNCHANGED <<Rest, rec, ids, pidLock, events, ended, jobLock>>
\* A removed record, and a run that is already over, end the wait like a running one.
Up(p) == rec.id # proc[p].id \/ rec.state \in {"running", "exited"}
StartReturns(p) ==
    /\ At(p, "await")
    /\ \/ Up(p) /\ Goes(p, IF kind = "down" THEN "reread" ELSE "follow")
       \/ rec.id = proc[p].id /\ rec.state = "failed" /\ Goes(p, "cleanup")
    /\ UNCHANGED <<Rest, cmdVars, jobLock>>
StartTimesOut(p) ==
    /\ At(p, "await") /\ ~Up(p) /\ rec.state # "failed"
    /\ Goes(p, "cleanup")
    /\ UNCHANGED <<Rest, cmdVars, jobLock>>

Dies(p) ==
    /\ proc[p].pc \in {"look", "hold", "remove", "create", "await", "cleanup", "cleanupRemove", "probeHold", "probeRelease"}
    /\ faults < MaxFaults /\ faults' = faults + 1
    /\ proc' = [proc EXCEPT ![p] = Fresh]
    /\ jobLock' = IF jobLock = p THEN Nobody ELSE jobLock
    /\ pidLock' = Release(p)
    /\ UNCHANGED <<kind, orphans, rec, ids, mon, events, ended, tick, slow, never>>

\* Time passes; nobody is still waiting for a monitor when a second record of
\* the name could be taken for a leftover.
Tick ==
    /\ tick < MaxTicks /\ tick' = tick + 1
    /\ \A p \in Procs : kind = "muxop" => proc[p].pc \notin {"insert", "start", "await", "cleanup"}
    /\ slow' = (slow \/ (kind = "muxop" /\ \E i \in Ids : mon[i] \in {"spawned", "locked", "starting"}))
    /\ UNCHANGED <<kind, orphans, cmdVars, jobLock, proc, faults, never>>
-----------------------------------------------------------------------------
(* LaunchComposeDownJob                                                    *)

Request(p) ==
    /\ At(p, "idle") /\ kind = "down"
    /\ proc' = [proc EXCEPT ![p] = [Fresh EXCEPT !.pc = "lock", !.req = tick]]
    /\ UNCHANGED <<Rest, cmdVars, jobLock>>

\* lockComposeJob polls; a cancelled launch gives up.
TakeLock(p) ==
    /\ At(p, "lock")
    /\ \/ jobLock = Nobody /\ jobLock' = p /\ Goes(p, "look")
       \/ jobLock # Nobody /\ proc' = [proc EXCEPT ![p] = Fresh] /\ UNCHANGED jobLock
    /\ UNCHANGED <<Rest, cmdVars>>

Answers(p, i) ==
    /\ proc' = [proc EXCEPT ![p] = [Fresh EXCEPT !.pc = "follow", !.id = i]]
    /\ jobLock' = Nobody
Fails(p) == proc' = [proc EXCEPT ![p] = Fresh] /\ jobLock' = IF jobLock = p THEN Nobody ELSE jobLock

\* composeDownJobRanSince, at the resolution of the stamps.
AnyRun(r, since) == TRUE
RanSince(r, since) == (IF r.started >= 0 THEN r.started ELSE r.made) >= since

LookUp(p) ==
    /\ At(p, "look") /\ rec' = Settled
    /\ LET r == Listed IN
       \/ r.id = 0 /\ Goes(p, "create") /\ UNCHANGED jobLock
       \/ r.state \in Active /\ Answers(p, r.id)
       \/ r.state \in Terminal /\ RanSince(r, proc[p].req) /\ Answers(p, r.id)
       \/ /\ r.state = "created" \/ (r.state \in Terminal /\ ~RanSince(r, proc[p].req))
          /\ proc' = [proc EXCEPT ![p].pc = "hold", ![p].seen = r.id] /\ UNCHANGED jobLock
    /\ UNCHANGED <<Rest, ids, MonVars>>

\* removeUnmonitoredComposeDownJob: the PID lock is held across the removal.
HoldOrReuse(p) ==
    /\ At(p, "hold")
    /\ LET i == proc[p].seen IN
       IF pidLock[i] = Nobody
       THEN pidLock' = [pidLock EXCEPT ![i] = p] /\ Goes(p, "remove") /\ UNCHANGED jobLock
       ELSE Answers(p, i) /\ UNCHANGED pidLock
    /\ UNCHANGED <<Rest, rec, ids, mon, events, ended>>
Deleted(i) == IF rec.id = i THEN NoRec ELSE rec
RemoveRecord(p) ==
    /\ At(p, "remove") /\ rec' = Deleted(proc[p].seen)
    /\ pidLock' = Release(p) /\ proc' = [proc EXCEPT ![p].pc = "create", ![p].seen = 0]
    /\ UNCHANGED <<Rest, ids, mon, events, ended, jobLock>>

\* createComposeDownJob: a name taken by a record no listing shows is freed.
CreateDownJob(p) ==
    /\ kind = "down"
    /\ \/ At(p, "create") /\ CreateConfig(p, "insert", "conflict")
       \/ At(p, "conflict") /\ rec' = NoRec /\ Goes(p, "create") /\ UNCHANGED ids
    /\ UNCHANGED <<Rest, MonVars, jobLock>>

Reread(p) ==
    /\ At(p, "reread") /\ rec' = Settled
    /\ IF Settled.id = proc[p].id THEN Answers(p, proc[p].id) ELSE Fails(p)
    /\ UNCHANGED <<Rest, ids, MonVars>>

\* A failed start takes its record with it, unless a monitor came up after all.
Cleanup(p) ==
    /\ At(p, "cleanup")
    /\ IF kind = "down" /\ pidLock[proc[p].id] = Nobody
       THEN pidLock' = [pidLock EXCEPT ![proc[p].id] = p] /\ Goes(p, "cleanupRemove") /\ UNCHANGED jobLock
       ELSE Fails(p) /\ UNCHANGED pidLock
    /\ UNCHANGED <<Rest, rec, ids, mon, events, ended>>
CleanupRemoves(p) ==
    /\ At(p, "cleanupRemove") /\ rec' = Deleted(proc[p].id) /\ pidLock' = Release(p)
    /\ Fails(p)
    /\ UNCHANGED <<Rest, ids, mon, events, ended>>
-----------------------------------------------------------------------------
(* findComposeDownJob, and the probe of a record found created             *)

Find(p) ==
    /\ At(p, "idle") /\ kind = "down" /\ Listed.id # 0
    /\ rec' = Settled
    /\ proc' = [proc EXCEPT ![p] = [Fresh EXCEPT !.pc = "follow", !.id = Listed.id]]
    /\ UNCHANGED <<Rest, ids, MonVars, jobLock>>

ProbeBegins(p) ==
    /\ At(p, "probe")
    /\ IF jobLock = Nobody
       THEN IF rec.id = proc[p].id /\ rec.state = "created" THEN jobLock' = p /\ Goes(p, "probeHold")
            ELSE UNCHANGED jobLock /\ Goes(p, "follow")
       ELSE UNCHANGED jobLock /\ Goes(p, "follow")
    /\ UNCHANGED <<Rest, cmdVars>>
Verdict(p, got) == proc' = [proc EXCEPT ![p] = [Fresh EXCEPT !.pc = "done", !.got = got]]
Unlocked(p) == IF jobLock = p THEN Nobody ELSE jobLock
ProbeHolds(p) ==
    /\ At(p, "probeHold")
    /\ IF pidLock[proc[p].id] = Nobody
       THEN pidLock' = [pidLock EXCEPT ![proc[p].id] = p] /\ Goes(p, "probeRelease") /\ UNCHANGED jobLock
       ELSE UNCHANGED pidLock /\ Goes(p, "follow") /\ jobLock' = Unlocked(p)
    /\ UNCHANGED <<Rest, rec, ids, mon, events, ended>>
ProbeReleases(p) ==
    /\ At(p, "probeRelease") /\ pidLock' = Release(p) /\ jobLock' = Unlocked(p)
    /\ Verdict(p, "notstarted")
    /\ never' = never \cup {proc[p].id}
    /\ UNCHANGED <<kind, orphans, tick, faults, slow, rec, ids, mon, events, ended>>
-----------------------------------------------------------------------------
(* runMuxOpWorker                                                          *)

MuxBegin(p) ==
    /\ At(p, "idle") /\ kind = "muxop"
    /\ CreateConfig(p, "insert", "inspect")
    /\ UNCHANGED <<Rest, MonVars, jobLock>>

\* muxOpRecordIsLive: a record short of running is taken for live while young.
LiveRecord(r) == r.state = "running" \/ (r.state \in {"created", "starting"} /\ tick = r.made)

Inspect(p) ==
    /\ At(p, "inspect") /\ rec' = Settled
    /\ LET r == Listed IN
       \/ r.id = 0 /\ Goes(p, "create")
       \/ r.id # 0 /\ LiveRecord(r) /\ proc' = [proc EXCEPT ![p] = Fresh]
       \/ r.id # 0 /\ ~LiveRecord(r) /\ proc' = [proc EXCEPT ![p].pc = "muxRead", ![p].seen = r.id]
    /\ UNCHANGED <<Rest, ids, MonVars, jobLock>>

\* removeMuxOpLeftover: Remove without force reads the state, then deletes.
MuxRemoveReads(p) ==
    /\ At(p, "muxRead")
    /\ IF rec.id = proc[p].seen /\ rec.state \in Active THEN proc' = [proc EXCEPT ![p] = Fresh]
       ELSE Goes(p, "muxRemove")
    /\ UNCHANGED <<Rest, cmdVars, jobLock>>
MuxRemoves(p) ==
    /\ At(p, "muxRemove") /\ rec' = Deleted(proc[p].seen) /\ proc' = [proc EXCEPT ![p].pc = "create", ![p].seen = 0]
    /\ UNCHANGED <<Rest, ids, MonVars, jobLock>>

\* The registration is tried once more.
MuxCreatesAgain(p) ==
    /\ At(p, "create") /\ kind = "muxop"
    /\ IF rec.id # 0 THEN proc' = [proc EXCEPT ![p] = Fresh] /\ UNCHANGED <<rec, ids>>
       ELSE CreateConfig(p, "insert", "idle")
    /\ UNCHANGED <<Rest, MonVars, jobLock>>
-----------------------------------------------------------------------------
(* waitComposeDownJobExit and waitMuxOpExit                                *)

Reported(p) == {c \in {"exited", "failed"} : <<proc[p].id, c>> \in events}

FollowEvent(p) ==
    /\ proc[p].pc \in {"follow", "gone"}
    /\ \E c \in Reported(p) : Verdict(p, c)
    /\ UNCHANGED <<Rest, cmdVars, jobLock>>

\* A poll of the record.  The mux follower only asks whether it is there.
FollowByName(p) ==
    /\ At(p, "follow") /\ rec' = Settled
    /\ LET r == Listed IN
       \/ r.id = 0 /\ Goes(p, "gone")
       \/ r.id = proc[p].id /\ kind = "down" /\ r.state \in Terminal /\ Verdict(p, r.state)
       \/ r.id = proc[p].id /\ kind = "down" /\ r.state = "created" /\ Goes(p, "probe")
       \/ r.id = proc[p].id /\ rec' # rec /\ UNCHANGED proc
    /\ UNCHANGED <<Rest, ids, MonVars, jobLock>>
FollowRecord(p) ==
    /\ At(p, "follow") /\ rec' = Settled
    /\ LET r == Listed IN
       \/ r.id # proc[p].id /\ Goes(p, "gone")
       \/ r.id = proc[p].id /\ kind = "down" /\ r.state \in Terminal /\ Verdict(p, r.state)
       \/ r.id = proc[p].id /\ kind = "down" /\ r.state = "created" /\ Goes(p, "probe")
       \/ r.id = proc[p].id /\ rec' # rec /\ UNCHANGED proc
    /\ UNCHANGED <<Rest, ids, MonVars, jobLock>>

\* The wait for a job to leave created is bounded.
StartWaitEnds(p) ==
    /\ At(p, "follow") /\ kind = "down" /\ Listed.id = proc[p].id /\ Listed.state = "created"
    /\ Verdict(p, "notstarted") /\ UNCHANGED <<Rest, cmdVars, jobLock>>

\* The grace of a record that is gone: an event written by then has been read.
GraceEnds(p) ==
    /\ At(p, "gone") /\ Reported(p) = {}
    /\ IF rec.id = proc[p].id THEN Goes(p, "follow") ELSE Verdict(p, "lost")
    /\ UNCHANGED <<Rest, cmdVars, jobLock>>
-----------------------------------------------------------------------------
Monitor(i) ==
    \/ MonLocks(i) \/ MonClaims(i) \/ MonRuns(i) \/ (\E c \in {"exited", "failed"} : MonEnds(i, c))
    \/ MonRecords(i) \/ MonRemoves(i) \/ MonLeaves(i)
Launch(p) ==
    \/ TakeLock(p) \/ LookUp(p) \/ HoldOrReuse(p) \/ RemoveRecord(p) \/ CreateDownJob(p)
    \/ CreateState(p) \/ StartSpawns(p) \/ StartReturns(p) \/ StartTimesOut(p) \/ Reread(p)
    \/ Cleanup(p) \/ CleanupRemoves(p)
    \/ Inspect(p) \/ MuxRemoveReads(p) \/ MuxRemoves(p) \/ MuxCreatesAgain(p)
Follow(p) ==
    \/ FollowEvent(p) \/ FollowRecord(p) \/ StartWaitEnds(p) \/ GraceEnds(p)
    \/ ProbeBegins(p) \/ ProbeHolds(p) \/ ProbeReleases(p)
Invoke(p) == Request(p) \/ Find(p) \/ MuxBegin(p)
Next ==
    \/ \E i \in Ids : Monitor(i) \/ MonKilled(i) \/ OrphanEnds(i)
    \/ \E p \in Procs : Invoke(p) \/ Launch(p) \/ Follow(p) \/ Dies(p)
    \/ Tick

Spec == Init /\ [][Next]_vars
\* An invocation that is not killed goes on, a job ends, and a deadline that is
\* looked at on every turn is met.
FairSpec ==
    /\ Spec
    /\ WF_vars(\E i \in Ids : Monitor(i))
    /\ \A p \in Procs : WF_vars(Launch(p)) /\ WF_vars(Follow(p)) /\ SF_vars(StartWaitEnds(p))
-----------------------------------------------------------------------------
(* Properties                                                              *)

\* Locks are held by whoever is at a step that holds one, and a monitor past its
\* PID lock has it.
TypeOK ==
    /\ rec.id \in 0 .. ids /\ (rec.id = 0) = (rec.state = "none")
    /\ rec.state \in {"none", "half", "created"} \cup Active \cup Terminal
    /\ jobLock \in Procs \cup {Nobody}
    /\ \A i \in Ids : mon[i] \in {"locked", "starting", "running", "over", "removing", "leaving"}
                        <=> pidLock[i] = "mon"

Supervised(i) == mon[i] \in {"starting", "running"}
Working(i) == Supervised(i) \/ i \in orphans
\* A job that lost its monitor, and no record says any more that it is at work.
Forgotten(i) == i \in orphans /\ ~(rec.id = i /\ rec.state \in Active)

\* Two downs of one project never run at once, whatever launches, lookups and deaths
\* overlap, unless the monitor of one was killed and its record has been settled
\* or replaced since; nor do two mux operations on one window, unless besides a
\* monitor is so slow to come up that its record is taken for a leftover.
OneAtATime ==
    \A i, j \in Ids : Working(i) /\ Working(j) /\ ~(kind = "muxop" /\ slow) =>
        i = j \/ Forgotten(i) \/ Forgotten(j)

\* A launch is answered by a job whose monitor is still there, or whose run began
\* no earlier than the request.
JobAnswers ==
    \A p \in Procs :
        proc[p].pc \in {"look", "hold", "reread"} /\ proc'[p].pc = "follow" =>
            LET i == proc'[p].id IN
            \/ pidLock[i] = "mon"
            \/ /\ rec'.id = i /\ rec'.state \in Terminal
               /\ rec'.started >= proc[p].req \/ (rec'.started < 0 /\ rec'.made >= proc[p].req)

\* A record reported as one that never ran is not run later, unless its monitor
\* came up after the launch behind it had stopped waiting.
NeverRanHolds == \A i \in never : ~Supervised(i) \/ slow

\* What a follower reports is how the job ended: an exit is never made up, and a
\* job that reported its end is never said to be lost.  One whose monitor was killed
\* is said to have failed, though it may still be at work.
FollowTrue ==
    \A p \in Procs : ~At(p, "done") /\ proc'[p].pc = "done" =>
        LET g == proc'[p].got e == ended[proc[p].id] IN
        /\ g = "exited" => e = "exited"
        /\ g = "failed" => e = "failed" \/ mon[proc[p].id] = "dead"
        /\ g = "lost" => e = "none"

\* A follower comes to an end, with or without an exit event, whether the monitor
\* was killed, the launch died or the record was replaced.
FollowEnds == \A p \in Watched : At(p, "follow") ~> proc[p].pc \in {"done", "idle"}

\* One job at a time, and none that was given up comes to life.
JobSafety == TypeOK /\ OneAtATime /\ NeverRanHolds

\* A launch is answered by its own job, and a follower by how that job ended.
AnswersTrue == [][JobAnswers /\ FollowTrue]_vars
=============================================================================
