---------------------------- MODULE ReconcileWalk ----------------------------
(***************************************************************************)
(* The concurrent walk of a compose project's dependency graph: up and     *)
(* start walk it from the dependencies to the dependents, stop, down walk  *)
(* it the other way.  A few workers take commands off a channel, act on    *)
(* the ones that are ready and put the neighbours of what they finished    *)
(* back on it.  Nobody counts the work left: the walk is over when no      *)
(* command is queued or in progress.                                       *)
(*                                                                         *)
(* The graph, the targets and the states the replicas are found in are     *)
(* chosen at the start.  Meanwhile the replicas live on: one that runs may *)
(* end at any moment, and the user may cancel the operation.               *)
(***************************************************************************)
EXTENDS Naturals, FiniteSets

CONSTANTS
    Commands,       \* the commands of the spec
    Scale,          \* how many replicas each of them has
    Workers,        \* the worker goroutines, reconcileWalkLimit of them
    Nothing,        \* no command
    StopLimit,      \* the parallel limit of the stops, 0 for none
    MayCancel,      \* the context of the operation may be cancelled
    Directions,     \* the walks to make: "start", "stop"
    Graphs,         \* the dependency graphs to walk
    MaxTargets,     \* bound on the commands named as targets
    Found,          \* the states the snapshot may find a replica in
    Ends,           \* how a replica may end by itself
    MaxHeld         \* bound on the replicas a failed create holds

ASSUME CommandsAssumption ==
    IsFiniteSet(Commands) /\ Commands # {} /\ Nothing \notin Commands
ASSUME ScaleAssumption == Scale \in [Commands -> Nat \ {0}]
ASSUME LimitAssumption == StopLimit \in Nat /\ IsFiniteSet(Workers) /\ Workers # {}
ASSUME CancelAssumption == MayCancel \in BOOLEAN
ASSUME DirectionAssumption == Directions \subseteq {"start", "stop"}
ASSUME GraphsAssumption ==
    Graphs \subseteq [Commands -> [Commands -> {"none", "running", "completed", "success"}]]
ASSUME FoundAssumption ==
    /\ Found \subseteq {"absent", "created", "running", "exit0", "exit1", "failed"}
    /\ Ends \subseteq {"exit0", "exit1", "failed"}
ASSUME BoundsAssumption == MaxHeld \in Nat /\ MaxTargets \in Nat

VARIABLES
    after,      \* the condition a command puts on another one, "none" when it has none
    dir,        \* which way the walk goes
    closure,    \* the commands it acts on
    covered,    \* the scale indices it acts on
    held,       \* the replicas a failed create keeps from being started
    snap,       \* the replicas' states as the snapshot found them
    store,      \* the replicas' states as they are
    queued, inProgress, consumed, blocked, failed,   \* scheduling state and errors
    result,     \* the state an action reported for its command
    work,       \* how often a command is in the channel
    wpc, wcmd,  \* a worker's next step and the command it acts on
    wtodo,      \* the replicas its action has still to start or stop
    wbad,       \* its action has met a failure it goes on after
    wsend,      \* the commands it has still to put in the channel
    stopping,   \* the replicas being stopped, one permit each
    over,       \* workCtx is done
    cancelled,  \* because the user cancelled
    begun,      \* history: replicas the walk started, or found active
    ended       \* history: replicas whose run has ended since the snapshot

graphVars == <<after, dir, closure, covered, held, snap>>
schedVars == <<queued, inProgress, consumed, blocked, failed, result>>
workerVars == <<wpc, wcmd, wtodo, wbad, wsend>>
worldVars == <<store, stopping, begun, ended>>
vars == <<graphVars, schedVars, work, workerVars, worldVars, over, cancelled>>

Conditions == {"running", "completed", "success"}
Replicas == UNION {{<<c, i>> : i \in 1 .. Scale[c]} : c \in Commands}
\* starting is a running replica here: every test in the code takes both.
Terminal == {"exit0", "exit1", "failed"}
States == {"absent", "created", "running"} \cup Terminal
Deps(c) == {p \in Commands : after[c][p] # "none"}
Dependents(c) == {d \in Commands : after[d][c] # "none"}
Covered(c) == {<<c, i>> : i \in covered[c]}

-----------------------------------------------------------------------------
(* The graph and what it is built from                                     *)

\* topoLayers ends with every command in a layer: no set of commands waits
\* for itself alone.
ValidateDAG(a) ==
    \A S \in SUBSET Commands \ {{}} : \E c \in S : \A p \in S : a[c][p] = "none"

\* What is reached from names: the least set that holds them and, with a
\* command, its neighbours.
Reached(names, neighbours) ==
    {c \in Commands : \A S \in SUBSET Commands :
        (names \subseteq S /\ \A x \in S : neighbours[x] \subseteq S) => c \in S}

ResolveTargetCommands(names) ==
    IF names = {} THEN Commands ELSE Reached(names, [c \in Commands |-> Deps(c)])

ResolveStopTargetCommands(names) ==
    IF names = {} THEN Commands ELSE Reached(names, [c \in Commands |-> Dependents(c)])

\* The state of a command from the states of some of its replicas.
AggregateInstances(states) ==
    LET present == states \ {"absent"}
    IN  CASE present = {} -> "none"
          [] "failed" \in present -> "failed"
          [] present = {"exit0"} -> "exit0"
          [] "exit1" \in present /\ present \subseteq {"exit0", "exit1"} -> "exit1"
          [] present = {"running"} -> "running"
          [] OTHER -> "mixed"

SnapshotState(c) == AggregateInstances({snap[r] : r \in Covered(c)})
IsTerminalState(s) == s \in Terminal
ActiveInstances(c) == {r \in Covered(c) : snap[r] = "running"}

\* The first commands of a walk have no neighbour to wait for.
Seed(direction, cl) ==
    {c \in cl : (IF direction = "start" THEN Deps(c) ELSE Dependents(c)) \cap cl = {}}

Init ==
    /\ after \in Graphs /\ ValidateDAG(after)
    /\ dir \in Directions
    /\ \E names \in {N \in SUBSET Commands : Cardinality(N) <= MaxTargets} :
        /\ closure = IF dir = "start" THEN ResolveTargetCommands(names)
                                      ELSE ResolveStopTargetCommands(names)
        /\ covered \in [Commands -> SUBSET UNION {1 .. Scale[c] : c \in Commands}]
        /\ \A c \in Commands : covered[c] \subseteq 1 .. Scale[c] /\ covered[c] # {}
        /\ \A c \in Commands \ names : covered[c] = 1 .. Scale[c]
    /\ snap \in [Replicas -> Found] /\ store = snap
    /\ held \in IF dir = "start" THEN {H \in SUBSET Replicas : Cardinality(H) <= MaxHeld}
                                  ELSE {{}}
    /\ queued = Seed(dir, closure)
    /\ work = [c \in Commands |-> IF c \in Seed(dir, closure) THEN 1 ELSE 0]
    /\ inProgress = {} /\ consumed = {} /\ blocked = {} /\ failed = {}
    /\ result = [c \in Commands |-> SnapshotState(c)]
    \* As many workers as there are commands, up to the limit.
    /\ \E some \in SUBSET Workers :
        /\ Cardinality(some) <= Cardinality(closure)
        /\ some = Workers \/ Cardinality(some) = Cardinality(closure)
        /\ wpc = [w \in Workers |-> IF w \in some THEN "idle" ELSE "exit"]
    /\ wcmd = [w \in Workers |-> Nothing]
    /\ wtodo = [w \in Workers |-> {}] /\ wsend = [w \in Workers |-> {}]
    /\ wbad = [w \in Workers |-> FALSE]
    /\ stopping = {} /\ over = FALSE /\ cancelled = FALSE
    /\ begun = {r \in Replicas : snap[r] = "running"} /\ ended = {}

-----------------------------------------------------------------------------
(* Readiness                                                               *)

EvalDownEdge(p, cond) ==
    LET state == IF p \in closure THEN result[p] ELSE SnapshotState(p)
    IN  IF p \notin closure
        THEN IF \/ cond = "running" /\ state \in {"running", "mixed"}
                \/ cond = "completed" /\ IsTerminalState(state)
                \/ cond = "success" /\ state = "exit0"
             THEN "satisfied" ELSE "blocked"
        ELSE IF p \in blocked THEN "blocked"
        ELSE IF p \notin consumed THEN "pending"
        ELSE IF p \in failed THEN "blocked"
        ELSE IF cond = "running" THEN "satisfied"
        ELSE IF ~IsTerminalState(state) THEN "pending"
        ELSE IF cond = "completed" \/ state = "exit0" THEN "satisfied" ELSE "blocked"

ReadinessAtFirst(c) ==
    IF dir = "stop"
    THEN IF Dependents(c) \cap closure = {} \/ Dependents(c) \cap consumed # {} THEN "satisfied" ELSE "pending"
    ELSE LET edges == {EvalDownEdge(p, after[c][p]) : p \in Deps(c)}
         IN  IF "blocked" \in edges THEN "blocked"
             ELSE IF "pending" \in edges THEN "pending" ELSE "satisfied"
Readiness(c) ==
    IF dir = "stop"
    THEN IF Dependents(c) \cap closure \subseteq consumed THEN "satisfied" ELSE "pending"
    ELSE LET edges == {EvalDownEdge(p, after[c][p]) : p \in Deps(c)}
         IN  IF "blocked" \in edges THEN "blocked"
             ELSE IF "pending" \in edges THEN "pending" ELSE "satisfied"

AnyDependentNeedsSuccess(c) ==
    \E d \in Dependents(c) \cap closure : after[d][c] = "success"
AnyDependentNeedsCompletion(c) ==
    \E d \in Dependents(c) \cap closure : after[d][c] \in {"completed", "success"}

\* No worker can produce further work.
Done == closure \cap (queued \cup inProgress) = {}

-----------------------------------------------------------------------------
(* A worker's steps                                                        *)

\* Receive c from the channel and claim it, under the graph's lock.  What claim
\* skips (not in the closure, consumed or in progress) is never in the channel:
\* see ChannelFits.
Claimable(c) == c \in closure /\ c \notin consumed /\ c \notin inProgress

ClaimReady(w, c) ==
    /\ Claimable(c) /\ Readiness(c) = "satisfied"
    /\ queued' = queued \ {c} /\ inProgress' = inProgress \cup {c}
    /\ wpc' = [wpc EXCEPT ![w] = "act"] /\ wcmd' = [wcmd EXCEPT ![w] = c]
    /\ wtodo' = [wtodo EXCEPT ![w] = IF dir = "start" THEN Covered(c) ELSE ActiveInstances(c)]
    /\ UNCHANGED <<consumed, blocked, failed, result, wbad, wsend>>

ClaimPending(w, c) ==
    /\ Claimable(c) /\ Readiness(c) = "pending"
    /\ queued' = queued \ {c}
    /\ wpc' = [wpc EXCEPT ![w] = "check"]
    /\ UNCHANGED <<inProgress, consumed, blocked, failed, result, wcmd, wtodo, wbad, wsend>>

ClaimBlocked(w, c) ==
    /\ Claimable(c) /\ Readiness(c) = "blocked"
    /\ queued' = queued \ {c} /\ consumed' = consumed \cup {c}
    /\ blocked' = blocked \cup {c} /\ failed' = failed \cup {c}
    /\ wpc' = [wpc EXCEPT ![w] = "check"]
    /\ UNCHANGED <<inProgress, result, wcmd, wtodo, wbad, wsend>>

Claim(w, c) ==
    /\ wpc[w] = "idle" /\ work[c] > 0
    /\ work' = [work EXCEPT ![c] = @ - 1]
    /\ \/ ClaimReady(w, c) \/ ClaimPending(w, c) \/ ClaimBlocked(w, c)
    /\ UNCHANGED <<graphVars, worldVars, over, cancelled>>

Frontier(c) ==
    {n \in (IF dir = "start" THEN Dependents(c) ELSE Deps(c)) \cap closure :
        n \notin consumed \cup inProgress \cup queued}

\* The action has returned: record its result and queue the frontier, under
\* one lock.
Complete(w, state, bad) ==
    LET cmd == wcmd[w] IN
    /\ inProgress' = inProgress \ {cmd} /\ consumed' = consumed \cup {cmd}
    /\ result' = [result EXCEPT ![cmd] = state]
    /\ failed' = IF bad THEN failed \cup {cmd} ELSE failed
    /\ queued' = queued \cup Frontier(cmd)
    /\ wsend' = [wsend EXCEPT ![w] = Frontier(cmd)]
    /\ wpc' = [wpc EXCEPT ![w] = IF Frontier(cmd) = {} THEN "check" ELSE "send"]
    /\ wcmd' = [wcmd EXCEPT ![w] = Nothing] /\ wtodo' = [wtodo EXCEPT ![w] = {}]
    /\ wbad' = [wbad EXCEPT ![w] = FALSE]
    /\ UNCHANGED <<graphVars, blocked, work, over, cancelled>>

\* The channel has room for every command, so a send only waits for the lock.
Send(w, c) ==
    /\ wpc[w] = "send" /\ c \in wsend[w]
    /\ work' = [work EXCEPT ![c] = @ + 1]
    /\ wsend' = [wsend EXCEPT ![w] = @ \ {c}]
    /\ wpc' = [wpc EXCEPT ![w] = IF wsend[w] = {c} THEN "check" ELSE "send"]
    /\ UNCHANGED <<graphVars, schedVars, wcmd, wtodo, wbad, worldVars, over, cancelled>>

\* done(), and on it finalize(): what was never consumed is blocked.
FinalizeAlone(w) ==
    /\ wpc[w] = "check" /\ Done
    /\ consumed' = consumed \cup closure
    /\ blocked' = blocked \cup (closure \ consumed)
    /\ failed' = failed \cup (closure \ consumed)
    /\ wpc' = [wpc EXCEPT ![w] = "exit"]
    /\ UNCHANGED <<graphVars, queued, inProgress, result, work, wcmd, wtodo, wbad, wsend,
                   worldVars, over, cancelled>>

Finalize(w) ==
    /\ wpc[w] = "check" /\ Done
    /\ consumed' = consumed \cup closure
    /\ blocked' = blocked \cup (closure \ consumed)
    /\ failed' = failed \cup (closure \ consumed)
    /\ over' = TRUE
    /\ wpc' = [wpc EXCEPT ![w] = "exit"]
    /\ UNCHANGED <<graphVars, queued, inProgress, result, work, wcmd, wtodo, wbad, wsend,
                   worldVars, cancelled>>

CarryOn(w) ==
    /\ wpc[w] = "check" /\ ~Done
    /\ wpc' = [wpc EXCEPT ![w] = "idle"]
    /\ UNCHANGED <<graphVars, schedVars, work, wcmd, wtodo, wbad, wsend, worldVars, over, cancelled>>

\* A worker that waits on the channel leaves once workCtx is done; a select
\* with both ready takes either.
Leave(w) ==
    /\ wpc[w] \in {"idle", "send"} /\ over
    /\ wpc' = [wpc EXCEPT ![w] = "exit"]
    /\ UNCHANGED <<graphVars, schedVars, work, wcmd, wtodo, wbad, wsend, worldVars, over, cancelled>>

-----------------------------------------------------------------------------
(* upStartAction: the replicas one after another, in their order           *)

NextReplica(w) == CHOOSE r \in wtodo[w] : \A q \in wtodo[w] : r[2] <= q[2]
Acting(w) == wpc[w] = "act" /\ dir = "start" /\ wtodo[w] # {}

SkipHeld(w) ==
    /\ Acting(w) /\ NextReplica(w) \in held
    /\ wtodo' = [wtodo EXCEPT ![w] = @ \ {NextReplica(w)}]
    /\ wbad' = [wbad EXCEPT ![w] = TRUE]
    /\ UNCHANGED <<graphVars, schedVars, work, wpc, wcmd, wsend, worldVars, over, cancelled>>

\* One the snapshot has as active needs no start.
SkipActive(w) ==
    /\ Acting(w) /\ NextReplica(w) \notin held /\ snap[NextReplica(w)] = "running"
    /\ wtodo' = [wtodo EXCEPT ![w] = @ \ {NextReplica(w)}]
    /\ UNCHANGED <<graphVars, schedVars, work, wpc, wcmd, wbad, wsend, worldVars, over, cancelled>>

ToStart(w) == Acting(w) /\ NextReplica(w) \notin held /\ snap[NextReplica(w)] # "running"

\* startReplica: start_pre, the start, start_post.
StartReplica(w) ==
    /\ ToStart(w) /\ store[NextReplica(w)] # "absent"
    /\ wtodo' = [wtodo EXCEPT ![w] = @ \ {NextReplica(w)}]
    /\ store' = [store EXCEPT ![NextReplica(w)] = "running"]
    /\ begun' = begun \cup {NextReplica(w)}
    /\ UNCHANGED <<graphVars, schedVars, work, wpc, wcmd, wbad, wsend, stopping, ended,
                   over, cancelled>>

\* A start that fails, with start_pre or itself, leaves the replica as it was;
\* with start_post it leaves it running.  The action ends there.
StartFails(w) ==
    /\ ToStart(w)
    /\ \/ UNCHANGED store
       \/ /\ store[NextReplica(w)] # "absent"
          /\ store' = [store EXCEPT ![NextReplica(w)] = "running"]
    /\ Complete(w, SnapshotState(wcmd[w]), TRUE)
    /\ UNCHANGED <<stopping, begun, ended>>

AllStarted(w) == wpc[w] = "act" /\ dir = "start" /\ wtodo[w] = {}

StartDone(w) ==
    /\ AllStarted(w)
    /\ \/ wbad[w] /\ Complete(w, SnapshotState(wcmd[w]), TRUE)
       \/ /\ ~wbad[w] /\ ~AnyDependentNeedsCompletion(wcmd[w])
          /\ Complete(w, "running", FALSE)
    /\ UNCHANGED worldVars

\* A dependent needs the command's completion: wait for every replica to stop.
AwaitCompletion(w) ==
    /\ AllStarted(w) /\ ~wbad[w] /\ AnyDependentNeedsCompletion(wcmd[w])
    /\ wpc' = [wpc EXCEPT ![w] = "wait"]
    /\ UNCHANGED <<graphVars, schedVars, work, wcmd, wtodo, wbad, wsend, worldVars, over, cancelled>>

Completed(w) ==
    /\ wpc[w] = "wait"
    /\ \A r \in Covered(wcmd[w]) : store[r] \in Terminal
    /\ Complete(w, AggregateInstances({store[r] : r \in Covered(wcmd[w])}), FALSE)
    /\ UNCHANGED worldVars

WaitCancelled(w) ==
    /\ wpc[w] = "wait" /\ cancelled
    /\ Complete(w, "running", TRUE)
    /\ UNCHANGED worldVars

-----------------------------------------------------------------------------
(* stopAction: the live replicas at once, as far as the permits go         *)

Stopping(w) == {r \in stopping : r[1] = wcmd[w]}

AcquireStop(w, r) ==
    /\ wpc[w] = "act" /\ dir = "stop" /\ r \in wtodo[w]
    /\ StopLimit = 0 \/ Cardinality(stopping) < StopLimit
    /\ wtodo' = [wtodo EXCEPT ![w] = @ \ {r}]
    /\ stopping' = stopping \cup {r}
    /\ UNCHANGED <<graphVars, schedVars, work, wpc, wcmd, wbad, wsend, store, begun, ended,
                   over, cancelled>>

\* A wait for a permit that the cancellation ends is a failed stop.
AcquireCancelled(w, r) ==
    /\ wpc[w] = "act" /\ dir = "stop" /\ r \in wtodo[w] /\ cancelled
    /\ wtodo' = [wtodo EXCEPT ![w] = @ \ {r}]
    /\ wbad' = [wbad EXCEPT ![w] = TRUE]
    /\ UNCHANGED <<graphVars, schedVars, work, wpc, wcmd, wsend, worldVars, over, cancelled>>

\* teardownStop returns: stop_pre, the stop, stop_post, and the permit goes.
StopReturns(w, r) ==
    /\ wpc[w] = "act" /\ dir = "stop" /\ r \in Stopping(w)
    /\ stopping' = stopping \ {r}
    /\ \/ /\ store' = [store EXCEPT ![r] = IF @ = "running" THEN "exit1" ELSE @]
          /\ ended' = ended \cup {r}
          /\ wbad' \in {wbad, [wbad EXCEPT ![w] = TRUE]}
       \/ wbad' = [wbad EXCEPT ![w] = TRUE] /\ UNCHANGED <<store, ended>>
    /\ UNCHANGED <<graphVars, schedVars, work, wpc, wcmd, wtodo, wsend, begun, over, cancelled>>

StopDone(w) ==
    /\ wpc[w] = "act" /\ dir = "stop" /\ wtodo[w] = {} /\ Stopping(w) = {}
    /\ Complete(w, IF wbad[w] \/ ActiveInstances(wcmd[w]) = {}
                   THEN SnapshotState(wcmd[w]) ELSE "exited", wbad[w])
    /\ UNCHANGED worldVars

-----------------------------------------------------------------------------
(* The world                                                               *)

WalkOver == \A w \in Workers : wpc[w] = "exit"

\* A run ends.  What happens after the walk is no concern of it.
ReplicaEnds(r) ==
    /\ store[r] = "running" /\ ~WalkOver
    /\ \E end \in Ends : store' = [store EXCEPT ![r] = end]
    /\ ended' = ended \cup {r}
    /\ UNCHANGED <<graphVars, schedVars, work, workerVars, stopping, begun, over, cancelled>>

Cancel ==
    /\ MayCancel /\ ~cancelled
    /\ cancelled' = TRUE /\ over' = TRUE
    /\ UNCHANGED <<graphVars, schedVars, work, workerVars, worldVars>>

WorkerStep(w) ==
    \/ \E c \in Commands : Claim(w, c) \/ Send(w, c)
    \/ Finalize(w) \/ CarryOn(w) \/ Leave(w)
    \/ SkipHeld(w) \/ SkipActive(w) \/ StartReplica(w) \/ StartFails(w)
    \/ StartDone(w) \/ AwaitCompletion(w) \/ Completed(w) \/ WaitCancelled(w)
    \/ \E r \in Replicas : AcquireStop(w, r) \/ AcquireCancelled(w, r) \/ StopReturns(w, r)
    \/ StopDone(w)

Rest == WalkOver /\ UNCHANGED vars

Next == (\E w \in Workers : WorkerStep(w)) \/ (\E r \in Replicas : ReplicaEnds(r)) \/ Cancel \/ Rest

Spec == Init /\ [][Next]_vars
\* Every worker goroutine gets to run; nothing is assumed of the commands.
FairSpec == Spec /\ \A w \in Workers : WF_vars(WorkerStep(w))
-----------------------------------------------------------------------------
(* Properties                                                              *)

ResultStates == States \cup {"none", "mixed", "exited"}

\* Every variable stays in its domain: the sets of vertices claim, complete and
\* finalize write, and what a worker goroutine holds.
TypeOK ==
    /\ after \in [Commands -> [Commands -> Conditions \cup {"none"}]]
    /\ dir \in {"start", "stop"} /\ closure \subseteq Commands
    /\ covered \in [Commands -> SUBSET Nat] /\ \A c \in Commands : Covered(c) \subseteq Replicas
    /\ held \subseteq Replicas /\ snap \in [Replicas -> States] /\ store \in [Replicas -> States]
    /\ queued \subseteq closure /\ inProgress \subseteq closure /\ consumed \subseteq closure
    /\ blocked \subseteq consumed /\ failed \subseteq consumed
    /\ result \in [Commands -> ResultStates] /\ work \in [Commands -> Nat]
    /\ wpc \in [Workers -> {"idle", "act", "wait", "send", "check", "exit"}]
    /\ wcmd \in [Workers -> Commands \cup {Nothing}] /\ wtodo \in [Workers -> SUBSET Replicas]
    /\ wbad \in [Workers -> BOOLEAN] /\ wsend \in [Workers -> SUBSET closure]
    /\ stopping \subseteq Replicas /\ over \in BOOLEAN /\ cancelled \in BOOLEAN
    /\ begun \subseteq Replicas /\ ended \subseteq Replicas

\* The commands an action of the walk has begun or finished.
Acted == inProgress \cup (consumed \ blocked)

\* A start walk acts on a command only when each of its dependencies has done,
\* in this walk and not in an earlier run, what after.Condition asks for: its
\* replicas were started, or have ended since the walk began, all of them with
\* code 0 for completed_successfully (upStartAction and evalDownEdgeLocked).
ConditionsMet ==
    dir = "start" => \A c \in Acted : \A p \in Deps(c) : \A r \in Covered(p) :
        CASE after[c][p] = "running" -> r \in begun
          [] after[c][p] = "completed" -> r \in ended /\ store[r] \in Terminal
          [] OTHER -> r \in ended /\ store[r] = "exit0"

\* A stop walk acts on a command only when the stop of every dependent it
\* covers has returned, whatever came of it (readinessLocked, walkFromEnd).
DependentsFirst ==
    dir = "stop" => \A c \in Acted : Dependents(c) \cap closure \subseteq consumed

\* A walk that was not cancelled leaves no command out, and blocks one only
\* for the sake of a dependency that failed, was blocked itself or did not
\* exit with code 0.  A wake-up lost between claim and complete, or a command
\* whose completion nobody waited for, would block one for nothing.
BlockedForCause ==
    WalkOver /\ ~cancelled =>
        /\ consumed = closure
        /\ \A c \in blocked : \E p \in Deps(c) :
            p \in failed \/ (after[c][p] = "success" /\ result[p] \in {"exit1", "failed"})

\* What startOutcomes and stopOutcomes report without an error was acted on:
\* started or found active, or no longer running (again, without a cancellation).
OutcomesTrue ==
    WalkOver /\ ~cancelled => \A c \in closure \ failed : \A r \in Covered(c) :
        IF dir = "start" THEN r \in begun ELSE snap[r] = "running" => r \in ended

\* A command is in the channel, or about to be sent to it, once at most and
\* only while it is marked queued, so the channel made for commandCount entries
\* never blocks a sender, and claim never meets a command that is consumed or
\* in progress.
ChannelFits ==
    /\ queued \cap (consumed \cup inProgress) = {}
    /\ \A c \in Commands :
        /\ work[c] <= 1
        /\ work[c] = 1 => c \in queued /\ \A w \in Workers : c \notin wsend[w]
    /\ \A w, v \in Workers : w # v => wsend[w] \cap wsend[v] = {}

\* The replica stops of one operation never outnumber its permits.
StopsWithinLimit == StopLimit > 0 => Cardinality(stopping) <= StopLimit

\* The walk ends, or one of its workers waits for a command that still runs:
\* no worker waits for a permit, a send or a completion that never comes.
AwaitsLive ==
    \E w \in Workers : wpc[w] = "wait" /\ \E r \in Covered(wcmd[w]) : store[r] = "running"
WalkEnds == []<>(WalkOver \/ AwaitsLive)

\* The walk's bookkeeping and its order: nothing is queued twice, the permits
\* hold, and no command is acted on before what it waits for.
WalkSafety == TypeOK /\ ChannelFits /\ StopsWithinLimit /\ ConditionsMet /\ DependentsFirst

\* What the walk reports at its end is what it did: every command is accounted
\* for, is blocked for a cause only and is a success only if it was acted on.
VerdictsTrue == BlockedForCause /\ OutcomesTrue
=============================================================================
