--------------------------- MODULE ComposeReplica ---------------------------
(***************************************************************************)
(* One replica of a compose command, the lifecycle hooks that run around   *)
(* each operation on it, and the resources those hooks acquire and         *)
(* release.  A resource is kept in a holder, a record of its own that      *)
(* outlives the replica; the hooks are kept on the replica itself, so that *)
(* a teardown runs the ones it was created with, whatever the compose file *)
(* says by now.                                                            *)
(*                                                                         *)
(* One invocation of compose acts at a time: up, start, stop, restart, the *)
(* removal of an excess replica or an orphan, down.  It works off a list   *)
(* of steps (a hook, the operation, more hooks) and then decides what the  *)
(* next list is.  Any step may fail, the invocation may be cancelled or    *)
(* die between two steps, and the replica may end at any moment.           *)
(***************************************************************************)
EXTENDS Naturals, Sequences, FiniteSets, SequencesExt

CONSTANTS
    Keys,       \* the resource keys hooks declare
    Values,     \* the values acquires hand out
    Nothing,    \* no value, no holder, no key
    Specs,      \* the hook lists the compose file may declare
    Operations, \* the operations users invoke
    Watched,    \* one hook name and event: its exec command stands for all of them
    MayCrash,   \* an invocation may die between two steps
    MayBreak    \* a store operation may fail after the exec worked

Pairs == {"create", "start", "stop", "remove"}
Pre == [k \in Pairs |-> CASE k = "create" -> "create_pre" [] k = "start" -> "start_pre"
                           [] k = "stop" -> "stop_pre" [] k = "remove" -> "remove_pre"]
Post == [k \in Pairs |-> CASE k = "create" -> "create_post" [] k = "start" -> "start_post"
                            [] k = "stop" -> "stop_post" [] k = "remove" -> "remove_post"]
Events == {Pre[k] : k \in Pairs} \cup {Post[k] : k \in Pairs}
OnErrors == {"fail", "continue", "ignore"}

\* acquires() and releases(): the remove pair undoes a create, the stop pair a start.
Acquires(ev) == ev \in {"create_pre", "create_post", "start_pre", "start_post"}
Releases(ev) ==
    CASE ev \in {"create_pre", "create_post"} -> {"remove_pre", "remove_post"}
      [] ev \in {"start_pre", "start_post"} -> {"stop_pre", "stop_post"}
      [] OTHER -> {}

\* The name of a hook; a holder that the user made names none.
NoName == "none"
Names == STRING \cup {NoName}

\* A hook says what it does at each event it sets: its on_error, or "unset".
Hooks == [name : Names, res : Keys \cup {Nothing}, on : [Events -> OnErrors \cup {"unset"}]]
SetEvents(h) == {ev \in Events : h.on[ev] # "unset"}

ValidateResourceEvents(h) ==
    \E acq \in SetEvents(h) :
        /\ Acquires(acq)
        /\ SetEvents(h) \ {acq} \subseteq Releases(acq)
        /\ Cardinality(SetEvents(h) \ {acq}) <= 1

ValidateLifecycleHooks(hooks) ==
    /\ hooks \in Seq(Hooks)
    /\ \A i \in DOMAIN hooks : SetEvents(hooks[i]) # {}
    /\ \A i \in DOMAIN hooks : hooks[i].res # Nothing => ValidateResourceEvents(hooks[i])
    /\ \A i, j \in DOMAIN hooks : i # j =>
        /\ hooks[i].name # hooks[j].name
        /\ hooks[i].res = Nothing \/ hooks[i].res # hooks[j].res

ASSUME SpecsAssumption == \A s \in Specs : ValidateLifecycleHooks(s)
ASSUME OperationsAssumption ==
    Operations \subseteq {"up", "start", "stop", "restart", "excess", "orphan", "down", "downcmd",
                          "force"}
ASSUME FaultAssumption == MayCrash \in BOOLEAN /\ MayBreak \in BOOLEAN
\* What a holder keeps, and what the release recorder of a down keeps of it.
HolderRecords ==
    [value : Values, hook : Names, release : Events \cup {"none"}, onError : OnErrors]
Holders == HolderRecords \cup {Nothing}
Releasings ==
    [holder : [value : Values \cup {Nothing}, hook : Names, release : Events, onError : OnErrors],
     reportOnly : BOOLEAN, retried : BOOLEAN]

\* Keys, values and records are told apart from what stands for none of them.
ASSUME NothingAssumption == Nothing \notin Values \cup Keys \cup HolderRecords \cup Releasings
ASSUME ValuesAssumption == Values \cap {"no", "drop"} = {}
ASSUME KeysAssumption == IsFiniteSet(Keys)

VARIABLES
    file,       \* the hooks the compose file declares
    state,      \* the replica's state
    stored,     \* the hooks stored on it
    holder,     \* the holder of each resource, or Nothing
    left,       \* what is left of the exec command of the Watched hook and event
    inv,        \* the invocation
    fate,       \* history: what has become of each value
    twice       \* history: a release ran for a value that had been released

world == <<file, state, stored, holder, left>>
ghosts == <<fate, twice>>
vars == <<world, inv, ghosts>>

\* A value is unused, owned once an acquire has it, released by its release,
\* excused when the hooks or the user ask to give it up, and spent when it was
\* released but a fault left it in its holder.
Fates == {"unused", "owned", "released", "excused", "spent"}
States == {"absent", "created", "running", "exited", "failed", "died"}
Live == {"running"}     \* starting or running
\* exited, or failed with an end its monitor recorded.
VerifiedStopped == {"exited", "failed"}
\* There is none, one that does not run, one that runs, or one that was let stay:
\* it was still running, or its removal failed and no more than a log line says so.
Lefts == {"none", "still", "live", "kept"}
Held == {holder[k].value : k \in {k \in Keys : holder[k] # Nothing}}

NoHook == [name |-> NoName, res |-> Nothing, on |-> [ev \in Events |-> "unset"]]
NoRec == [k \in Keys |-> Nothing]
NoRuns == [k \in Keys |-> 0]

\* The invocation: what it was asked for and has found out, and its steps.
Idle ==
    [op |-> "idle", phase |-> "done", todo |-> <<>>, err |-> "none", pend |-> "no",
     want |-> <<>>, old |-> <<>>, src |-> "spec", listed |-> FALSE, stopped |-> FALSE, removed |-> FALSE,
     kept |-> FALSE, held |-> FALSE, bad |-> FALSE, rec |-> NoRec, runs |-> NoRuns,
     cancelled |-> FALSE, was |-> "idle"]

Init ==
    /\ file \in Specs
    /\ state = "absent" /\ stored = <<>>
    /\ holder = [k \in Keys |-> Nothing] /\ left = "none"
    /\ inv = Idle
    /\ fate = [v \in Values |-> "unused"] /\ twice = FALSE

-----------------------------------------------------------------------------
(* Steps                                                                   *)

HookStep(h, ev, force) ==
    [what |-> "hook", hook |-> h, ev |-> ev, held |-> Nothing,
     onError |-> IF force /\ h.on[ev] = "fail" THEN "continue" ELSE h.on[ev]]
OpStep(kind) ==
    [what |-> kind, hook |-> NoHook, ev |-> Pre[kind], held |-> Nothing, onError |-> "fail"]

\* runLifecycleEvent: ev of every hook that sets it, in declaration order.
EventSteps(hooks, ev, force) ==
    LET set == {i \in DOMAIN hooks : hooks[i].on[ev] # "unset"}
        Nth(n) == CHOOSE i \in set : Cardinality({j \in set : j <= i}) = n
    IN  [n \in 1 .. Cardinality(set) |-> HookStep(hooks[Nth(n)], ev, force)]

\* The *WithHooks helpers: pre, the operation, post.
WithHooks(kind, hooks, force) ==
    EventSteps(hooks, Pre[kind], force) \o <<OpStep(kind)>> \o EventSteps(hooks, Post[kind], force)

\* runRelease: the release a holder stores, as the hook would have run.
ReleaseStep(k, h, force) ==
    LET onError == IF force /\ h.onError = "fail" THEN "continue" ELSE h.onError
        hook == [name |-> h.hook, res |-> k,
                 on |-> [ev \in Events |-> IF ev = h.release THEN onError ELSE "unset"]]
    IN  [what |-> "release", hook |-> hook, ev |-> h.release, held |-> h, onError |-> onError]

ReleaseSteps(ks, h, force) ==
    LET order == SetToSeq(ks)
    IN  [i \in 1 .. Len(order) |-> ReleaseStep(order[i], h[order[i]], force)]

ReleasedAtStop(h) == h.release \in {"stop_pre", "stop_post"}
StopReleases == {k \in Keys : holder[k] # Nothing /\ ReleasedAtStop(holder[k])}

Cur == Head(inv.todo)
Running(what) == inv.op # "idle" /\ inv.pend = "no" /\ inv.todo # <<>> /\ Cur.what \in what
Then(i) == [i EXCEPT !.todo = Tail(@), !.pend = "no"]
\* A step that fails its phase: what is left of the phase is not done.
Fails(i, kind) == [i EXCEPT !.todo = <<>>, !.pend = "no", !.err = kind, !.bad = TRUE]
HasRecorder == inv.op \in {"down", "downcmd", "force"}

-----------------------------------------------------------------------------
(* Running a hook                                                          *)

IsWatched(step) == <<step.hook.name, step.ev>> = Watched
IsRelease(step) == step.hook.res # Nothing /\ ~Acquires(step.ev)
\* The holder the run works from: the one it carries, or the stored one.
HolderOf(step) ==
    IF step.hook.res = Nothing THEN Nothing
    ELSE IF step.what = "release" THEN step.held ELSE holder[step.hook.res]

\* What the release recorder keeps of a failed release: the holder as the run
\* found it, with the release of this run when it stores none.
Recorded(step, found) ==
    LET ev == step.ev
        rel == IF found # Nothing /\ found.release # "none"
               THEN found
               ELSE [value |-> IF found = Nothing THEN Nothing ELSE found.value,
                     release |-> ev, onError |-> step.hook.on[ev], hook |-> step.hook.name]
    IN  [holder |-> rel, reportOnly |-> found = Nothing, retried |-> inv.phase = "retry"]

\* What becomes of a value whose holder goes: an owned one is given up.
GiveUp(f, h) ==
    IF h # Nothing /\ f[h.value] = "owned" THEN [f EXCEPT ![h.value] = "excused"] ELSE f

AfterFailureDropping(step, found, i, f) ==
    /\ inv' = IF step.onError = "fail" THEN Fails(i, "hook") ELSE Then(i)
    /\ holder' = IF IsRelease(step) /\ step.onError # "fail"
                 THEN [holder EXCEPT ![step.hook.res] = Nothing] ELSE holder
    /\ fate' = f

\* runHookAs for a run that failed: record a failed release, then on_error.
\* A cancelled invocation fails whatever on_error says; a stored release that
\* fails lets the others run.
AfterFailure(step, found, i, f) ==
    LET noted == IF IsRelease(step) /\ HasRecorder
                 THEN [i EXCEPT !.rec[step.hook.res] = Recorded(step, found)] ELSE i
        onError == IF i.cancelled THEN "fail" ELSE step.onError
    IN  /\ inv' = IF onError # "fail" THEN Then(noted)
                  ELSE IF step.what = "release" THEN [Then(noted) EXCEPT !.bad = TRUE]
                  ELSE Fails(noted, "hook")
        /\ IF IsRelease(step) /\ onError = "ignore"
           THEN /\ holder' = [holder EXCEPT ![step.hook.res] = Nothing]
                /\ fate' = GiveUp(f, holder[step.hook.res])
           ELSE holder' = holder /\ fate' = f

\* The holder cannot be looked up: nothing runs.
LookupFails ==
    /\ Running({"hook"}) /\ Cur.hook.res # Nothing
    /\ MayBreak \/ inv.cancelled
    /\ AfterFailure(Cur, Nothing, inv, fate)
    /\ UNCHANGED <<file, state, stored, left, twice>>

Ran(step) ==
    IF IsRelease(step) THEN [inv EXCEPT !.runs[step.hook.res] = @ + 1] ELSE inv

\* What a run that broke off leaves: the earlier exec command of the event is still
\* there, is gone, or has made way for one that never ran or runs on.
Interrupted == {left, "none", "still", "live"}
\* What one leaves that worked: nothing, unless its exec command cannot be removed.
Cleared == {"none"} \cup IF MayBreak THEN {"kept"} ELSE {}

\* execHook: an earlier exec command of the event goes, the new one runs and
\* fails; it stays for inspection.  A cancelled one may have done its work.
ExecFails ==
    /\ Running({"hook", "release"})
    /\ LET found == HolderOf(Cur) IN
       \/ AfterFailure(Cur, found, Ran(Cur), fate)
       \/ /\ inv.cancelled /\ IsRelease(Cur) /\ found # Nothing /\ fate[found.value] = "owned"
          /\ AfterFailure(Cur, found, Ran(Cur), [fate EXCEPT ![found.value] = "spent"])
    /\ left' \in IF ~IsWatched(Cur) THEN {left}
                ELSE IF MayBreak \/ inv.cancelled THEN Interrupted ELSE {"still"}
    /\ UNCHANGED <<file, state, stored, twice>>

\* It runs with the value of the holder and exits with code 0.  An acquire has
\* its value now, a release has given it back.
ExecWorks ==
    /\ Running({"hook", "release"}) /\ ~inv.cancelled
    /\ left' \in IF IsWatched(Cur) THEN Cleared ELSE {left}
    /\ \/ /\ Cur.hook.res = Nothing
          /\ inv' = Then(inv) /\ UNCHANGED ghosts
       \/ /\ Cur.hook.res # Nothing /\ Acquires(Cur.ev)
          /\ \E v \in Values :
                /\ fate[v] = "unused" /\ v \notin Held
                /\ fate' = [fate EXCEPT ![v] = "owned"] /\ inv' = [inv EXCEPT !.pend = v]
          /\ UNCHANGED twice
       \/ /\ IsRelease(Cur)
          /\ inv' = [Ran(Cur) EXCEPT !.pend = "drop"]
          /\ LET found == HolderOf(Cur) IN
             /\ fate' = IF found # Nothing /\ found.value \in Values /\ fate[found.value] # "spent"
                        THEN [fate EXCEPT ![found.value] = "released"] ELSE fate
             /\ twice' = (twice \/ (found # Nothing /\ found.value \in Values
                                   /\ fate[found.value] = "released"))
    /\ UNCHANGED <<file, state, stored, holder>>

\* hookRelease: the event that releases what was acquired at ev.
HookRelease(h, ev) == {rel \in Releases(ev) : h.on[rel] # "unset"}

StoredRelease(h, ev) ==
    LET rels == HookRelease(h, ev)
        rel == CHOOSE r \in rels : TRUE
    IN  IF rels = {} THEN [release |-> "none", onError |-> "fail"]
                     ELSE [release |-> rel, onError |-> h.on[rel]]

\* recordResource: put the value of an acquire in its holder, or drop the
\* holder of what was released, whichever is stored by now.
Recording == inv.op # "idle" /\ inv.pend # "no"
Record ==
    /\ Recording
    /\ LET k == Cur.hook.res
           rel == StoredRelease(Cur.hook, Cur.ev)
       IN  /\ holder' = [holder EXCEPT ![k] =
                IF inv.pend = "drop" THEN Nothing
                ELSE [value |-> inv.pend, hook |-> Cur.hook.name, release |-> rel.release,
                      onError |-> rel.onError]]
           /\ fate' = GiveUp(fate, holder[k])
           /\ inv' = IF inv.phase = "retry" THEN [Then(inv) EXCEPT !.rec[k] = Nothing]
                                            ELSE Then(inv)
    /\ UNCHANGED <<file, state, stored, left, twice>>

\* What is pending when the store or the invocation gives way: an acquired
\* value is nobody's, a released one stays in its holder.
Broken ==
    IF inv.pend \in Values THEN [fate EXCEPT ![inv.pend] = "excused"]
    ELSE IF inv.pend = "drop" /\ HolderOf(Cur) # Nothing /\ HolderOf(Cur).value \in Values
         THEN [fate EXCEPT ![HolderOf(Cur).value] = "spent"] ELSE fate

\* The store fails: the exec command stays, and the event counts as failed.
RecordFails ==
    /\ MayBreak /\ Recording
    /\ AfterFailure(Cur, HolderOf(Cur), inv, Broken)
    /\ left' = IF IsWatched(Cur) THEN "still" ELSE left
    /\ UNCHANGED <<file, state, stored, twice>>

-----------------------------------------------------------------------------
(* The operations themselves                                               *)

CreateWorks ==
    /\ Running({"create"}) /\ state = "absent"
    /\ state' = "created" /\ stored' = inv.want /\ inv' = Then(inv)
    /\ UNCHANGED <<file, holder, left, ghosts>>

StartWorks ==
    /\ Running({"start"}) /\ state \in {"created", "exited", "failed", "died"}
    /\ state' = "running" /\ inv' = Then(inv)
    /\ UNCHANGED <<file, stored, holder, left, ghosts>>

StopWorks ==
    /\ Running({"stop"}) /\ state \in {"running", "exited", "failed"}
    /\ state' \in IF state = "running" THEN VerifiedStopped ELSE {state}
    /\ inv' = Then(inv)
    /\ UNCHANGED <<file, stored, holder, left, ghosts>>

RemoveWorks ==
    /\ Running({"remove"}) /\ state # "absent"
    /\ state \notin Live \/ inv.op \in {"excess", "down", "downcmd", "force"}
    /\ state' = "absent" /\ stored' = <<>>
    /\ inv' = [Then(inv) EXCEPT !.removed = TRUE]
    /\ UNCHANGED <<file, holder, left, ghosts>>

\* It fails.  A start may fail with the replica running all the same.
OpFails ==
    /\ Running(Pairs)
    /\ inv' = Fails(inv, "op")
    /\ state' \in IF Cur.what = "start" /\ state \notin {"absent", "running"}
                  THEN {state, "running"} ELSE {state}
    /\ UNCHANGED <<file, stored, holder, left, ghosts>>

-----------------------------------------------------------------------------
(* From phase to phase                                                     *)

Go(i, phase, todo) == [i EXCEPT !.phase = phase, !.todo = todo, !.err = "none"]
Over(phase) == inv.op \notin {"idle", "over"} /\ inv.todo = <<>> /\ inv.phase = phase

\* The invocation ends; the values nobody holds are forgotten.
Forget(f) == [v \in Values |-> IF v \in Held \/ f[v] = "owned" THEN f[v] ELSE "unused"]
Ends(i) ==
    /\ inv' = [i EXCEPT !.op = "over", !.was = inv.op, !.phase = "done", !.err = "none"]
    /\ fate' = Forget(fate) /\ UNCHANGED twice
Goes(i) == inv' = i /\ UNCHANGED ghosts

\* An invocation begins with the hooks of the file it has read, or, when it
\* has found no file, with the stored ones for a start.
Begin(op) ==
    /\ inv.op = "idle"
    /\ \E src \in IF op \in {"start", "restart"} THEN {"spec", "stored"} ELSE {"spec"} :
        inv' = [Idle EXCEPT !.op = op, !.phase = "list", !.want = file, !.src = src,
                            !.old = stored]
    /\ UNCHANGED <<world, ghosts>>

StartHooks == IF inv.src = "spec" THEN inv.want ELSE stored
Forced == inv.op = "force"
StopSteps == WithHooks("stop", stored, Forced)
RemoveSteps == WithHooks("remove", stored, Forced)
ToStop(i) == Go(i, "stop", StopSteps)
ToStart(i) == Go(i, "start", WithHooks("start", StartHooks, FALSE))
ToRemove(i) == Go(i, "remove", RemoveSteps)
ToCreate(i) == Go(i, "create", WithHooks("create", inv.want, FALSE))
Relist(i) == Go(i, "relist", <<>>)
Hold(i) == Relist([i EXCEPT !.held = TRUE])
MarkStopped == [inv EXCEPT !.stopped = TRUE]

\* The replica as the invocation finds it.  A running orphan is left alone.
ListUp ==
    /\ Over("list") /\ inv.op = "up"
    /\ Goes(IF state = "absent" THEN ToCreate(inv)
            ELSE IF stored = inv.want THEN Relist(inv)
            ELSE IF state \in Live THEN ToStop(inv)
            ELSE ToRemove(inv))
    /\ UNCHANGED world

ListOther ==
    /\ Over("list") /\ inv.op \in {"start", "stop", "restart", "excess", "orphan"}
    /\ CASE state = "absent" -> Ends([inv EXCEPT !.bad = inv.op = "start"])
         [] state \in Live ->
              IF inv.op \in {"stop", "restart", "excess"} THEN Goes(ToStop(inv))
              ELSE Ends([inv EXCEPT !.bad = inv.op = "orphan"])
         [] OTHER ->
              CASE inv.op \in {"start", "restart"} -> Goes(ToStart(inv))
                [] inv.op = "stop" -> Ends(inv)
                [] OTHER -> Goes(ToRemove(inv))
    /\ UNCHANGED world

\* down lists the replicas, and its stop walk lists them once more.
IsDown == inv.op \in {"down", "downcmd", "force"}
ListDown ==
    /\ Over("list") /\ IsDown
    /\ Goes(IF state = "absent" THEN Go(inv, "strand", <<>>)
                                 ELSE Go([inv EXCEPT !.listed = TRUE], "snapshot", <<>>))
    /\ UNCHANGED world
SnapshotDown ==
    /\ Over("snapshot")
    /\ Goes(IF state \in Live THEN ToStop(MarkStopped) ELSE Go(inv, "retry", <<>>))
    /\ UNCHANGED world

RetrySteps ==
    LET again == {k \in Keys : inv.rec[k] # Nothing /\ ~inv.rec[k].reportOnly}
    IN  IF inv.cancelled \/ state \notin VerifiedStopped THEN <<>>
        ELSE ReleaseSteps(again, [k \in again |-> inv.rec[k].holder], Forced)

\* The stop is over.  A failed one ends a recreate and an excess removal; a
\* restart goes on unless a hook failed; a down goes on, and keeps the replica
\* when a hook failed.
AfterStop ==
    /\ Over("stop")
    /\ CASE IsDown -> Goes(Go([inv EXCEPT !.kept = inv.err = "hook"], "retry", RetrySteps))
         [] inv.op = "restart" -> IF inv.err = "hook" THEN Ends(inv) ELSE Goes(ToStart(inv))
         [] inv.op = "up" -> Goes(IF inv.err = "none" THEN ToRemove(MarkStopped) ELSE Hold(inv))
         [] inv.op = "excess" /\ inv.err = "none" -> Goes(ToRemove(MarkStopped))
         [] OTHER -> Ends(inv)
    /\ UNCHANGED world

\* Every stop and retry is over: remove the replica, unless it is kept.
AfterRetryRemoving ==
    Over("retry") /\ Goes(ToRemove(inv)) /\ UNCHANGED world
AfterRetry ==
    /\ Over("retry")
    /\ Goes(IF inv.kept THEN Go(inv, "strand", <<>>) ELSE ToRemove(inv))
    /\ UNCHANGED world

\* removeLeftExecs: the exec commands of the removed replica go, but for those that
\* run, and for all of them when they cannot be listed or removed.
RemoveLeftExecs ==
    IF ~inv.removed \/ left = "none" THEN {left}
    ELSE IF left = "live" THEN {"kept"}
    ELSE {"none"} \cup IF left = "kept" \/ MayBreak \/ inv.cancelled THEN {"kept"} ELSE {}

AfterRemove ==
    /\ Over("remove")
    /\ left' \in RemoveLeftExecs
    /\ IF IsDown THEN Goes(Go(inv, "strand", <<>>))
       ELSE IF inv.op \in {"up", "excess"} /\ inv.removed /\ ~inv.stopped
            THEN Goes(Go(inv, "rerelease", ReleaseSteps(StopReleases, holder, FALSE)))
       ELSE IF inv.op = "up" THEN Goes(IF inv.err = "none" THEN ToCreate(inv) ELSE Hold(inv))
       ELSE Ends(inv)
    /\ UNCHANGED <<file, state, stored, holder>>

AfterRerelease ==
    /\ Over("rerelease")
    /\ IF inv.op = "excess" THEN Ends(inv)
       ELSE Goes(IF inv.bad THEN Hold(inv) ELSE ToCreate(inv))
    /\ UNCHANGED world

AfterCreate ==
    /\ Over("create")
    /\ Goes(IF inv.err = "none" THEN Relist(inv) ELSE Hold(inv))
    /\ UNCHANGED world

\* The start walk of an up lists the replicas again.
RelistUp ==
    /\ Over("relist")
    /\ IF inv.held \/ state \in Live THEN Ends(inv)
       ELSE IF state = "absent" THEN Ends([inv EXCEPT !.bad = TRUE])
       ELSE Goes(ToStart(inv))
    /\ UNCHANGED world

AfterStart == Over("start") /\ Ends(inv) /\ UNCHANGED world

Stranded ==
    {k \in Keys : /\ holder[k] # Nothing /\ holder[k].release # "none"
                  /\ ~inv.listed \/ (ReleasedAtStop(holder[k]) /\ inv.removed /\ ~inv.stopped)}
Strand ==
    /\ Over("strand")
    /\ IF inv.op = "downcmd" THEN Ends(inv)
       ELSE \/ /\ ~inv.cancelled
               /\ Goes(Go(inv, "stranded", ReleaseSteps(Stranded, holder, Forced)))
            \/ /\ MayBreak \/ inv.cancelled
               /\ Ends([inv EXCEPT !.bad = TRUE])
    /\ UNCHANGED world

AfterStranded == Over("stranded") /\ Ends(inv) /\ UNCHANGED world

\* The invocation has reported and is gone.
Return == inv.op = "over" /\ Goes(Idle) /\ UNCHANGED world

-----------------------------------------------------------------------------
(* The world                                                               *)

Cancel ==
    /\ inv.op \notin {"idle", "over"} /\ ~inv.cancelled
    /\ inv' = [inv EXCEPT !.cancelled = TRUE] /\ UNCHANGED <<world, ghosts>>

\* The invocation dies; a hook it was running is left, and may run on.
Crash ==
    /\ MayCrash /\ inv.op \notin {"idle", "over"}
    /\ inv' = Idle
    /\ fate' = Forget(Broken)
    /\ left' \in IF inv.todo # <<>> /\ Cur.what \in {"hook", "release"} /\ IsWatched(Cur)
                THEN Interrupted ELSE {left}
    /\ UNCHANGED <<file, state, stored, holder, twice>>

ExecEnds ==
    /\ left = "live" /\ left' = "still"
    /\ UNCHANGED <<file, state, stored, holder, inv, ghosts>>

\* The run ends, or its monitor dies and takes the record of it along.
ReplicaEnds ==
    /\ state = "running"
    /\ state' \in {"exited", "failed", "died"}
    /\ UNCHANGED <<file, stored, holder, left, inv, ghosts>>

EditFile ==
    /\ inv.op = "idle" /\ file' \in Specs \ {file}
    /\ UNCHANGED <<state, stored, holder, left, inv, ghosts>>

\* ResourceSet keeps the release of the holder it finds, and its owner.
ResourceSet(k) ==
    /\ inv.op = "idle"
    /\ \E v \in Values :
        /\ fate[v] = "unused" /\ v \notin Held
        /\ holder' = [holder EXCEPT ![k] =
            IF @ = Nothing THEN [value |-> v, hook |-> NoName, release |-> "none", onError |-> "fail"]
                           ELSE [@ EXCEPT !.value = v]]
        /\ fate' = [u \in Values |-> IF u = v THEN "owned"
                                     ELSE IF holder[k] # Nothing /\ u = holder[k].value THEN "unused"
                                     ELSE fate[u]]
    /\ UNCHANGED <<file, state, stored, left, inv, twice>>

ResourceUnset(k) ==
    /\ inv.op = "idle" /\ holder[k] # Nothing
    /\ holder' = [holder EXCEPT ![k] = Nothing]
    /\ fate' = [fate EXCEPT ![holder[k].value] = "unused"]
    /\ UNCHANGED <<file, state, stored, left, inv, twice>>

Next ==
    \/ \E op \in Operations : Begin(op)
    \/ LookupFails \/ ExecFails \/ ExecWorks \/ Record \/ RecordFails 
    \/ CreateWorks \/ StartWorks \/ StopWorks \/ RemoveWorks \/ OpFails
    \/ ListUp \/ ListOther \/ ListDown \/ SnapshotDown \/ AfterStop \/ AfterRetry \/ AfterRemove
    \/ AfterRerelease \/ AfterCreate \/ RelistUp \/ AfterStart \/ Strand \/ AfterStranded \/ Return
    \/ Cancel \/ Crash \/ ExecEnds \/ ReplicaEnds \/ EditFile
    \/ \E k \in Keys : ResourceSet(k) \/ ResourceUnset(k)

Spec == Init /\ [][Next]_vars
-----------------------------------------------------------------------------
(* Properties                                                              *)

\* The replica, its holders and the invocation stay in their domains.
TypeOK ==
    /\ file \in Specs /\ state \in States
    /\ holder \in [Keys -> Holders] /\ left \in Lefts
    /\ state = "absent" => stored = <<>>
    /\ fate \in [Values -> Fates] /\ twice \in BOOLEAN
    /\ inv.pend \in Values \cup {"no", "drop"} /\ inv.err \in {"none", "hook", "op"}
    /\ \A k \in Keys : inv.runs[k] \in Nat

\* A value an acquire hook handed out stays in a holder until a release of it
\* works, or until the hooks (on_error ignore, a later acquire) or the user
\* (set, unset) ask to give it up: no removal, recreate or failed release
\* loses one (runHookAs, recordResource, removeWithHooks).
NothingLost ==
    \A v \in Values : fate[v] = "owned" => v \in Held \/ inv.pend = v

\* No release runs for a value that was released already, unless a fault came
\* between the release and the removal of the holder (retryFailures,
\* releaseStranded, releaseStopResources).
NoSecondRelease == ~twice

\* "No release runs more than twice in one down": the hooks of the replica, the
\* retry and the stored releases share the two (Down).
TwiceAtMost == IsDown \/ inv.was \in {"down", "downcmd", "force"} => \A k \in Keys : inv.runs[k] <= 2

\* A release that failed is tried again only when the replica is verified to
\* have stopped (retryFailures).
RetriedWhenStopped ==
    inv.phase = "retry" /\ inv.todo # <<>> => state \in VerifiedStopped

\* A replica whose stop hooks failed is not removed by that down.
KeptStays == inv.kept => ~inv.removed /\ state # "absent"

\* A forced down is held up by no hook, unless it is cancelled (forcedHooks).
ForcePasses == Forced /\ ~inv.cancelled => inv.err # "hook" /\ ~inv.kept

Succeeded(ops) == inv.op = "over" /\ inv.was \in ops /\ ~inv.bad
Unreported(k) == inv.rec[k] = Nothing

\* An up that reports no failure leaves the replica the file described when it
\* began, and has started it or found it running (Up, executeAction).
UpConverges == Succeeded({"up"}) => stored = inv.want /\ state \notin {"absent", "created"}

\* The resource is released by a hook stored on the replica.
StoredHookReleases(k) ==
    \E i \in DOMAIN inv.old :
        inv.old[i].res = k /\ inv.old[i].on[holder[k].release] # "unset"

\* A whole-project down that reports no failure and no unreleased resource
\* leaves no holder with a release, as long as the hooks stored on the replica
\* it found are those the holder came from (Down, releaseStranded, releaseLeft).
DownReleases ==
    Succeeded({"down", "force"}) => \A k \in Keys :
        holder[k] # Nothing /\ holder[k].release # "none" /\ Unreported(k) =>
            inv.listed /\ ~StoredHookReleases(k)

\* Nothing is left of the exec commands of a replica that a down removed, but for
\* those of releases it reports, the ones it found running, whoever had started
\* them, and the ones whose removal it has logged as failed (removeLeftExecs).
ExecsGo ==
    inv.op = "over" /\ inv.was \in {"down", "downcmd", "force"} /\ inv.removed =>
        left \in {"none", "kept"} \/ \E k \in Keys : ~Unreported(k)

\* Whatever fails, is cancelled or dies on the way, a resource is neither lost
\* nor released twice, and its release is tried once more at most.
ResourceSafety == TypeOK /\ NothingLost /\ NoSecondRelease /\ TwiceAtMost /\ RetriedWhenStopped

\* A down removes what it may and no more, and is silent only about what it
\* has released.
DownSafety == KeptStays /\ ForcePasses /\ DownReleases /\ ExecsGo
=============================================================================
