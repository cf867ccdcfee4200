------------------------------- MODULE Output -------------------------------
(***************************************************************************)
(* What a monitor does with the output of its command: the readers of each *)
(* run, the fan-out under outputMu (log file, broadcaster, latched runtime *)
(* state, hooks), the end of the run loop with its two broadcasters, and   *)
(* one client: `cmdman attach`, `cmdman logs --follow`, `logs --sticky` or *)
(* a watcher of the runtime state.                                         *)
(*                                                                         *)
(* A chunk of output is its number in the log; the log keeps the run whose *)
(* reader handed it in.                                                    *)
(***************************************************************************)
EXTENDS Integers, Sequences

CONSTANTS
    Kinds,          \* the kinds of client
    Cap,            \* bound: the capacity of a subscriber's channel (64)
    NetCap,         \* bound: messages a gRPC stream takes ahead of its receiver
    MaxRuns,        \* bound: runs, over all monitors
    MaxChunks,      \* bound: chunks that get through
    MaxStarts,      \* bound: monitors started
    MaxReports      \* bound: reports over SetReportedStatus

ASSUME OutputAssumption ==
    /\ Kinds \subseteq {"attach", "follow", "sticky", "watch"}
    /\ \A n \in {Cap, NetCap, MaxRuns, MaxStarts} : n \in Nat \ {0}
    /\ MaxChunks \in Nat /\ MaxReports \in Nat

VARIABLES
    mon,        \* where the monitor's run loop is
    run,        \* the runs begun
    runGen,     \* the generation whose output is taken
    genOf,      \* the generation each run's readers were given
    live,       \* the runs whose readers still read
    writer,     \* whether logWriter is installed
    log,        \* the log: the run each chunk is from
    store,      \* the command's state in the store
    starts,     \* monitors started
    outOpen,    \* outputBridge is not closed
    stOpen,     \* stateChangeBridge is not closed
    view,       \* the latched runtime state
    reports,
    hookCfg,    \* the run the hook configuration is of
    hookq,      \* the hook queue: the run of the event and of its configuration
    kind,       \* the client's kind
    cpc,        \* where the client is
    hpc,        \* the handler of its RPC
    recs, sts,  \* the handler's channels
    lost,       \* whether a record was dropped for this subscriber
    offset,     \* the offset the handler captured, None without a writer
    net,        \* what the stream holds for the client
    reading,    \* whether the client still reads the stream
    seen,       \* the last chunk the client got, or skipped to
    wake, fire, \* the watcher's change channel and its throttle
    sent,       \* the view it sent last
    startSub    \* sticky: the runs begun when its event subscription opened

monVars == <<mon, run, runGen, genOf, live, writer, log, store, starts, outOpen, stOpen>>
rtVars == <<view, reports, hookCfg, hookq>>
clientVars == <<kind, cpc, hpc, recs, sts, lost, offset, net, reading, seen, wake, fire, sent, startSub>>
vars == <<monVars, rtVars, clientVars>>

None == -1
Runs == 1 .. MaxRuns
NoView == [title |-> <<0, 0>>, bell |-> FALSE, status |-> "none"]
Total == Len(log)

Init ==
    /\ mon = "off" /\ run = 0 /\ runGen = 0 /\ genOf = [r \in Runs |-> None] /\ live = {}
    /\ writer = FALSE /\ log = <<>> /\ store = "over" /\ starts = 0
    /\ outOpen = FALSE /\ stOpen = FALSE
    /\ view = NoView /\ reports = 0 /\ hookCfg = 0 /\ hookq = <<>>
    /\ kind \in Kinds /\ cpc = "idle" /\ hpc = "none" /\ recs = <<>> /\ sts = <<>>
    /\ lost = FALSE /\ offset = None /\ net = <<>> /\ reading = TRUE /\ seen = 0
    /\ wake = FALSE /\ fire = FALSE /\ sent = NoView /\ startSub = None
-----------------------------------------------------------------------------
(* broadcaster.Send: a full channel drops                                  *)

Subscribed == hpc = "on" /\ kind # "watch"
SendRecord(n) ==
    IF ~(Subscribed /\ outOpen) THEN UNCHANGED <<recs, lost>>
    ELSE IF Len(recs) < Cap THEN recs' = Append(recs, n) /\ UNCHANGED lost
    ELSE lost' = TRUE /\ UNCHANGED recs
SendState(s) ==
    IF hpc = "on" /\ stOpen /\ Len(sts) < Cap THEN sts' = Append(sts, s) ELSE UNCHANGED sts

\* commandRuntimeState.mutate: a change wakes the watcher.
Mutate(v) ==
    /\ view' = v
    /\ wake' = (wake \/ (v # view /\ cpc \in {"subscribed", "watch"}))
-----------------------------------------------------------------------------
(* The run loop                                                            *)

\* `cmdman start`: a new monitor process, with nothing of the last one.
StartMonitor ==
    /\ mon \in {"off", "down"} /\ starts < MaxStarts /\ run < MaxRuns
    /\ mon' = "between" /\ starts' = starts + 1 /\ store' = "active"
    /\ outOpen' = TRUE /\ stOpen' = TRUE /\ view' = NoView /\ hookCfg' = 0 /\ hookq' = <<>>
    /\ UNCHANGED <<run, runGen, genOf, live, writer, log, reports, clientVars>>

\* runOnce up to the log writer: the hooks get this run's configuration.
Configure ==
    /\ mon = "between" /\ run < MaxRuns
    /\ mon' = "configured" /\ run' = run + 1 /\ hookCfg' = run + 1
    /\ UNCHANGED <<runGen, genOf, live, writer, log, store, starts, outOpen, stOpen,
                   view, reports, hookq, clientVars>>

\* The setup fails: the exit is announced before outputBridge is closed.
SetupFails ==
    /\ mon = "configured"
    /\ mon' = "announced" /\ store' = "over" /\ SendState("over")
    /\ UNCHANGED <<run, runGen, genOf, live, writer, log, starts, outOpen, stOpen, rtVars,
                   kind, cpc, hpc, recs, lost, offset, net, reading, seen, wake, fire, sent, startSub>>

\* Under outputMu: the writer, the generation and the resets; then the process
\* starts, its readers with it, and the run is announced.
BeginRun ==
    /\ mon = "configured"
    /\ mon' = "on" /\ writer' = TRUE /\ genOf' = [genOf EXCEPT ![run] = runGen]
    /\ live' = live \cup {run}
    /\ Mutate(NoView) /\ SendState("active")
    /\ UNCHANGED <<run, runGen, log, store, starts, outOpen, stOpen, reports, hookCfg, hookq,
                   kind, cpc, hpc, recs, lost, offset, net, reading, seen, fire, sent, startSub>>

\* A reader hands a chunk in: it is dropped when its run's output is closed.
\* What the emulator makes of it changes the latched state, and a bell or a
\* new title is queued for a hook, under the configuration of the moment.
Latched(r, what) ==
    CASE what = "title" -> [view EXCEPT !.title = <<r, IF @ = <<r, 1>> THEN 2 ELSE 1>>]
      [] what = "bell" -> [view EXCEPT !.bell = TRUE]
      [] OTHER -> view

LogUngated(r, what) ==
    /\ r \in live /\ Total < MaxChunks
    /\ log' = Append(log, r) /\ SendRecord(Total + 1)
    /\ Mutate(Latched(r, what))
    /\ hookq' = IF what = "text" \/ hookq # <<>> THEN hookq ELSE << <<r, hookCfg>> >>
    /\ UNCHANGED <<mon, run, runGen, genOf, live, writer, store, starts, outOpen, stOpen,
                   reports, hookCfg, kind, cpc, hpc, sts, offset, net, reading, seen, fire, sent, startSub>>
LogCommandOutput(r, what) ==
    /\ r \in live /\ genOf[r] = runGen /\ Total < MaxChunks
    /\ log' = Append(log, r) /\ SendRecord(Total + 1)
    /\ Mutate(Latched(r, what))
    /\ hookq' = IF what = "text" \/ hookq # <<>> THEN hookq ELSE << <<r, hookCfg>> >>
    /\ UNCHANGED <<mon, run, runGen, genOf, live, writer, store, starts, outOpen, stOpen,
                   reports, hookCfg, kind, cpc, hpc, sts, offset, net, reading, seen, fire, sent, startSub>>

\* A reader meets the end of its pipe, a detached one at any later time.
ReaderEnds(r) ==
    /\ r \in live /\ live' = live \ {r}
    /\ UNCHANGED <<mon, run, runGen, genOf, writer, log, store, starts, outOpen, stOpen, rtVars, clientVars>>

\* The process is gone and awaitReaders returns, with the reader or without.
AwaitReaders ==
    /\ mon = "on"
    /\ mon' = "drained" /\ runGen' = runGen + 1
    /\ UNCHANGED <<run, genOf, live, writer, log, store, starts, outOpen, stOpen, rtVars, clientVars>>

\* The runtime state dies with the run.
ClearRuntimeLater ==
    /\ mon = "drained"
    /\ mon' = "cleared" /\ UNCHANGED <<view, wake>>
    /\ UNCHANGED <<run, runGen, genOf, live, writer, log, store, starts, outOpen, stOpen,
                   reports, hookCfg, hookq,
                   kind, cpc, hpc, recs, sts, lost, offset, net, reading, seen, fire, sent, startSub>>
ClearRuntime ==
    /\ mon = "drained"
    /\ mon' = "cleared" /\ Mutate(NoView)
    /\ UNCHANGED <<run, runGen, genOf, live, writer, log, store, starts, outOpen, stOpen,
                   reports, hookCfg, hookq,
                   kind, cpc, hpc, recs, sts, lost, offset, net, reading, seen, fire, sent, startSub>>

RunReturns(next) ==
    /\ mon = "cleared"
    /\ mon' = next /\ writer' = FALSE
    /\ UNCHANGED <<run, runGen, genOf, live, log, store, starts, outOpen, stOpen, rtVars, clientVars>>

CloseOutput ==
    /\ mon = "last"
    /\ mon' = "closing" /\ outOpen' = FALSE
    /\ UNCHANGED <<run, runGen, genOf, live, writer, log, store, starts, stOpen, rtVars, clientVars>>

SetExited ==
    /\ mon = "closing"
    /\ mon' = "announced" /\ store' = "over" /\ SendState("over")
    /\ UNCHANGED <<run, runGen, genOf, live, writer, log, starts, outOpen, stOpen, rtVars,
                   kind, cpc, hpc, recs, lost, offset, net, reading, seen, wake, fire, sent, startSub>>

\* The end of setExited or setFailed, and the deferred Close of both bridges.
CloseOutputOnly ==
    /\ mon = "announced"
    /\ mon' = "closed" /\ outOpen' = FALSE
    /\ UNCHANGED <<stOpen, run, runGen, genOf, live, writer, log, store, starts, rtVars, clientVars>>
CloseBridges ==
    /\ mon = "announced"
    /\ mon' = "closed" /\ outOpen' = FALSE /\ stOpen' = FALSE
    /\ UNCHANGED <<run, runGen, genOf, live, writer, log, store, starts, rtVars, clientVars>>

\* GracefulStop returns when every handler has.
GracefulStop ==
    /\ mon = "closed" /\ hpc # "on"
    /\ mon' = "down" /\ hookq' = <<>>
    /\ UNCHANGED <<run, runGen, genOf, live, writer, log, store, starts, outOpen, stOpen,
                   view, reports, hookCfg, clientVars>>

Up == mon \notin {"off", "down"}
Serving == Up /\ mon # "closed"

\* SetReportedStatus, from the command or from anyone.
SetReport ==
    /\ Serving /\ reports < MaxReports /\ kind = "watch"
    /\ reports' = reports + 1
    /\ Mutate([view EXCEPT !.status = IF @ = "none" THEN "working" ELSE "none"])
    /\ UNCHANGED <<monVars, hookCfg, hookq,
                   kind, cpc, hpc, recs, sts, lost, offset, net, reading, seen, fire, sent, startSub>>

\* The worker takes the hook that is queued.
RunHook ==
    /\ hookq # <<>> /\ hookq' = <<>>
    /\ UNCHANGED <<monVars, view, reports, hookCfg, clientVars>>
-----------------------------------------------------------------------------
(* The handlers: Attach, Subscribe and WatchRuntimeState                   *)

\* Opening an attach clears the bell, before it subscribes.
AttachBegin ==
    /\ kind = "attach" /\ cpc = "idle" /\ Serving
    /\ cpc' = "begun" /\ Mutate([view EXCEPT !.bell = FALSE])
    /\ UNCHANGED <<monVars, reports, hookCfg, hookq,
                   kind, hpc, recs, sts, lost, offset, net, reading, seen, fire, sent, startSub>>

\* subscribeOutput: both channels, the offset and the snapshot under outputMu.
\* A closed broadcaster hands out a closed channel.
SubscribeOutput ==
    /\ hpc' = "on" /\ recs' = <<>> /\ sts' = <<>> /\ lost' = FALSE
    /\ offset' = IF writer THEN Total ELSE None

AttachSubscribe ==
    /\ cpc = "begun" /\ Up
    /\ SubscribeOutput /\ cpc' = "stream" /\ seen' = Total
    /\ UNCHANGED <<monVars, rtVars, kind, net, reading, wake, fire, sent, startSub>>

HandlerDone == hpc' = "done" /\ recs' = <<>> /\ sts' = <<>>

\* One turn of the handler's select.  A Send waits while the stream is full.
ForwardRecord ==
    /\ Subscribed /\ recs # <<>> /\ Len(net) < NetCap
    /\ net' = Append(net, Head(recs)) /\ recs' = Tail(recs)
    /\ UNCHANGED <<monVars, rtVars, kind, cpc, hpc, sts, lost, offset, reading, seen, wake, fire, sent, startSub>>

RecordsClosed ==
    /\ Subscribed /\ recs = <<>> /\ ~outOpen
    /\ HandlerDone
    /\ UNCHANGED <<monVars, rtVars, kind, cpc, lost, offset, net, reading, seen, wake, fire, sent, startSub>>

TakeState ==
    /\ Subscribed /\ sts # <<>>
    /\ IF Head(sts) = "over" THEN HandlerDone ELSE sts' = Tail(sts) /\ UNCHANGED <<hpc, recs>>
    /\ UNCHANGED <<monVars, rtVars, kind, cpc, lost, offset, net, reading, seen, wake, fire, sent, startSub>>

StatesClosed ==
    /\ Subscribed /\ sts = <<>> /\ ~stOpen
    /\ HandlerDone
    /\ UNCHANGED <<monVars, rtVars, kind, cpc, lost, offset, net, reading, seen, wake, fire, sent, startSub>>

\* WatchRuntimeState: the state changes first, then streamRuntimeState
\* subscribes to the runtime state and only then takes its first snapshot.
WatchOpen ==
    /\ kind = "watch" /\ cpc = "idle" /\ Serving
    /\ cpc' = "open" /\ hpc' = "on"
    /\ UNCHANGED <<monVars, rtVars, kind, recs, sts, lost, offset, net, reading, seen, wake, fire, sent, startSub>>

SubscribeChange ==
    /\ cpc = "open" /\ cpc' = "subscribed"
    /\ UNCHANGED <<monVars, rtVars, kind, hpc, recs, sts, lost, offset, net, reading, seen, wake, fire, sent, startSub>>

FirstView ==
    /\ cpc = "subscribed" /\ cpc' = "watch" /\ sent' = view
    /\ UNCHANGED <<monVars, rtVars, kind, hpc, recs, sts, lost, offset, net, reading, seen, wake, fire, startSub>>

TitleOnly == [sent EXCEPT !.title = view.title] = view

Watching == cpc = "watch"
WatchWakeDropping ==
    /\ Watching /\ wake /\ wake' = FALSE
    /\ IF TitleOnly THEN UNCHANGED <<fire, sent>> ELSE sent' = view /\ fire' = FALSE
    /\ UNCHANGED <<monVars, rtVars, kind, cpc, hpc, recs, sts, lost, offset, net, reading, seen, startSub>>
WatchWake ==
    /\ Watching /\ wake /\ wake' = FALSE
    /\ CASE view = sent -> UNCHANGED <<fire, sent>>
         [] view # sent /\ TitleOnly -> fire' = TRUE /\ UNCHANGED sent
         [] OTHER -> sent' = view /\ fire' = FALSE
    /\ UNCHANGED <<monVars, rtVars, kind, cpc, hpc, recs, sts, lost, offset, net, reading, seen, startSub>>

WatchFire ==
    /\ Watching /\ fire
    /\ fire' = FALSE /\ sent' = view
    /\ UNCHANGED <<monVars, rtVars, kind, cpc, hpc, recs, sts, lost, offset, net, reading, seen, wake, startSub>>

WatchActive ==
    /\ Watching /\ sts # <<>> /\ Head(sts) = "active" /\ sts' = Tail(sts)
    /\ UNCHANGED <<monVars, rtVars, kind, cpc, hpc, recs, lost, offset, net, reading, seen,
                   wake, fire, sent, startSub>>

\* The state channel ends the stream, after a last flush.
WatchEnds ==
    /\ Watching
    /\ IF sts = <<>> THEN ~stOpen ELSE Head(sts) = "over"
    /\ sent' = view /\ fire' = FALSE /\ wake' = FALSE
    /\ cpc' = "flushed" /\ hpc' = "none" /\ sts' = <<>>
    /\ UNCHANGED <<monVars, rtVars, kind, recs, lost, offset, net, reading, seen, startSub>>
-----------------------------------------------------------------------------
(* The client                                                              *)

Follows == kind \in {"follow", "sticky"}

\* Service.Logs: replay the stored log.
Replay ==
    /\ Follows /\ cpc = "idle" /\ starts > 0
    /\ seen' = Total /\ cpc' = "replayed"
    /\ UNCHANGED <<monVars, rtVars, kind, hpc, recs, sts, lost, offset, net, reading, wake, fire, sent, startSub>>

\* The state in the store says whether there is a monitor to subscribe to.
ReadState ==
    /\ cpc = "replayed"
    /\ cpc' = IF store = "active" THEN "connect" ELSE "eof"
    /\ UNCHANGED <<monVars, rtVars, kind, hpc, recs, sts, lost, offset, net, reading, seen, wake, fire, sent, startSub>>

SubscribeLogs ==
    /\ cpc = "connect" /\ Serving
    /\ SubscribeOutput /\ cpc' = "bridge"
    /\ UNCHANGED <<monVars, rtVars, kind, net, reading, seen, wake, fire, sent, startSub>>

ConnectFails ==
    /\ cpc = "connect" /\ ~Serving
    /\ cpc' = "eof"
    /\ UNCHANGED <<monVars, rtVars, kind, hpc, recs, sts, lost, offset, net, reading, seen, wake, fire, sent, startSub>>

BridgeReread ==
    /\ cpc = "bridge"
    /\ cpc' = "stream" /\ seen' = IF offset = None THEN seen ELSE offset
    /\ UNCHANGED <<monVars, rtVars, kind, hpc, recs, sts, lost, offset, net, reading, wake, fire, sent, startSub>>

Receive ==
    /\ cpc = "stream" /\ reading /\ net # <<>>
    /\ seen' = Head(net) /\ net' = Tail(net)
    /\ UNCHANGED <<monVars, rtVars, kind, cpc, hpc, recs, sts, lost, offset, reading, wake, fire, sent, startSub>>

\* The handler has returned and the stream is read to its end.
StreamEnds ==
    /\ cpc = "stream" /\ reading /\ net = <<>> /\ hpc = "done"
    /\ cpc' = "eof" /\ hpc' = "none" /\ lost' = FALSE /\ offset' = None
    /\ UNCHANGED <<monVars, rtVars, kind, recs, sts, net, reading, seen, wake, fire, sent, startSub>>

\* The terminal of an attach is stopped, or the pager of a log is not read.
Stall ==
    /\ cpc = "stream" /\ reading /\ reading' = FALSE
    /\ UNCHANGED <<monVars, rtVars, kind, cpc, hpc, recs, sts, lost, offset, net, seen, wake, fire, sent, startSub>>

\* The client is gone, and what it and its handler kept.
Gone ==
    /\ cpc' = "done" /\ hpc' = "none" /\ recs' = <<>> /\ sts' = <<>> /\ net' = <<>>
    /\ lost' = FALSE /\ offset' = None /\ reading' = TRUE /\ seen' = 0
    /\ wake' = FALSE /\ fire' = FALSE /\ sent' = NoView /\ startSub' = None
    /\ UNCHANGED <<monVars, rtVars, kind>>

\* A client that goes away cancels the context of its stream.
Leave == cpc \notin {"idle", "done"} /\ Gone

Eof == cpc = "eof" /\ kind # "sticky" /\ Gone

\* waitForStart: the subscription to the event log opens at its end.
WaitForStart ==
    /\ cpc = "eof" /\ kind = "sticky"
    /\ cpc' = "waitstart" /\ startSub' = run - (IF mon = "configured" THEN 1 ELSE 0)
    /\ UNCHANGED <<monVars, rtVars, kind, hpc, recs, sts, lost, offset, net, reading, seen, wake, fire, sent>>

\* A run has been announced since: resume from the end the log has now.
ResumeAtStart ==
    /\ cpc = "waitstart" /\ run - (IF mon = "configured" THEN 1 ELSE 0) > startSub
    /\ cpc' = "replayed" /\ seen' = Total /\ startSub' = None
    /\ UNCHANGED <<monVars, rtVars, kind, hpc, recs, sts, lost, offset, net, reading, wake, fire, sent>>
-----------------------------------------------------------------------------
RunLoop == BeginRun \/ SetupFails \/ Configure \/ AwaitReaders \/ ClearRuntime
           \/ RunReturns("between") \/ RunReturns("last")
Ending == CloseOutput \/ SetExited \/ CloseBridges \/ GracefulStop
Handler == ForwardRecord \/ RecordsClosed \/ TakeState \/ StatesClosed
           \/ WatchWake \/ WatchFire \/ WatchActive \/ WatchEnds
Client == AttachBegin \/ AttachSubscribe \/ WatchOpen \/ SubscribeChange \/ FirstView \/ Replay \/ ReadState \/ SubscribeLogs
          \/ ConnectFails \/ BridgeReread \/ Receive \/ StreamEnds \/ Stall \/ Leave \/ Eof
          \/ WaitForStart \/ ResumeAtStart
Rest == UNCHANGED vars

\* Bound: only a watcher tells apart what a chunk does to the latched state.
Effects == IF kind = "watch" THEN {"text", "title", "bell"} ELSE {"text"}

Next == \/ StartMonitor \/ RunLoop \/ Ending
        \/ \E r \in Runs : ReaderEnds(r)
                           \/ \E what \in Effects : LogCommandOutput(r, what)
        \/ SetReport \/ RunHook \/ Handler \/ Client \/ Rest

Spec == Init /\ [][Next]_vars

\* The end of the loop, the handlers and a client that reads are not held up;
\* nothing makes a run end, a client come or a client leave.
FairSpec ==
    /\ Spec
    /\ WF_vars(Ending)
    /\ WF_vars(WatchWake) /\ WF_vars(WatchFire) /\ WF_vars(WatchActive \/ WatchEnds)
    /\ WF_vars(SubscribeChange \/ FirstView)
    /\ WF_vars(ForwardRecord \/ RecordsClosed \/ TakeState \/ StatesClosed)
    /\ WF_vars(ReadState \/ SubscribeLogs \/ ConnectFails \/ BridgeReread)
    /\ WF_vars(Receive \/ StreamEnds) /\ WF_vars(Eof \/ WaitForStart \/ ResumeAtStart)
-----------------------------------------------------------------------------
(* Properties                                                              *)

\* Every variable stays in its domain; a writer is installed exactly while a
\* run is on and until its deferred calls have run.
TypeOK ==
    /\ mon \in {"off", "between", "configured", "on", "drained", "cleared", "last", "closing",
                "announced", "closed", "down"}
    /\ run \in 0 .. MaxRuns /\ runGen \in 0 .. MaxRuns /\ live \subseteq 1 .. run
    /\ log \in Seq(Runs) /\ store \in {"active", "over"}
    /\ writer = (mon \in {"on", "drained", "cleared"})
    /\ hpc \in {"none", "on", "done"}
    /\ Len(recs) <= Cap /\ Len(sts) <= Cap /\ Len(net) <= NetCap
    /\ seen \in 0 .. MaxChunks /\ offset \in None .. Total
    /\ store = "over" => mon \in {"off", "announced", "closed", "down"}

\* The output of a run never reaches the next one: what is logged comes from
\* the run that is on, and the latched state and the hook that is queued come
\* from the run their configuration is of (runGen in logCommandOutput, against
\* a reader that awaitReaders left behind).
OwnOutput == Len(log') > Len(log) => mon = "on" /\ log'[Len(log')] = run
OwnState ==
    /\ view.title[1] \in {0, run}
    /\ mon \in {"cleared", "between", "last", "closing", "announced"} => view.title[1] = 0 /\ ~view.bell
    /\ \A i \in DOMAIN hookq : hookq[i][1] = hookq[i][2]

\* The snapshot of an attach and its first live record meet, and a follower's
\* replay, bridge and stream do: no chunk twice and none left out, unless the
\* subscriber was too slow or subscribed while no log writer was installed.
Meets ==
    Receive => Head(net) > seen /\ (Head(net) = seen + 1 \/ lost \/ offset = None)

\* The end of the run loop ends every stream, and so GracefulStop, unless a
\* client has stopped reading its own.
ShutdownEnds == mon = "closed" ~> (mon = "down" \/ ~reading)

\* A watcher has sent the view there is, again and again: no change is lost
\* between its snapshot and its wake, nor in its throttle.
WatchConverges == []<>(cpc = "watch" => sent = view)

\* A follower of a command that is over comes to an end, or waits for the next
\* start, wherever in its replay, its bridge or its stream the end met it.
FollowEnds == (store = "over" /\ cpc \in {"stream", "bridge", "connect"})
              ~> (cpc \in {"eof", "done", "waitstart"} \/ store = "active" \/ ~reading)

\* What is latched belongs to the run that is on.
OutputSafety == TypeOK /\ OwnState

\* Every line is logged in its own run and reaches a client once, in order.
OutputSteps == [][OwnOutput /\ Meets]_vars

\* Watchers converge and followers end.
StreamsSettle == WatchConverges /\ FollowEnds
=============================================================================
