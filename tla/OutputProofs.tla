---------------------------- MODULE OutputProofs ----------------------------
(***************************************************************************)
(* Theorems about Output, for any number of runs, chunks, monitors and     *)
(* reports, and for channels and streams of any capacity; and about        *)
(* LogFile, the files that output is kept in, for any sizes, any number of *)
(* files and lines, and any number of crashes.                             *)
(***************************************************************************)
EXTENDS Output, LogFile, WellFoundedInduction, SequenceTheorems, TLAPS

-----------------------------------------------------------------------------
(* The inductive invariant, part by part.                                  *)

MonStates == {"off", "between", "configured", "on", "drained", "cleared", "last", "closing",
              "announced", "closed", "down"}
ClientStates == {"idle", "begun", "open", "subscribed", "watch", "flushed", "replayed", "connect",
                 "bridge", "stream", "eof", "waitstart", "done"}
ViewType == [title : (0 .. MaxRuns) \X {0, 1, 2}, bell : BOOLEAN, status : {"none", "working"}]

\* The run loop: a generation is given to one run at most, and no run's readers
\* have the current one unless that run is on.
Begun == IF mon \in {"configured", "on"} THEN run - 1 ELSE run
RunInv ==
    /\ mon \in MonStates /\ run \in 0 .. MaxRuns /\ runGen \in 0 .. Begun
    /\ mon \in {"configured", "on"} => run # 0
    /\ live \subseteq 1 .. run
    /\ writer \in BOOLEAN /\ (writer <=> mon \in {"on", "drained", "cleared"})
    /\ store \in {"active", "over"} /\ (store = "over" => mon \in {"off", "announced", "closed", "down"})
    /\ mon \in {"between", "configured", "on", "drained", "cleared", "last"} => outOpen
GenInv ==
    /\ genOf \in [Runs -> Int]
    /\ \A r \in Runs : genOf[r] <= runGen /\ (genOf[r] = runGen => mon = "on" /\ r = run)

\* The latched state and the queued hook are of the run that is on.
StateInv ==
    /\ view \in ViewType
    /\ mon \in {"on", "drained"} => view.title[1] \in {0, run}
    /\ mon \notin {"on", "drained"} => view.title[1] = 0 /\ ~view.bell
    /\ mon \in {"configured", "on"} => hookCfg = run
    /\ hookq \in Seq(Nat \X Nat) /\ \A i \in DOMAIN hookq : hookq[i][1] = hookq[i][2]

\* Where the client is, its handler is.
ClientInv ==
    /\ kind \in {"attach", "follow", "sticky", "watch"} /\ cpc \in ClientStates
    /\ hpc \in {"none", "on", "done"}
    /\ cpc \in {"open", "subscribed", "watch", "flushed"} => kind = "watch"
    /\ kind = "watch" => cpc \in {"idle", "open", "subscribed", "watch", "flushed", "done"}
    /\ hpc # "none" /\ kind # "watch" => cpc \in {"bridge", "stream"}
    /\ log \in Seq(Runs) /\ Total <= MaxChunks
    /\ recs \in Seq(Nat) /\ sts \in Seq({"active", "over"}) /\ net \in Seq(Nat)
    /\ Len(recs) <= Cap /\ Len(sts) <= Cap /\ Len(net) <= NetCap
    /\ seen \in 0 .. Total /\ offset \in None .. Total /\ lost \in BOOLEAN
    /\ cpc \notin {"bridge", "stream"} => net = <<>> /\ recs = <<>>
    /\ hpc = "done" => recs = <<>>
    /\ offset # None => cpc \in {"bridge", "stream"}

\* What the client has, what the stream holds for it and what its handler's
\* channel does are one sequence: in order, and without a gap unless a record
\* was dropped or no offset was given.
Base == IF cpc = "bridge" /\ offset # None THEN offset ELSE seen
InOrder(b, n, r, t) ==
    /\ \A k \in 1 .. Len(n) : b < n[k] /\ n[k] <= t
    /\ \A k \in 1 .. Len(r) : b < r[k] /\ r[k] <= t
    /\ \A j, k \in 1 .. Len(n) : j < k => n[j] < n[k]
    /\ \A j, k \in 1 .. Len(r) : j < k => r[j] < r[k]
    /\ \A j \in 1 .. Len(n), k \in 1 .. Len(r) : n[j] < r[k]
NoGap(b, n, r, t, h) ==
    /\ \A k \in 1 .. Len(n) : n[k] = b + k
    /\ \A k \in 1 .. Len(r) : r[k] = b + Len(n) + k
    /\ h = "on" => b + Len(n) + Len(r) = t
OrderInv == InOrder(Base, net, recs, Total)
GapInv == ~lost /\ offset # None => NoGap(Base, net, recs, Total, hpc)

OutInv == RunInv /\ GenInv /\ StateInv /\ ClientInv /\ OrderInv /\ GapInv

-----------------------------------------------------------------------------
(* The steps, by what they touch.                                          *)

\* The steps of an RPC handler and of its client.
Served == Handler \/ Client

LEMMA ServedFrame == ASSUME Served PROVE UNCHANGED monVars
BY DEF Served, Handler, ForwardRecord, RecordsClosed, TakeState, StatesClosed, WatchWake, WatchFire, WatchActive,
       WatchEnds, Client, AttachBegin, AttachSubscribe, WatchOpen, SubscribeChange, FirstView, Replay, ReadState,
       SubscribeLogs, ConnectFails, BridgeReread, Receive, StreamEnds, Stall, Leave, Eof, Gone, WaitForStart,
       ResumeAtStart

LEMMA ServedState == ASSUME Served, ~AttachBegin PROVE UNCHANGED rtVars
BY DEF Served, Handler, ForwardRecord, RecordsClosed, TakeState, StatesClosed, WatchWake, WatchFire, WatchActive,
       WatchEnds, Client, AttachSubscribe, WatchOpen, SubscribeChange, FirstView, Replay, ReadState,
       SubscribeLogs, ConnectFails, BridgeReread, Receive, StreamEnds, Stall, Leave, Eof, Gone, WaitForStart,
       ResumeAtStart

\* The steps of the run loop that leave the client alone.
Quiet ==
    StartMonitor \/ Configure \/ AwaitReaders \/ RunReturns("between") \/ RunReturns("last")
    \/ CloseOutput \/ CloseBridges \/ GracefulStop \/ \E r \in Runs : ReaderEnds(r)

LEMMA QuietFrame == ASSUME Quiet PROVE UNCHANGED <<log, clientVars>>
BY DEF Quiet, StartMonitor, Configure, AwaitReaders, RunReturns, CloseOutput, CloseBridges, GracefulStop, ReaderEnds

LEMMA Steps ==
    ASSUME [Next]_vars
    PROVE  \/ Quiet \/ BeginRun \/ SetupFails \/ ClearRuntime \/ SetExited
           \/ \E r \in Runs, what \in {"text", "title", "bell"} : LogCommandOutput(r, what)
           \/ SetReport \/ RunHook \/ Served \/ UNCHANGED vars
BY DEF Next, RunLoop, Ending, Quiet, Served, Rest, Effects

LEMMA Bounds ==
    /\ Cap \in Nat \ {0} /\ NetCap \in Nat \ {0} /\ MaxRuns \in Nat \ {0} /\ MaxStarts \in Nat \ {0}
    /\ MaxChunks \in Nat /\ MaxReports \in Nat
BY OutputAssumption

\* A chunk that gets through is of the run that is on.
LEMMA Logs ==
    ASSUME RunInv, GenInv, ClientInv, NEW r \in Runs, NEW what, LogCommandOutput(r, what)
    PROVE  /\ mon = "on" /\ r = run /\ outOpen
           /\ log' = Append(log, run) /\ log' \in Seq(Runs) /\ Len(log') = Len(log) + 1 /\ Len(log') <= MaxChunks
<1>1. mon = "on" /\ r = run /\ outOpen
  BY DEF LogCommandOutput, GenInv, RunInv
<1> QED BY <1>1, OutputAssumption DEF LogCommandOutput, ClientInv, Total

LEMMA SendSteps ==
    ASSUME ClientInv, NEW s \in {"active", "over"}, SendState(s)
    PROVE  sts' \in Seq({"active", "over"}) /\ Len(sts') <= Cap
<1>1. CASE sts' = sts
  BY <1>1 DEF ClientInv
<1>2. CASE sts' = Append(sts, s) /\ Len(sts) < Cap
  BY <1>2, Bounds DEF ClientInv
<1> QED BY <1>1, <1>2 DEF SendState

LEMMA RunStep ==
    ASSUME RunInv, GenInv, ClientInv, [Next]_vars
    PROVE  RunInv' /\ GenInv'
<1> USE Bounds
<1>1. CASE UNCHANGED monVars
  BY <1>1 DEF monVars, RunInv, GenInv, Begun
<1>2. CASE StartMonitor
  BY <1>2 DEF StartMonitor, RunInv, GenInv, Begun, MonStates
<1>3. CASE Configure
  <2>1. mon = "between" /\ mon' = "configured" /\ run < MaxRuns /\ run' = run + 1
        /\ UNCHANGED <<runGen, live, writer, store, outOpen, genOf>>
    BY <1>3 DEF Configure
  <2>2. run' \in 0 .. MaxRuns /\ run' # 0 /\ 1 .. run \subseteq 1 .. run' /\ Begun' = Begun
    BY <2>1 DEF RunInv, Begun
  <2>3. RunInv'
    BY <2>1, <2>2 DEF RunInv, MonStates
  <2>4. GenInv'
    BY <2>1, <2>2 DEF GenInv
  <2> QED BY <2>3, <2>4
<1>4. CASE BeginRun
  <2>1. mon = "configured" /\ mon' = "on" /\ UNCHANGED <<run, runGen, store, outOpen>> /\ writer' = TRUE
        /\ live' = live \cup {run} /\ genOf' = [genOf EXCEPT ![run] = runGen]
    BY <1>4 DEF BeginRun
  <2>2. live' \subseteq 1 .. run
    BY <2>1 DEF RunInv
  <2>3. RunInv'
    BY <2>1, <2>2 DEF RunInv, Begun, MonStates
  <2>4. GenInv'
    BY <2>1 DEF GenInv, RunInv, Begun, Runs
  <2> QED BY <2>3, <2>4
<1>5. CASE SetupFails
  BY <1>5 DEF SetupFails, RunInv, GenInv, Begun, MonStates
<1>6. CASE SetExited \/ CloseOutput \/ CloseBridges
  <2>1. CASE SetExited
    BY <2>1 DEF SetExited, RunInv, GenInv, Begun, MonStates
  <2>2. CASE CloseOutput
    BY <2>2 DEF CloseOutput, RunInv, GenInv, Begun, MonStates
  <2>3. CASE CloseBridges
    BY <2>3 DEF CloseBridges, RunInv, GenInv, Begun, MonStates
  <2> QED BY <1>6, <2>1, <2>2, <2>3
<1>7. CASE GracefulStop \/ ClearRuntime
  <2>1. CASE GracefulStop
    BY <2>1 DEF GracefulStop, RunInv, GenInv, Begun, MonStates
  <2>2. CASE ClearRuntime
    BY <2>2 DEF ClearRuntime, RunInv, GenInv, Begun, MonStates
  <2> QED BY <1>7, <2>1, <2>2
<1>8. CASE AwaitReaders
  BY <1>8 DEF AwaitReaders, RunInv, GenInv, Begun, MonStates
<1>9. ASSUME NEW next \in {"between", "last"}, RunReturns(next) PROVE RunInv' /\ GenInv'
  <2>1. mon = "cleared" /\ mon' = next /\ writer' = FALSE
        /\ UNCHANGED <<run, runGen, genOf, live, store, outOpen>>
    BY <1>9 DEF RunReturns
  <2>2. RunInv'
    BY <2>1 DEF RunInv, Begun, MonStates
  <2>3. GenInv'
    BY <2>1 DEF GenInv
  <2> QED BY <2>2, <2>3
<1>10. ASSUME NEW r \in Runs, ReaderEnds(r) PROVE RunInv' /\ GenInv'
  BY <1>10 DEF ReaderEnds, RunInv, GenInv, Begun
<1>11. ASSUME NEW r \in Runs, NEW what, LogCommandOutput(r, what) PROVE RunInv' /\ GenInv'
  BY <1>11 DEF LogCommandOutput, RunInv, GenInv, Begun
<1>12. SetReport \/ RunHook \/ UNCHANGED vars => UNCHANGED monVars
  BY DEF SetReport, RunHook, vars
<1> QED BY <1>1, <1>2, <1>3, <1>4, <1>5, <1>6, <1>7, <1>8, <1>9, <1>10, <1>11, <1>12, Steps, ServedFrame DEF Quiet

LEMMA NoViewTyped ==
    NoView \in ViewType /\ NoView.title[1] = 0 /\ NoView.bell = FALSE
BY OutputAssumption DEF NoView, ViewType

LEMMA StateStep ==
    ASSUME RunInv, GenInv, ClientInv, StateInv, [Next]_vars
    PROVE  StateInv'
<1> USE OutputAssumption, NoViewTyped DEF StateInv
<1>1. CASE UNCHANGED <<mon, run, view, hookCfg, hookq>>
  BY <1>1
<1>2. CASE StartMonitor
  BY <1>2 DEF StartMonitor
<1>3. CASE Configure
  BY <1>3 DEF Configure
<1>4. CASE BeginRun \/ ClearRuntime
  BY <1>4 DEF BeginRun, ClearRuntime, Mutate
<1>5. CASE SetupFails \/ SetExited \/ CloseOutput \/ CloseBridges
  BY <1>5 DEF SetupFails, SetExited, CloseOutput, CloseBridges, rtVars
<1>6. CASE GracefulStop \/ RunHook
  <2>1. hookq' = <<>> /\ UNCHANGED <<run, view, hookCfg>> /\ (mon' = mon \/ (mon = "closed" /\ mon' = "down"))
    BY <1>6 DEF GracefulStop, RunHook, monVars
  <2>2. hookq' \in Seq(Nat \X Nat) /\ DOMAIN hookq' = {}
    BY <2>1
  <2>3. CASE mon' = mon
    BY <2>1, <2>2, <2>3
  <2>4. CASE mon = "closed" /\ mon' = "down"
    BY <2>1, <2>2, <2>4
  <2> QED BY <2>1, <2>3, <2>4
<1>7. CASE AwaitReaders \/ RunReturns("between") \/ RunReturns("last")
  BY <1>7 DEF AwaitReaders, RunReturns, rtVars
<1>8. ASSUME NEW r \in Runs, NEW what \in {"text", "title", "bell"}, LogCommandOutput(r, what) PROVE StateInv'
  <2>0. mon = "on" /\ r = run /\ hookCfg = run /\ UNCHANGED <<mon, run, hookCfg>> /\ view' = Latched(r, what)
    BY <1>8, Logs DEF LogCommandOutput, Mutate
  <2>1. view' \in ViewType /\ view'.title[1] \in {0, run}
    <3>1. CASE what = "title"
      <4> DEFINE n == IF view.title = <<r, 1>> THEN 2 ELSE 1
      <4>1. view' = [view EXCEPT !.title = <<r, n>>]
        BY <2>0, <3>1 DEF Latched
      <4>2. n \in {0, 1, 2} /\ r \in 0 .. MaxRuns
        BY DEF Runs
      <4> HIDE DEF n
      <4>3. <<r, n>> \in (0 .. MaxRuns) \X {0, 1, 2} /\ <<r, n>>[1] = r
        BY <4>2
      <4> QED BY <2>0, <4>1, <4>3 DEF ViewType
    <3>2. CASE what = "bell"
      BY <2>0, <3>2 DEF Latched, ViewType
    <3>3. CASE what = "text"
      BY <2>0, <3>3 DEF Latched
    <3> QED BY <3>1, <3>2, <3>3
  <2>2. hookq' \in Seq(Nat \X Nat) /\ \A i \in DOMAIN hookq' : hookq'[i][1] = hookq'[i][2]
    <3>1. CASE hookq' = hookq
      BY <3>1
    <3>2. CASE hookq' = << <<r, hookCfg>> >>
      BY <2>0, <3>2 DEF RunInv
    <3> QED BY <1>8, <3>1, <3>2 DEF LogCommandOutput
  <2> QED BY <2>0, <2>1, <2>2
<1>9. CASE SetReport
  BY <1>9 DEF SetReport, Mutate, monVars, ViewType
<1>10. CASE AttachBegin
  BY <1>10 DEF AttachBegin, Mutate, monVars, ViewType
<1>11. ASSUME NEW r \in Runs, ReaderEnds(r) PROVE StateInv'
  BY <1>11 DEF ReaderEnds, rtVars
<1>12. Served /\ ~AttachBegin => UNCHANGED <<mon, run, view, hookCfg, hookq>>
  BY ServedFrame, ServedState DEF monVars, rtVars
<1>13. UNCHANGED vars => UNCHANGED <<mon, run, view, hookCfg, hookq>>
  BY DEF vars, monVars, rtVars
<1> QED BY <1>1, <1>2, <1>3, <1>4, <1>5, <1>6, <1>7, <1>8, <1>9, <1>10, <1>11, <1>12, <1>13, Steps DEF Quiet

LEMMA NothingYet ==
    /\ <<>> \in Seq(Nat) /\ <<>> \in Seq({"active", "over"}) /\ Len(<<>>) = 0 /\ None = -1
    /\ Cap \in Nat /\ NetCap \in Nat
BY Bounds DEF None

\* What ClientInv and the two invariants of the stream speak of.
clientView == <<kind, cpc, hpc, log, recs, net, seen, offset, lost>>

LEMMA ClientStep ==
    ASSUME RunInv, GenInv, ClientInv, OrderInv, [Next]_vars
    PROVE  ClientInv'
<1> USE Bounds
<1>1. CASE UNCHANGED clientView /\ sts' \in Seq({"active", "over"}) /\ Len(sts') <= Cap
  BY <1>1 DEF clientView, ClientInv, Total
<1>2. Quiet \/ SetReport \/ RunHook \/ UNCHANGED vars => UNCHANGED <<clientView, sts>>
  BY QuietFrame DEF SetReport, RunHook, vars, monVars, clientVars, clientView
<1>3. ClearRuntime \/ AttachBegin => ClientInv'
  BY DEF ClearRuntime, AttachBegin, monVars, ClientInv, ClientStates, Total
<1>4. CASE BeginRun \/ SetupFails \/ SetExited
  <2>1. UNCHANGED clientView
    BY <1>4 DEF BeginRun, SetupFails, SetExited, clientView
  <2>2. SendState("active") \/ SendState("over")
    BY <1>4 DEF BeginRun, SetupFails, SetExited
  <2> QED BY <1>1, <2>1, <2>2, SendSteps
<1>5. ASSUME NEW r \in Runs, NEW what, LogCommandOutput(r, what) PROVE ClientInv'
  <2>1. Len(log') = Len(log) + 1 /\ Len(log') <= MaxChunks /\ log' \in Seq(Runs) /\ Len(log) \in Nat
    BY <1>5, Logs DEF ClientInv
  <2>2. UNCHANGED <<kind, cpc, hpc, sts, offset, net, seen>> /\ SendRecord(Total + 1)
    BY <1>5 DEF LogCommandOutput
  <2>3. /\ recs' \in Seq(Nat) /\ Len(recs') <= Cap /\ lost' \in BOOLEAN
        /\ recs' # recs => hpc = "on" /\ cpc \in {"bridge", "stream"}
    <3>1. CASE recs' = Append(recs, Total + 1) /\ Len(recs) < Cap /\ Subscribed /\ lost' = lost
      BY <2>1, <3>1 DEF ClientInv, Total, Subscribed
    <3>2. CASE recs' = recs /\ lost' \in BOOLEAN
      BY <3>2 DEF ClientInv
    <3> QED BY <2>2, <3>1, <3>2 DEF SendRecord, ClientInv
  <2> QED BY <2>1, <2>2, <2>3 DEF ClientInv, Total
<1>6. CASE ForwardRecord \/ RecordsClosed \/ StatesClosed
  <2>1. CASE ForwardRecord
    BY <2>1 DEF ForwardRecord, HandlerDone, Subscribed, monVars, ClientInv, Total
  <2>2. CASE RecordsClosed
    BY <2>2 DEF RecordsClosed, HandlerDone, Subscribed, monVars, ClientInv, Total
  <2>3. CASE StatesClosed
    BY <2>3 DEF StatesClosed, HandlerDone, Subscribed, monVars, ClientInv, Total
  <2> QED BY <1>6, <2>1, <2>2, <2>3
<1>7. CASE TakeState
  <2>1. UNCHANGED <<kind, cpc, log, net, seen, offset, lost>> /\ Subscribed
    BY <1>7 DEF TakeState, monVars
  <2>2. CASE hpc' = "done" /\ recs' = <<>> /\ sts' = <<>>
    BY <2>1, <2>2, NothingYet DEF ClientInv, Subscribed, Total
  <2>3. CASE sts' = Tail(sts) /\ UNCHANGED <<hpc, recs>> /\ sts # <<>>
    <3>1. sts' \in Seq({"active", "over"}) /\ Len(sts') <= Cap
      BY <2>3 DEF ClientInv
    <3> QED BY <1>1, <2>1, <2>3, <3>1 DEF clientView
  <2> QED BY <1>7, <2>2, <2>3 DEF TakeState, HandlerDone
<1>8. CASE WatchWake \/ WatchFire \/ WatchActive \/ WatchEnds
  <2>1. CASE WatchWake
    BY <2>1 DEF WatchWake, Watching, monVars, ClientInv, ClientStates, Total
  <2>2. CASE WatchFire
    BY <2>2 DEF WatchFire, Watching, monVars, ClientInv, ClientStates, Total
  <2>3. CASE WatchActive
    BY <2>3 DEF WatchActive, Watching, monVars, ClientInv, ClientStates, Total
  <2>4. CASE WatchEnds
    BY <2>4 DEF WatchEnds, Watching, monVars, ClientInv, ClientStates, Total
  <2> QED BY <1>8, <2>1, <2>2, <2>3, <2>4
<1>9. CASE AttachSubscribe \/ SubscribeLogs
  <2>1. cpc \in {"begun", "connect"} /\ cpc' \in {"bridge", "stream"} /\ SubscribeOutput /\ UNCHANGED <<kind, net, log>>
        /\ seen' \in {seen, Total}
    BY <1>9 DEF AttachSubscribe, SubscribeLogs, monVars
  <2>2. offset' \in None .. Total /\ seen' \in 0 .. Total /\ Total \in Nat
    BY <2>1, NothingYet DEF SubscribeOutput, ClientInv, Total
  <2>3. recs' = <<>> /\ sts' = <<>> /\ hpc' = "on" /\ lost' = FALSE
    BY <2>1 DEF SubscribeOutput
  <2> QED BY <2>1, <2>2, <2>3, NothingYet DEF ClientInv, ClientStates, Total
<1>10. CASE WatchOpen \/ SubscribeChange \/ FirstView \/ Replay \/ ReadState
  BY <1>10 DEF WatchOpen, SubscribeChange, FirstView, Replay, ReadState, Follows, monVars, ClientInv, ClientStates, Total
<1>11. CASE ConnectFails \/ BridgeReread \/ Receive \/ Stall \/ WaitForStart \/ ResumeAtStart
  <2>1. CASE ConnectFails
    BY <2>1 DEF ConnectFails, monVars, ClientInv, ClientStates, Total
  <2>2. CASE BridgeReread
    BY <2>2 DEF BridgeReread, monVars, ClientInv, ClientStates, Total, None
  <2>3. CASE Receive
    <3>1. net # <<>> /\ seen' = Head(net) /\ net' = Tail(net) /\ cpc = "stream"
          /\ UNCHANGED <<kind, cpc, hpc, recs, sts, lost, offset, log>>
      BY <2>3 DEF Receive, monVars
    <3>2. net' \in Seq(Nat) /\ Len(net') <= NetCap /\ Head(net) \in Nat /\ 1 \in 1 .. Len(net) /\ Head(net) = net[1]
      BY <3>1 DEF ClientInv
    <3>3. seen' \in 0 .. Total
      BY <3>1, <3>2 DEF OrderInv, InOrder, ClientInv, Total
    <3> QED BY <3>1, <3>2, <3>3 DEF ClientInv, Total
  <2>4. CASE Stall
    BY <2>4 DEF Stall, monVars, ClientInv, ClientStates, Total
  <2>5. CASE WaitForStart
    BY <2>5 DEF WaitForStart, monVars, ClientInv, ClientStates, Total
  <2>6. CASE ResumeAtStart
    BY <2>6 DEF ResumeAtStart, monVars, ClientInv, ClientStates, Total
  <2> QED BY <1>11, <2>1, <2>2, <2>3, <2>4, <2>5, <2>6
<1>12. CASE StreamEnds
  <2>1. cpc' = "eof" /\ hpc' = "none" /\ lost' = FALSE /\ offset' = None /\ net = <<>> /\ recs = <<>> /\ cpc = "stream"
        /\ UNCHANGED <<kind, log, recs, sts, net, seen>>
    BY <1>12 DEF StreamEnds, monVars, ClientInv
  <2>2. Total' = Total /\ Total \in Nat
    BY <2>1 DEF ClientInv, Total
  <2>3. offset' \in None .. Total
    BY <2>1, <2>2 DEF None
  <2>4. seen' \in 0 .. Total /\ lost' \in BOOLEAN
    BY <2>1, <2>2 DEF ClientInv
  <2> QED BY <2>1, <2>2, <2>3, <2>4, NothingYet DEF ClientInv, ClientStates
<1>13. CASE Leave \/ Eof
  <2>1. /\ cpc' = "done" /\ hpc' = "none" /\ recs' = <<>> /\ sts' = <<>> /\ net' = <<>>
        /\ lost' = FALSE /\ offset' = None /\ seen' = 0 /\ UNCHANGED <<kind, log>>
    BY <1>13 DEF Leave, Eof, Gone, monVars
  <2>2. Total' = Total /\ Total \in Nat
    BY <2>1 DEF ClientInv, Total
  <2>3. offset' \in None .. Total
    BY <2>1, <2>2 DEF None
  <2>4. seen' \in 0 .. Total
    BY <2>1, <2>2
  <2>5. lost' \in BOOLEAN
    BY <2>1
  <2> QED BY <2>1, <2>2, <2>3, <2>4, <2>5, NothingYet DEF ClientInv, ClientStates
<1>14. sts \in Seq({"active", "over"}) /\ Len(sts) <= Cap
  BY DEF ClientInv
<1> QED BY <1>1, <1>2, <1>3, <1>4, <1>5, <1>6, <1>7, <1>8, <1>9, <1>10, <1>11, <1>12, <1>13, <1>14, Steps
        DEF Served, Handler, Client

-----------------------------------------------------------------------------
(* The steps, by what they do to the stream of records of the client.      *)

Still == UNCHANGED <<cpc, hpc, log, recs, net, seen, offset, lost>>
Empties == net' = <<>> /\ recs' = <<>> /\ offset' = None
Opens == net' = <<>> /\ recs' = <<>> /\ (offset' # None => Base' = Total')
Rereads == Base' = Base /\ UNCHANGED <<hpc, log, recs, net, offset, lost>>
Drains == recs' = <<>> /\ hpc' = "done" /\ UNCHANGED <<cpc, log, net, seen, offset, lost>>
Forwards ==
    /\ recs # <<>> /\ net' = Append(net, Head(recs)) /\ recs' = Tail(recs)
    /\ UNCHANGED <<cpc, hpc, log, seen, offset, lost>>
Receives ==
    /\ cpc = "stream" /\ net # <<>> /\ seen' = Head(net) /\ net' = Tail(net)
    /\ UNCHANGED <<cpc, hpc, log, recs, offset, lost>>
Prints ==
    /\ Len(log') = Len(log) + 1 /\ UNCHANGED <<cpc, hpc, net, seen, offset>>
    /\ \/ recs' = Append(recs, Total + 1) /\ lost' = lost /\ hpc = "on"
       \/ recs' = recs /\ (lost' = TRUE \/ (lost' = lost /\ offset = None) \/ (lost' = lost /\ hpc # "on"))

LEMMA StreamSteps ==
    ASSUME RunInv, GenInv, ClientInv, [Next]_vars
    PROVE  Still \/ Empties \/ Opens \/ Rereads \/ Drains \/ Forwards \/ Receives \/ Prints
<1>1. Quiet \/ SetReport \/ RunHook \/ UNCHANGED vars => Still
  BY QuietFrame DEF SetReport, RunHook, vars, monVars, clientVars, Still
<1>2. BeginRun \/ SetupFails \/ SetExited \/ ClearRuntime => Still
  BY DEF BeginRun, SetupFails, SetExited, ClearRuntime, Still
<1>3. ASSUME NEW r \in Runs, NEW what, LogCommandOutput(r, what) PROVE Prints
  <2>1. outOpen /\ Len(log') = Len(log) + 1 /\ UNCHANGED <<kind, cpc, hpc, net, seen, offset>> /\ SendRecord(Total + 1)
    BY <1>3, Logs DEF LogCommandOutput
  <2>2. hpc = "on" /\ kind = "watch" => offset = None
    BY DEF ClientInv
  <2> QED BY <2>1, <2>2 DEF SendRecord, Subscribed, Prints
<1>4. ForwardRecord => Forwards
  BY DEF ForwardRecord, Forwards, monVars
<1>5. RecordsClosed \/ StatesClosed => Drains
  BY DEF RecordsClosed, StatesClosed, HandlerDone, Drains, monVars
<1>6. TakeState => Drains \/ Still
  BY DEF TakeState, HandlerDone, Drains, Still, monVars
<1>7. WatchWake \/ WatchFire \/ WatchActive \/ Stall => Still
  BY DEF WatchWake, WatchFire, WatchActive, Stall, Still, monVars
<1>8. AttachBegin \/ WatchOpen \/ SubscribeChange \/ FirstView \/ WatchEnds => Empties
  BY DEF AttachBegin, WatchOpen, SubscribeChange, FirstView, WatchEnds, Watching, monVars, Empties, ClientInv
<1>9. Replay \/ ReadState \/ ConnectFails \/ WaitForStart \/ ResumeAtStart => Empties
  BY DEF Replay, ReadState, ConnectFails, WaitForStart, ResumeAtStart, monVars, Empties, ClientInv
<1>10. AttachSubscribe => Opens
  BY DEF AttachSubscribe, SubscribeOutput, Opens, Base, monVars, ClientInv, Total
<1>11. SubscribeLogs => Opens
  BY DEF SubscribeLogs, SubscribeOutput, Opens, Base, monVars, ClientInv, Total
<1>12. BridgeReread => Rereads
  BY DEF BridgeReread, Rereads, Base, monVars
<1>13. Receive => Receives
  BY DEF Receive, Receives, monVars
<1>14. StreamEnds => Empties
  BY DEF StreamEnds, Empties, ClientInv
<1>15. Leave \/ Eof => Empties
  BY DEF Leave, Eof, Gone, Empties
<1> QED BY <1>1, <1>2, <1>3, <1>4, <1>5, <1>6, <1>7, <1>8, <1>9, <1>10, <1>11, <1>12, <1>13, <1>14, <1>15, Steps
        DEF Served, Handler, Client

-----------------------------------------------------------------------------
(* What is in order and without a gap, and stays so as a record moves from *)
(* the channel to the stream and on to the client, for any sequences.      *)

LEMMA Begins ==
    ASSUME NEW b \in Nat, NEW t, NEW h
    PROVE  InOrder(b, <<>>, <<>>, t) /\ NoGap(b, <<>>, <<>>, b, h)
<1>1. Len(<<>>) = 0 /\ 1 .. 0 = {}
  OBVIOUS
<1> QED BY <1>1 DEF InOrder, NoGap

LEMMA Drained ==
    ASSUME NEW b \in Nat, NEW t \in Nat, NEW n \in Seq(Nat), NEW r \in Seq(Nat), NEW h
    PROVE  /\ InOrder(b, n, r, t) => InOrder(b, n, <<>>, t)
           /\ NoGap(b, n, r, t, h) => NoGap(b, n, <<>>, t, "done")
<1>1. Len(<<>>) = 0 /\ 1 .. 0 = {}
  OBVIOUS
<1> QED BY <1>1 DEF InOrder, NoGap

LEMMA Forwarded ==
    ASSUME NEW b \in Nat, NEW t \in Nat, NEW n \in Seq(Nat), NEW r \in Seq(Nat), NEW h, r # <<>>
    PROVE  /\ InOrder(b, n, r, t) => InOrder(b, Append(n, Head(r)), Tail(r), t)
           /\ NoGap(b, n, r, t, h) => NoGap(b, Append(n, Head(r)), Tail(r), t, h)
<1> SUFFICES ASSUME NEW n2, NEW r2, n2 = Append(n, Head(r)), r2 = Tail(r)
             PROVE  /\ InOrder(b, n, r, t) => InOrder(b, n2, r2, t)
                    /\ NoGap(b, n, r, t, h) => NoGap(b, n2, r2, t, h)
  OBVIOUS
<1>1. Len(r) \in Nat \ {0} /\ Len(n) \in Nat /\ 1 \in 1 .. Len(r) /\ Head(r) = r[1] /\ r[1] \in Nat
  OBVIOUS
<1>2. Len(r2) = Len(r) - 1 /\ \A k \in 1 .. Len(r2) : k + 1 \in 1 .. Len(r) /\ r2[k] = r[k + 1]
  BY <1>1
<1>3. Len(n2) = Len(n) + 1
      /\ \A k \in 1 .. Len(n2) : (k \in 1 .. Len(n) /\ n2[k] = n[k]) \/ (k = Len(n) + 1 /\ n2[k] = r[1])
  BY <1>1
<1>4. (\A k \in 1 .. Len(n) : n[k] \in Nat) /\ (\A k \in 1 .. Len(r) : r[k] \in Nat)
  OBVIOUS
<1>5. ASSUME InOrder(b, n, r, t) PROVE InOrder(b, n2, r2, t)
  <2>1. \A k \in 1 .. Len(n2) : b < n2[k] /\ n2[k] <= t
    BY <1>1, <1>3, <1>5 DEF InOrder
  <2>2. \A k \in 1 .. Len(r2) : b < r2[k] /\ r2[k] <= t
    BY <1>2, <1>5 DEF InOrder
  <2>3. \A j, k \in 1 .. Len(n2) : j < k => n2[j] < n2[k]
    BY <1>1, <1>3, <1>5 DEF InOrder
  <2>4. \A j, k \in 1 .. Len(r2) : j < k => r2[j] < r2[k]
    BY <1>2, <1>5 DEF InOrder
  <2>5. \A j \in 1 .. Len(n2), k \in 1 .. Len(r2) : n2[j] < r2[k]
    BY <1>1, <1>2, <1>3, <1>5 DEF InOrder
  <2> QED BY <2>1, <2>2, <2>3, <2>4, <2>5 DEF InOrder
<1>6. ASSUME NoGap(b, n, r, t, h) PROVE NoGap(b, n2, r2, t, h)
  <2>0. r[1] = b + Len(n) + 1 /\ (\A k \in 1 .. Len(n) : n[k] = b + k) /\ (h = "on" => b + Len(n) + Len(r) = t)
    BY <1>1, <1>6 DEF NoGap
  <2>1. \A k \in 1 .. Len(n2) : n2[k] = b + k
    <3> SUFFICES ASSUME NEW k \in 1 .. Len(n2) PROVE n2[k] = b + k
      OBVIOUS
    <3>1. CASE k \in 1 .. Len(n) /\ n2[k] = n[k]
      BY <2>0, <3>1
    <3>2. CASE k = Len(n) + 1 /\ n2[k] = r[1]
      BY <1>1, <2>0, <3>2
    <3> QED BY <1>3, <3>1, <3>2
  <2>2. \A k \in 1 .. Len(r2) : r2[k] = b + Len(n2) + k
    BY <1>1, <1>2, <1>3, <1>6 DEF NoGap
  <2>3. h = "on" => b + Len(n2) + Len(r2) = t
    BY <1>1, <1>2, <1>3, <2>0
  <2> QED BY <2>1, <2>2, <2>3 DEF NoGap
<1> QED BY <1>5, <1>6

LEMMA Received ==
    ASSUME NEW b \in Nat, NEW t \in Nat, NEW n \in Seq(Nat), NEW r \in Seq(Nat), NEW h, n # <<>>
    PROVE  /\ InOrder(b, n, r, t) => b < Head(n) /\ Head(n) <= t /\ InOrder(Head(n), Tail(n), r, t)
           /\ NoGap(b, n, r, t, h) => Head(n) = b + 1 /\ NoGap(Head(n), Tail(n), r, t, h)
<1> SUFFICES ASSUME NEW n2, NEW c, n2 = Tail(n), c = Head(n)
             PROVE  /\ InOrder(b, n, r, t) => b < c /\ c <= t /\ InOrder(c, n2, r, t)
                    /\ NoGap(b, n, r, t, h) => c = b + 1 /\ NoGap(c, n2, r, t, h)
  OBVIOUS
<1>1. Len(n) \in Nat \ {0} /\ Len(r) \in Nat /\ 1 \in 1 .. Len(n) /\ c = n[1] /\ c \in Nat
  OBVIOUS
<1>2. Len(n2) = Len(n) - 1 /\ \A k \in 1 .. Len(n2) : k + 1 \in 1 .. Len(n) /\ n2[k] = n[k + 1]
  BY <1>1
<1>3. (\A k \in 1 .. Len(n) : n[k] \in Nat) /\ (\A k \in 1 .. Len(r) : r[k] \in Nat)
  OBVIOUS
<1>4. ASSUME InOrder(b, n, r, t) PROVE b < c /\ c <= t /\ InOrder(c, n2, r, t)
  <2>1. b < c /\ c <= t
    BY <1>1, <1>4 DEF InOrder
  <2>2. \A k \in 1 .. Len(n2) : c < n2[k] /\ n2[k] <= t
    BY <1>1, <1>2, <1>4 DEF InOrder
  <2>3. \A k \in 1 .. Len(r) : c < r[k] /\ r[k] <= t
    BY <1>1, <1>4 DEF InOrder
  <2>4. \A j, k \in 1 .. Len(n2) : j < k => n2[j] < n2[k]
    BY <1>2, <1>4 DEF InOrder
  <2>5. \A j \in 1 .. Len(n2), k \in 1 .. Len(r) : n2[j] < r[k]
    BY <1>2, <1>4 DEF InOrder
  <2> QED BY <1>4, <2>1, <2>2, <2>3, <2>4, <2>5 DEF InOrder
<1>5. ASSUME NoGap(b, n, r, t, h) PROVE c = b + 1 /\ NoGap(c, n2, r, t, h)
  <2>1. c = b + 1
    BY <1>1, <1>5 DEF NoGap
  <2>2. \A k \in 1 .. Len(n2) : n2[k] = c + k
    BY <1>2, <1>5, <2>1 DEF NoGap
  <2>3. \A k \in 1 .. Len(r) : r[k] = c + Len(n2) + k
    BY <1>1, <1>2, <1>5, <2>1 DEF NoGap
  <2>4. h = "on" => c + Len(n2) + Len(r) = t
    BY <1>1, <1>2, <1>5, <2>1 DEF NoGap
  <2> QED BY <2>1, <2>2, <2>3, <2>4 DEF NoGap
<1> QED BY <1>4, <1>5

LEMMA Printed ==
    ASSUME NEW b \in Nat, NEW t \in Nat, NEW n \in Seq(Nat), NEW r \in Seq(Nat), b <= t
    PROVE  /\ InOrder(b, n, r, t) => InOrder(b, n, r, t + 1) /\ InOrder(b, n, Append(r, t + 1), t + 1)
           /\ NoGap(b, n, r, t, "on") => NoGap(b, n, Append(r, t + 1), t + 1, "on")
           /\ \A h : h # "on" /\ NoGap(b, n, r, t, h) => NoGap(b, n, r, t + 1, h)
<1> SUFFICES ASSUME NEW r2, r2 = Append(r, t + 1)
             PROVE  /\ InOrder(b, n, r, t) => InOrder(b, n, r, t + 1) /\ InOrder(b, n, r2, t + 1)
                    /\ NoGap(b, n, r, t, "on") => NoGap(b, n, r2, t + 1, "on")
                    /\ \A h : h # "on" /\ NoGap(b, n, r, t, h) => NoGap(b, n, r, t + 1, h)
  OBVIOUS
<1>1. Len(n) \in Nat /\ Len(r) \in Nat
  OBVIOUS
<1>2. Len(r2) = Len(r) + 1
      /\ \A k \in 1 .. Len(r2) : (k \in 1 .. Len(r) /\ r2[k] = r[k]) \/ (k = Len(r) + 1 /\ r2[k] = t + 1)
  OBVIOUS
<1>3. (\A k \in 1 .. Len(n) : n[k] \in Nat) /\ (\A k \in 1 .. Len(r) : r[k] \in Nat)
  OBVIOUS
<1>4. ASSUME InOrder(b, n, r, t) PROVE InOrder(b, n, r, t + 1) /\ InOrder(b, n, r2, t + 1)
  <2>1. \A k \in 1 .. Len(n) : b < n[k] /\ n[k] <= t + 1
    BY <1>3, <1>4 DEF InOrder
  <2>2. \A k \in 1 .. Len(r2) : b < r2[k] /\ r2[k] <= t + 1
    BY <1>2, <1>3, <1>4 DEF InOrder
  <2>3. \A j, k \in 1 .. Len(r2) : j < k => r2[j] < r2[k]
    BY <1>1, <1>2, <1>3, <1>4 DEF InOrder
  <2>4. \A j \in 1 .. Len(n), k \in 1 .. Len(r2) : n[j] < r2[k]
    BY <1>2, <1>3, <1>4 DEF InOrder
  <2>5. InOrder(b, n, r2, t + 1)
    BY <1>4, <2>1, <2>2, <2>3, <2>4 DEF InOrder
  <2>6. InOrder(b, n, r, t + 1)
    BY <1>3, <1>4, <2>1 DEF InOrder
  <2> QED BY <2>5, <2>6
<1>5. ASSUME NoGap(b, n, r, t, "on") PROVE NoGap(b, n, r2, t + 1, "on")
  <2>1. \A k \in 1 .. Len(r2) : r2[k] = b + Len(n) + k
    BY <1>1, <1>2, <1>5 DEF NoGap
  <2>2. b + Len(n) + Len(r2) = t + 1
    BY <1>1, <1>2, <1>5 DEF NoGap
  <2> QED BY <1>5, <2>1, <2>2 DEF NoGap
<1>6. \A h : h # "on" /\ NoGap(b, n, r, t, h) => NoGap(b, n, r, t + 1, h)
  BY DEF NoGap
<1> QED BY <1>4, <1>5, <1>6

-----------------------------------------------------------------------------
(* The stream of records of the client, step by step.                      *)

LEMMA StreamTyped ==
    ASSUME ClientInv
    PROVE  /\ net \in Seq(Nat) /\ recs \in Seq(Nat) /\ Len(log) \in Nat /\ Total = Len(log)
           /\ Base \in Nat /\ Base <= Len(log)
BY DEF ClientInv, Total, Base, None

LEMMA StreamStep ==
    ASSUME RunInv, GenInv, ClientInv, OrderInv, GapInv, ClientInv', [Next]_vars
    PROVE  OrderInv' /\ GapInv'
<1> USE StreamTyped
<1>0. Base' \in Nat
  BY DEF ClientInv, Base, Total, None
<1>1. CASE Still
  BY <1>1 DEF Still, OrderInv, GapInv, Base, Total
<1>2. CASE Empties
  <2>1. InOrder(Base', net', recs', Total')
    BY <1>0, <1>2, Begins DEF Empties
  <2> QED BY <1>2, <2>1 DEF Empties, OrderInv, GapInv
<1>3. CASE Opens
  <2>1. InOrder(Base', net', recs', Total')
    BY <1>0, <1>3, Begins DEF Opens
  <2>2. offset' # None => NoGap(Base', net', recs', Total', hpc')
    BY <1>0, <1>3, Begins DEF Opens
  <2> QED BY <2>1, <2>2 DEF OrderInv, GapInv
<1>4. CASE Rereads
  BY <1>4 DEF Rereads, OrderInv, GapInv, Total
<1>5. CASE Drains
  <2>1. Base' = Base /\ Total' = Total
    BY <1>5 DEF Drains, Base, Total
  <2> QED BY <1>5, <2>1, Drained DEF Drains, OrderInv, GapInv
<1>6. CASE Forwards
  <2>1. Base' = Base /\ Total' = Total
    BY <1>6 DEF Forwards, Base, Total
  <2> QED BY <1>6, <2>1, Forwarded DEF Forwards, OrderInv, GapInv
<1>7. CASE Receives
  <2>1. Base' = Head(net) /\ Base = seen /\ Total' = Total
    BY <1>7 DEF Receives, Base, Total
  <2> QED BY <1>7, <2>1, Received DEF Receives, OrderInv, GapInv
<1>8. CASE Prints
  <2>1. Base' = Base /\ Total' = Total + 1
    BY <1>8 DEF Prints, Base, Total
  <2>2. CASE recs' = Append(recs, Total + 1) /\ lost' = lost /\ hpc = "on"
    BY <1>8, <2>1, <2>2, Printed DEF Prints, OrderInv, GapInv
  <2>3. CASE recs' = recs /\ lost' = TRUE
    BY <1>8, <2>1, <2>3, Printed DEF Prints, OrderInv, GapInv
  <2>4. CASE recs' = recs /\ lost' = lost /\ offset = None
    BY <1>8, <2>1, <2>4, Printed DEF Prints, OrderInv, GapInv
  <2>5. CASE recs' = recs /\ lost' = lost /\ hpc # "on"
    BY <1>8, <2>1, <2>5, Printed DEF Prints, OrderInv, GapInv
  <2> QED BY <1>8, <2>2, <2>3, <2>4, <2>5 DEF Prints
<1> QED BY <1>1, <1>2, <1>3, <1>4, <1>5, <1>6, <1>7, <1>8, StreamSteps

-----------------------------------------------------------------------------
(* The theorems.                                                           *)

LEMMA OutInvInit == Init => OutInv
<1> SUFFICES ASSUME Init PROVE OutInv
  OBVIOUS
<1> USE Bounds, NothingYet, NoViewTyped DEF Init
<1>1. RunInv
  <2>1. writer \in BOOLEAN /\ (writer <=> mon \in {"on", "drained", "cleared"})
    OBVIOUS
  <2>2. run \in 0 .. MaxRuns /\ runGen \in 0 .. Begun /\ live \subseteq 1 .. run
    BY DEF Begun
  <2> QED BY <2>1, <2>2 DEF RunInv, MonStates
<1>2. GenInv
  BY DEF GenInv
<1>3. StateInv
  BY DEF StateInv
<1>4. ClientInv
  <2>1. kind \in {"attach", "follow", "sticky", "watch"} /\ log \in Seq(Runs) /\ Total = 0
    BY OutputAssumption DEF Total
  <2>2. seen \in 0 .. Total /\ offset \in None .. Total /\ Total <= MaxChunks
    BY <2>1
  <2>3. lost \in BOOLEAN
    OBVIOUS
  <2>4. Len(recs) <= Cap /\ Len(sts) <= Cap /\ Len(net) <= NetCap
    OBVIOUS
  <2> QED BY <2>1, <2>2, <2>3, <2>4 DEF ClientInv, ClientStates
<1>5. OrderInv
  BY Begins DEF OrderInv, Base
<1>6. GapInv
  BY DEF GapInv
<1> QED BY <1>1, <1>2, <1>3, <1>4, <1>5, <1>6 DEF OutInv

LEMMA OutInvStep ==
    ASSUME OutInv, [Next]_vars
    PROVE  OutInv'
<1>1. RunInv' /\ GenInv'
  BY RunStep DEF OutInv
<1>2. StateInv'
  BY StateStep DEF OutInv
<1>3. ClientInv'
  BY ClientStep DEF OutInv
<1>4. OrderInv' /\ GapInv'
  BY <1>3, StreamStep DEF OutInv
<1> QED BY <1>1, <1>2, <1>3, <1>4 DEF OutInv

(* The inductive invariant of a monitor and a client of its output: the    *)
(* generations of the runs' readers, the latched state and the hook queue, *)
(* where the handler of the client is, and the records between the log and *)
(* the client.                                                             *)
THEOREM OutputInvariant == Spec => []OutInv
<1>1. Init => OutInv
  BY OutInvInit
<1>2. OutInv /\ [Next]_vars => OutInv'
  BY OutInvStep
<1> QED BY <1>1, <1>2, PTL DEF Spec

(* What is latched of the runtime state and the hook that is queued belong *)
(* to the run that is on, also while readers of earlier runs still read    *)
(* (logCommandOutput, runGen), and nothing is latched once a run is over.  *)
THEOREM OutputSafe == Spec => []OutputSafety
<1>1. OutInv => OutputSafety
  <2> SUFFICES ASSUME OutInv PROVE OutputSafety
    OBVIOUS
  <2>1. writer = (mon \in {"on", "drained", "cleared"})
    <3>1. CASE writer
      BY <3>1 DEF OutInv, RunInv
    <3>2. CASE ~writer
      BY <3>2 DEF OutInv, RunInv
    <3> QED BY <3>1, <3>2
  <2>2. runGen \in 0 .. MaxRuns /\ mon \in MonStates /\ run \in 0 .. MaxRuns /\ live \subseteq 1 .. run
        /\ store \in {"active", "over"} /\ (store = "over" => mon \in {"off", "announced", "closed", "down"})
    BY Bounds DEF OutInv, RunInv, Begun
  <2>3. seen \in 0 .. MaxChunks
    BY Bounds DEF OutInv, ClientInv, Total
  <2>4. TypeOK
    BY <2>1, <2>2, <2>3 DEF TypeOK, OutInv, ClientInv, MonStates
  <2>5. OwnState
    BY DEF OwnState, OutInv, StateInv
  <2> QED BY <2>4, <2>5 DEF OutputSafety
<1> QED BY <1>1, OutputInvariant, PTL

LEMMA OwnOutputStep ==
    ASSUME OutInv, [Next]_vars
    PROVE  OwnOutput
<1>1. ASSUME NEW r \in Runs, NEW what, LogCommandOutput(r, what) PROVE OwnOutput
  <2>1. mon = "on" /\ log' = Append(log, run) /\ Len(log') = Len(log) + 1 /\ log \in Seq(Runs)
    BY <1>1, Logs DEF OutInv, ClientInv
  <2>2. log'[Len(log')] = run
    BY <2>1
  <2> QED BY <2>1, <2>2 DEF OwnOutput
<1>2. CASE log' = log
  <2>1. Len(log) \in Nat
    BY DEF OutInv, ClientInv
  <2> QED BY <1>2, <2>1 DEF OwnOutput
<1>3. Quiet \/ Served \/ SetReport \/ RunHook \/ UNCHANGED vars => log' = log
  BY QuietFrame, ServedFrame DEF SetReport, RunHook, vars, monVars
<1>4. BeginRun \/ SetupFails \/ ClearRuntime \/ SetExited => log' = log
  BY DEF BeginRun, SetupFails, ClearRuntime, SetExited
<1> QED BY <1>1, <1>2, <1>3, <1>4, Steps

LEMMA MeetsStep ==
    ASSUME OutInv
    PROVE  Meets
<1> SUFFICES ASSUME Receive PROVE Head(net) > seen /\ (Head(net) = seen + 1 \/ lost \/ offset = None)
  BY DEF Meets
<1>1. cpc = "stream" /\ net # <<>> /\ Base = seen
  BY DEF Receive, Base
<1>2. net \in Seq(Nat) /\ recs \in Seq(Nat) /\ Total \in Nat /\ seen \in Nat /\ Head(net) \in Nat
  BY <1>1 DEF OutInv, ClientInv, Total
<1>3. InOrder(seen, net, recs, Total) /\ (~lost /\ offset # None => NoGap(seen, net, recs, Total, hpc))
  BY <1>1 DEF OutInv, OrderInv, GapInv
<1>4. seen < Head(net) /\ (~lost /\ offset # None => Head(net) = seen + 1)
  BY <1>1, <1>2, <1>3, Received
<1> QED BY <1>2, <1>4

(* Every chunk is logged in the run it comes from, and reaches a client    *)
(* once and in order: the snapshot of an attach and its first record, and  *)
(* a follower's replay, bridge and stream, meet without a gap, unless a    *)
(* record was dropped for a slow subscriber or the subscription found no   *)
(* log writer (subscribeOutput).                                           *)
THEOREM OutputStepsHold == Spec => OutputSteps
<1>1. OutInv /\ [Next]_vars => [OwnOutput /\ Meets]_vars
  BY OwnOutputStep, MeetsStep
<1> QED BY <1>1, OutputInvariant, PTL DEF Spec, OutputSteps
-----------------------------------------------------------------------------
(* The log files: functions defined step by step                           *)

\* A set that has 0 and the successor of each of its naturals has them all.
LEMMA SetInduction ==
    ASSUME NEW S, 0 \in S, \A n \in Nat : n \in S => n + 1 \in S
    PROVE  \A n \in Nat : n \in S
<1>. DEFINE R == OpToRel(<, Nat)
            T == Nat \ S
<1>1. IsWellFoundedOn(R, Nat)
  BY NatLessThanWellFounded, Zenon
<1>2. R = {p \in Nat \X Nat : p[1] < p[2]}
  BY Zenon DEF OpToRel
<1>. HIDE DEF R
<1>3. SUFFICES ASSUME T # {} PROVE FALSE
  OBVIOUS
<1>4. PICK n \in T : \A m \in T : ~ (<<m, n>> \in R)
  BY <1>1, <1>3, WFMin
<1>5. n \in Nat /\ n # 0 /\ n - 1 \in Nat /\ n - 1 < n /\ n = (n - 1) + 1
  OBVIOUS
<1>6. n - 1 \in T
  BY <1>5
<1>7. <<n - 1, n>> \in Nat \X Nat /\ <<n - 1, n>>[1] < <<n - 1, n>>[2]
  BY <1>5
<1>8. <<n - 1, n>> \in R
  BY <1>2, <1>7, Zenon
<1>. QED
  BY <1>4, <1>6, <1>8

\* f begins at x and takes N steps of G, whose n-th may depend on n.
Builds(f, x, G, N) ==
    /\ DOMAIN f = 0 .. N /\ f[0] = x
    /\ \A n \in 1 .. N : f[n] = G[<<n, f[n - 1]>>]

\* A function given by its value at 0 and by its step, up to N.
LEMMA BuildsExists ==
    ASSUME NEW S, NEW x \in S, NEW N \in Nat, NEW G \in [(1 .. N) \X S -> S]
    PROVE  \E f \in [0 .. N -> S] : Builds(f, x, G, N)
<1>. DEFINE P == {k \in Nat : k <= N => \E f \in [0 .. k -> S] : f[0] = x /\ \A n \in 1 .. k : f[n] = G[<<n, f[n - 1]>>]}
<1>1. 0 \in P
  <2>1. PICK f : f = [n \in 0 .. 0 |-> x]
    OBVIOUS
  <2>2. f \in [0 .. 0 -> S] /\ f[0] = x /\ \A n \in 1 .. 0 : f[n] = G[<<n, f[n - 1]>>]
    BY <2>1
  <2>. QED
    BY <2>2
<1>2. ASSUME NEW k \in Nat, k \in P PROVE k + 1 \in P
  <2>1. SUFFICES ASSUME k + 1 <= N
        PROVE  \E f \in [0 .. k + 1 -> S] : f[0] = x /\ \A n \in 1 .. k + 1 : f[n] = G[<<n, f[n - 1]>>]
    BY <1>2
  <2>2. PICK f \in [0 .. k -> S] : f[0] = x /\ \A n \in 1 .. k : f[n] = G[<<n, f[n - 1]>>]
    BY <1>2, <2>1
  <2>. DEFINE g == [n \in 0 .. k + 1 |-> IF n = k + 1 THEN G[<<k + 1, f[k]>>] ELSE f[n]]
  <2>3. G[<<k + 1, f[k]>>] \in S
    BY <2>1, <2>2
  <2>4. g \in [0 .. k + 1 -> S]
    BY <2>2, <2>3
  <2>5. g[0] = x
    BY <2>2
  <2>6. ASSUME NEW n \in 1 .. k + 1 PROVE g[n] = G[<<n, g[n - 1]>>]
    <3>1. n - 1 \in 0 .. k /\ g[n - 1] = f[n - 1]
      OBVIOUS
    <3>2. CASE n = k + 1
      <4>1. g[k + 1] = G[<<k + 1, f[k]>>] /\ n - 1 = k
        BY <3>2
      <4>. HIDE DEF g
      <4>. QED
        BY ONLY <4>1, <3>1, <3>2
    <3>3. CASE n # k + 1
      BY <3>1, <3>3, <2>2
    <3>. QED
      BY <3>2, <3>3
  <2>. HIDE DEF g
  <2>. QED
    BY <2>4, <2>5, <2>6
<1>3. N \in P
  <2>. HIDE DEF P
  <2>. QED
    BY <1>1, <1>2, SetInduction
<1>4. PICK f \in [0 .. N -> S] : f[0] = x /\ \A n \in 1 .. N : f[n] = G[<<n, f[n - 1]>>]
  BY <1>3
<1>. QED
  BY <1>4 DEF Builds

-----------------------------------------------------------------------------
(* The bytes and the lines of a file                                       *)

Entries == Nat \X Nat

ByteStep(es) == [p \in (1 .. Len(es)) \X Nat |-> p[2] + es[p[1]][2]]
LineStep(es) == [p \in (1 .. Len(es)) \X Seq(Nat) |->
                    IF IsLine(es[p[1]]) THEN Append(p[2], es[p[1]][1]) ELSE p[2]]

\* The bytes of a file, entry by entry.
LEMMA BytesBuilt ==
    ASSUME NEW es \in Seq(Entries)
    PROVE  \E f \in [0 .. Len(es) -> Nat] : Builds(f, 0, ByteStep(es), Len(es)) /\ ByteLen(es) = f[Len(es)]
<1>1. Len(es) \in Nat /\ \A n \in 1 .. Len(es) : es[n] \in Entries
  OBVIOUS
<1>2. ByteStep(es) \in [(1 .. Len(es)) \X Nat -> Nat]
  BY <1>1 DEF ByteStep, Entries
<1>3. PICK f \in [0 .. Len(es) -> Nat] : Builds(f, 0, ByteStep(es), Len(es))
  BY <1>1, <1>2, BuildsExists
<1>. DEFINE Upto(g) == [n \in 0 .. Len(es) |-> IF n = 0 THEN 0 ELSE g[n - 1] + es[n][2]]
            h == CHOOSE g : g = Upto(g)
<1>4. f = Upto(f)
  <2>1. ASSUME NEW n \in 0 .. Len(es) PROVE f[n] = Upto(f)[n]
    <3>1. CASE n = 0
      BY <1>3, <3>1 DEF Builds
    <3>2. CASE n # 0
      <4>1. n \in 1 .. Len(es) /\ n - 1 \in 0 .. Len(es)
        BY <1>1, <3>2
      <4>2. f[n] = ByteStep(es)[<<n, f[n - 1]>>]
        BY <4>1, <1>3 DEF Builds
      <4>. QED
        BY <4>1, <4>2, <3>2 DEF ByteStep
    <3>. QED
      BY <3>1, <3>2
  <2>2. DOMAIN f = 0 .. Len(es) /\ f = [n \in 0 .. Len(es) |-> f[n]]
    OBVIOUS
  <2>. QED
    BY <2>1, <2>2
<1>5. h = Upto(h)
  BY <1>4
<1>6. ByteLen(es) = h[Len(es)]
  BY DEF ByteLen
<1>. HIDE DEF h
<1>7. h[0] = 0 /\ DOMAIN h = 0 .. Len(es) /\ \A n \in 1 .. Len(es) : h[n] = h[n - 1] + es[n][2]
  <2>1. 0 \in 0 .. Len(es) /\ \A n \in 1 .. Len(es) : n \in 0 .. Len(es) /\ n # 0
    BY ONLY <1>1
  <2>. QED
    BY ONLY <1>5, <2>1
<1>8. \A n \in Nat : n \in {k \in Nat : k <= Len(es) => h[k] = f[k]}
  <2>. DEFINE P == {k \in Nat : k <= Len(es) => h[k] = f[k]}
  <2>1. 0 \in P
    BY <1>7, <1>3 DEF Builds
  <2>2. ASSUME NEW n \in Nat, n \in P PROVE n + 1 \in P
    <3>1. SUFFICES ASSUME n + 1 <= Len(es) PROVE h[n + 1] = f[n + 1]
      OBVIOUS
    <3>2. n + 1 \in 1 .. Len(es) /\ (n + 1) - 1 = n /\ h[n] = f[n] /\ n \in 0 .. Len(es)
      BY <2>2, <3>1, <1>1
    <3>3. f[n + 1] = ByteStep(es)[<<n + 1, f[(n + 1) - 1]>>]
      BY <3>2, <1>3 DEF Builds
    <3>4. h[n + 1] = h[n] + es[n + 1][2]
      BY <3>2, <1>7
    <3>. QED
      BY <3>2, <3>3, <3>4 DEF ByteStep
  <2>. HIDE DEF P
  <2>3. \A n \in Nat : n \in P
    BY <2>1, <2>2, SetInduction
  <2>. QED
    BY <2>3 DEF P
<1>. QED
  BY <1>1, <1>3, <1>6, <1>8

\* The lines of a file, entry by entry.
LEMMA LinesBuilt ==
    ASSUME NEW es \in Seq(Entries)
    PROVE  \E f \in [0 .. Len(es) -> Seq(Nat)] : Builds(f, <<>>, LineStep(es), Len(es)) /\ Lines(es) = f[Len(es)]
<1>1. Len(es) \in Nat /\ \A n \in 1 .. Len(es) : es[n] \in Entries
  OBVIOUS
<1>2. LineStep(es) \in [(1 .. Len(es)) \X Seq(Nat) -> Seq(Nat)]
  <2>1. ASSUME NEW p \in (1 .. Len(es)) \X Seq(Nat)
        PROVE  (IF IsLine(es[p[1]]) THEN Append(p[2], es[p[1]][1]) ELSE p[2]) \in Seq(Nat)
    <3>1. p[1] \in 1 .. Len(es) /\ p[2] \in Seq(Nat) /\ es[p[1]][1] \in Nat
      BY <1>1 DEF Entries
    <3>2. Append(p[2], es[p[1]][1]) \in Seq(Nat)
      BY ONLY <3>1
    <3>. QED
      BY <3>1, <3>2
  <2>. QED
    BY ONLY <2>1 DEF LineStep
<1>3. PICK f \in [0 .. Len(es) -> Seq(Nat)] : Builds(f, <<>>, LineStep(es), Len(es))
  <2>1. <<>> \in Seq(Nat)
    OBVIOUS
  <2>2. PICK S, G, N, x : S = Seq(Nat) /\ G = LineStep(es) /\ N = Len(es) /\ x = <<>>
    OBVIOUS
  <2>3. x \in S /\ N \in Nat /\ G \in [(1 .. N) \X S -> S]
    BY ONLY <1>1, <1>2, <2>1, <2>2
  <2>4. \E f \in [0 .. N -> S] : Builds(f, x, G, N)
    BY ONLY <2>3, BuildsExists
  <2>. QED
    BY ONLY <2>2, <2>4
<1>. DEFINE Upto(g) == [n \in 0 .. Len(es) |->
                          IF n = 0 THEN <<>> ELSE IF IsLine(es[n]) THEN Append(g[n - 1], es[n][1]) ELSE g[n - 1]]
            h == CHOOSE g : g = Upto(g)
<1>4. f = Upto(f)
  <2>1. ASSUME NEW n \in 0 .. Len(es) PROVE f[n] = Upto(f)[n]
    <3>1. CASE n = 0
      BY <1>3, <3>1 DEF Builds
    <3>2. CASE n # 0
      <4>1. n \in 1 .. Len(es) /\ n - 1 \in 0 .. Len(es)
        BY <1>1, <3>2
      <4>2. f[n] = LineStep(es)[<<n, f[n - 1]>>]
        BY <4>1, <1>3 DEF Builds
      <4>. QED
        BY <4>1, <4>2, <3>2 DEF LineStep
    <3>. QED
      BY <3>1, <3>2
  <2>2. DOMAIN f = 0 .. Len(es) /\ f = [n \in 0 .. Len(es) |-> f[n]]
    OBVIOUS
  <2>. QED
    BY <2>1, <2>2
<1>5. h = Upto(h)
  BY <1>4
<1>6. Lines(es) = h[Len(es)]
  BY DEF Lines
<1>. HIDE DEF h
<1>7. /\ h[0] = <<>> /\ DOMAIN h = 0 .. Len(es)
      /\ \A n \in 1 .. Len(es) : h[n] = IF IsLine(es[n]) THEN Append(h[n - 1], es[n][1]) ELSE h[n - 1]
  <2>1. 0 \in 0 .. Len(es) /\ \A n \in 1 .. Len(es) : n \in 0 .. Len(es) /\ n # 0
    BY ONLY <1>1
  <2>. QED
    BY ONLY <1>5, <2>1
<1>8. \A n \in Nat : n \in {k \in Nat : k <= Len(es) => h[k] = f[k]}
  <2>. DEFINE P == {k \in Nat : k <= Len(es) => h[k] = f[k]}
  <2>1. 0 \in P
    BY <1>7, <1>3 DEF Builds
  <2>2. ASSUME NEW n \in Nat, n \in P PROVE n + 1 \in P
    <3>1. SUFFICES ASSUME n + 1 <= Len(es) PROVE h[n + 1] = f[n + 1]
      OBVIOUS
    <3>2. n + 1 \in 1 .. Len(es) /\ (n + 1) - 1 = n /\ h[n] = f[n] /\ n \in 0 .. Len(es)
      BY <2>2, <3>1, <1>1
    <3>3. f[n + 1] = LineStep(es)[<<n + 1, f[(n + 1) - 1]>>]
      BY <3>2, <1>3 DEF Builds
    <3>4. h[n + 1] = IF IsLine(es[n + 1]) THEN Append(h[n], es[n + 1][1]) ELSE h[n]
      BY <3>2, <1>7
    <3>. QED
      BY <3>2, <3>3, <3>4 DEF LineStep
  <2>. HIDE DEF P
  <2>3. \A n \in Nat : n \in P
    BY <2>1, <2>2, SetInduction
  <2>. QED
    BY <2>3 DEF P
<1>. QED
  BY <1>1, <1>3, <1>6, <1>8

\* A file just made.
LEMMA EmptyFile == ByteLen(<<>>) = 0 /\ Lines(<<>>) = <<>>
<1>1. <<>> \in Seq(Entries) /\ Len(<<>>) = 0
  OBVIOUS
<1>2. PICK es : es = <<>>
  OBVIOUS
<1>3. es \in Seq(Entries) /\ Len(es) = 0
  BY <1>1, <1>2
<1>4. PICK f \in [0 .. Len(es) -> Nat] : Builds(f, 0, ByteStep(es), Len(es)) /\ ByteLen(es) = f[Len(es)]
  BY ONLY <1>3, BytesBuilt
<1>5. PICK g \in [0 .. Len(es) -> Seq(Nat)] : Builds(g, <<>>, LineStep(es), Len(es)) /\ Lines(es) = g[Len(es)]
  BY ONLY <1>3, LinesBuilt
<1>6. ByteLen(es) = 0 /\ Lines(es) = <<>>
  BY ONLY <1>3, <1>4, <1>5 DEF Builds
<1>. QED
  BY ONLY <1>2, <1>6

\* A file has a size and a sequence of lines.
LEMMA FileTypes ==
    ASSUME NEW es \in Seq(Entries)
    PROVE  ByteLen(es) \in Nat /\ Lines(es) \in Seq(Nat)
<1>1. PICK f \in [0 .. Len(es) -> Nat] : Builds(f, 0, ByteStep(es), Len(es)) /\ ByteLen(es) = f[Len(es)]
  BY ONLY es \in Seq(Entries), BytesBuilt
<1>2. PICK g \in [0 .. Len(es) -> Seq(Nat)] : Builds(g, <<>>, LineStep(es), Len(es)) /\ Lines(es) = g[Len(es)]
  BY ONLY es \in Seq(Entries), LinesBuilt
<1>3. Len(es) \in 0 .. Len(es)
  OBVIOUS
<1>. QED
  BY ONLY <1>1, <1>2, <1>3

\* What one more entry adds.
LEMMA OneMore ==
    ASSUME NEW es \in Seq(Entries), NEW e \in Entries
    PROVE  /\ ByteLen(Append(es, e)) = ByteLen(es) + e[2]
           /\ Lines(Append(es, e)) = IF IsLine(e) THEN Append(Lines(es), e[1]) ELSE Lines(es)
<1>1. PICK fs : fs = Append(es, e)
  OBVIOUS
<1>2. PICK N : N = Len(es)
  OBVIOUS
<1>3. /\ fs \in Seq(Entries) /\ N \in Nat /\ Len(fs) = N + 1 /\ fs[N + 1] = e
      /\ \A n \in 1 .. N : fs[n] = es[n]
  BY <1>1, <1>2
<1>4. PICK f \in [0 .. Len(es) -> Nat] : Builds(f, 0, ByteStep(es), Len(es)) /\ ByteLen(es) = f[Len(es)]
  BY ONLY es \in Seq(Entries), BytesBuilt
<1>5. PICK g \in [0 .. Len(fs) -> Nat] : Builds(g, 0, ByteStep(fs), Len(fs)) /\ ByteLen(fs) = g[Len(fs)]
  BY ONLY <1>3, BytesBuilt
<1>6. PICK h \in [0 .. Len(es) -> Seq(Nat)] : Builds(h, <<>>, LineStep(es), Len(es)) /\ Lines(es) = h[Len(es)]
  BY ONLY es \in Seq(Entries), LinesBuilt
<1>7. PICK k \in [0 .. Len(fs) -> Seq(Nat)] : Builds(k, <<>>, LineStep(fs), Len(fs)) /\ Lines(fs) = k[Len(fs)]
  BY ONLY <1>3, LinesBuilt
<1>8. \A n \in Nat : n \in {m \in Nat : m <= N => g[m] = f[m] /\ k[m] = h[m]}
  <2>. DEFINE P == {m \in Nat : m <= N => g[m] = f[m] /\ k[m] = h[m]}
  <2>1. 0 \in P
    BY ONLY <1>4, <1>5, <1>6, <1>7 DEF Builds, P
  <2>2. ASSUME NEW n \in Nat, n \in P PROVE n + 1 \in P
    <3>1. SUFFICES ASSUME n + 1 <= N PROVE g[n + 1] = f[n + 1] /\ k[n + 1] = h[n + 1]
      OBVIOUS
    <3>2. /\ n + 1 \in 1 .. N /\ n + 1 \in 1 .. Len(fs) /\ n + 1 \in 1 .. Len(es) /\ (n + 1) - 1 = n
          /\ g[n] = f[n] /\ k[n] = h[n] /\ n \in 0 .. Len(es) /\ n \in 0 .. Len(fs) /\ fs[n + 1] = es[n + 1]
      BY <2>2, <3>1, <1>2, <1>3
    <3>3. f[n + 1] = ByteStep(es)[<<n + 1, f[n]>>] /\ g[n + 1] = ByteStep(fs)[<<n + 1, g[n]>>]
      BY ONLY <3>2, <1>4, <1>5 DEF Builds
    <3>4. h[n + 1] = LineStep(es)[<<n + 1, h[n]>>] /\ k[n + 1] = LineStep(fs)[<<n + 1, k[n]>>]
      BY ONLY <3>2, <1>6, <1>7 DEF Builds
    <3>5. f[n] \in Nat /\ h[n] \in Seq(Nat) /\ g[n] \in Nat /\ k[n] \in Seq(Nat)
      BY ONLY <3>2, <1>4, <1>5, <1>6, <1>7
    <3>6. g[n + 1] = f[n + 1]
      BY ONLY <3>2, <3>3, <3>5 DEF ByteStep
    <3>7. k[n + 1] = h[n + 1]
      BY ONLY <3>2, <3>4, <3>5 DEF LineStep
    <3>. QED
      BY ONLY <3>6, <3>7
  <2>. HIDE DEF P
  <2>3. \A n \in Nat : n \in P
    BY <2>1, <2>2, SetInduction
  <2>. QED
    BY <2>3 DEF P
<1>9. g[N] = f[N] /\ k[N] = h[N] /\ N + 1 \in 1 .. Len(fs) /\ (N + 1) - 1 = N /\ N \in 0 .. Len(fs)
  <2>1. N <= N /\ N \in {m \in Nat : m <= N => g[m] = f[m] /\ k[m] = h[m]}
    BY ONLY <1>3, <1>8
  <2>2. g[N] = f[N] /\ k[N] = h[N]
    BY ONLY <2>1
  <2>. QED
    BY ONLY <1>3, <2>2
<1>10. g[N + 1] = ByteStep(fs)[<<N + 1, g[N]>>] /\ k[N + 1] = LineStep(fs)[<<N + 1, k[N]>>]
  BY ONLY <1>5, <1>7, <1>9 DEF Builds
<1>11. g[N] \in Nat /\ k[N] \in Seq(Nat)
  BY ONLY <1>5, <1>7, <1>9
<1>12. g[N + 1] = g[N] + e[2]
  BY ONLY <1>3, <1>9, <1>10, <1>11 DEF ByteStep
<1>13. k[N + 1] = IF IsLine(e) THEN Append(k[N], e[1]) ELSE k[N]
  BY ONLY <1>3, <1>9, <1>10, <1>11 DEF LineStep
<1>14. ByteLen(fs) = g[N + 1] /\ ByteLen(es) = g[N] /\ Lines(fs) = k[N + 1] /\ Lines(es) = k[N]
  BY ONLY <1>2, <1>3, <1>4, <1>5, <1>6, <1>7, <1>9
<1>15. ByteLen(fs) = ByteLen(es) + e[2]
  BY ONLY <1>12, <1>14
<1>16. Lines(fs) = IF IsLine(e) THEN Append(Lines(es), e[1]) ELSE Lines(es)
  BY ONLY <1>13, <1>14
<1>. QED
  BY ONLY <1>1, <1>15, <1>16

-----------------------------------------------------------------------------
(* The lines of a file, and its bytes without the markers                  *)

\* Sequences are equal element by element.
LEMMA SameSequence ==
    ASSUME NEW S, NEW a \in Seq(S), NEW b \in Seq(S), Len(a) = Len(b), \A i \in 1 .. Len(a) : a[i] = b[i]
    PROVE  a = b
OBVIOUS

\* A run of lines and the next one.
LEMMA RunAppend ==
    ASSUME NEW a \in Nat, NEW b \in Nat, a <= b + 1
    PROVE  Append(Run(a, b), b + 1) = Run(a, b + 1)
<1>1. Run(a, b) \in Seq(Nat) /\ Len(Run(a, b)) = b - a + 1
  BY DEF Run
<1>2. Len(Run(a, b + 1)) = b - a + 2 /\ Run(a, b + 1) \in Seq(Nat)
  BY DEF Run
<1>3. /\ Append(Run(a, b), b + 1) \in Seq(Nat) /\ Len(Append(Run(a, b), b + 1)) = b - a + 2
      /\ \A i \in 1 .. b - a + 1 : Append(Run(a, b), b + 1)[i] = Run(a, b)[i]
      /\ Append(Run(a, b), b + 1)[b - a + 2] = b + 1
  BY <1>1
<1>4. \A i \in 1 .. b - a + 2 : Append(Run(a, b), b + 1)[i] = Run(a, b + 1)[i]
  BY <1>3 DEF Run
<1>. QED
  BY <1>2, <1>3, <1>4

\* Two runs that meet are one.
LEMMA RunConcat ==
    ASSUME NEW a \in Nat, NEW b \in Nat \ {0}, NEW c \in Nat, a <= b, b <= c + 1
    PROVE  Run(a, b - 1) \o Run(b, c) = Run(a, c)
<1>1. Run(a, b - 1) \in Seq(Nat) /\ Len(Run(a, b - 1)) = b - a
  BY DEF Run
<1>2. Run(b, c) \in Seq(Nat) /\ Len(Run(b, c)) = c - b + 1
  BY DEF Run
<1>3. Run(a, c) \in Seq(Nat) /\ Len(Run(a, c)) = c - a + 1
  BY DEF Run
<1>4. PICK p, q, s, t : p = Run(a, b - 1) /\ q = Run(b, c) /\ s = p \o q /\ t = Run(a, c)
  OBVIOUS
<1>5. p \in Seq(Nat) /\ q \in Seq(Nat) /\ Len(p) = b - a /\ Len(q) = c - b + 1
  BY <1>1, <1>2, <1>4
<1>6. /\ s \in Seq(Nat) /\ Len(s) = Len(p) + Len(q)
      /\ \A i \in 1 .. Len(p) + Len(q) : s[i] = IF i <= Len(p) THEN p[i] ELSE q[i - Len(p)]
  BY ONLY <1>4, <1>5, ConcatProperties
<1>7. Len(s) = c - a + 1
  BY <1>5, <1>6
<1>8. ASSUME NEW i \in 1 .. Len(s) PROVE s[i] = t[i]
  <2>1. i \in 1 .. c - a + 1 /\ t[i] = a + i - 1
    BY <1>7, <1>4 DEF Run
  <2>2. CASE i <= b - a
    <3>1. s[i] = p[i] /\ p[i] = a + i - 1
      BY <1>4, <1>5, <1>6, <2>1, <2>2 DEF Run
    <3>. QED
      BY <2>1, <3>1
  <2>3. CASE ~(i <= b - a)
    <3>1. s[i] = q[i - (b - a)] /\ i - (b - a) \in 1 .. c - b + 1
      <4>1. i \in 1 .. Len(p) + Len(q) /\ ~(i <= Len(p))
        BY ONLY <1>5, <1>6, <1>8, <2>3
      <4>2. s[i] = q[i - Len(p)]
        BY ONLY <4>1, <1>6
      <4>. QED
        BY <4>1, <4>2, <1>5, <2>1, <2>3
    <3>2. PICK m : m = i - (b - a)
      OBVIOUS
    <3>3. m \in 1 .. c - b + 1
      BY ONLY <3>1, <3>2
    <3>4. q[m] = b + m - 1
      BY ONLY <1>4, <3>3 DEF Run
    <3>. QED
      BY <2>1, <3>1, <3>2, <3>3, <3>4
  <2>. QED
    BY <2>2, <2>3
<1>9. t \in Seq(Nat) /\ Len(t) = Len(s)
  BY <1>3, <1>4, <1>7
<1>10. s = t
  BY ONLY <1>6, <1>8, <1>9, SameSequence
<1>. QED
  BY <1>4, <1>10

\* A run that ends before it begins.
LEMMA RunEmpty == ASSUME NEW a \in Nat PROVE Run(a + 1, a) = <<>>
BY DEF Run

\* A file without its markers.
LEMMA UnmarkedType == ASSUME NEW es \in Seq(Entries) PROVE Unmarked(es) \in Seq(Entries)
<1>1. Len(es) \in Nat /\ DOMAIN es = 1 .. Len(es) /\ \A n \in 1 .. Len(es) : es[n] \in Entries
  OBVIOUS
<1>2. <<0, 0>> \in Entries
  BY DEF Entries
<1>. QED
  BY <1>1, <1>2 DEF Unmarked

\* What one more entry adds to the bytes of the lines.
LEMMA LineBytesMore ==
    ASSUME NEW es \in Seq(Entries), NEW e \in Entries
    PROVE  LineBytes(Append(es, e)) = IF IsLine(e) THEN LineBytes(es) + e[2] ELSE LineBytes(es)
<1>. DEFINE u == IF IsLine(e) THEN e ELSE <<0, 0>>
<1>1. u \in Entries
  BY DEF Entries
<1>2. Unmarked(Append(es, e)) = Append(Unmarked(es), u)
  <2>1. PICK fs, us : fs = Append(es, e) /\ us = Unmarked(es)
    OBVIOUS
  <2>2. /\ fs \in Seq(Entries) /\ Len(fs) = Len(es) + 1 /\ fs[Len(es) + 1] = e /\ DOMAIN fs = 1 .. Len(fs)
        /\ \A n \in 1 .. Len(es) : fs[n] = es[n]
    BY <2>1
  <2>3. us \in Seq(Entries) /\ Len(us) = Len(es) /\ \A n \in 1 .. Len(es) : us[n] = IF IsLine(es[n]) THEN es[n] ELSE <<0, 0>>
    <3>1. us \in Seq(Entries)
      BY <2>1, UnmarkedType
    <3>2. DOMAIN us = 1 .. Len(es) /\ Len(es) \in Nat
      BY <2>1 DEF Unmarked
    <3>. QED
      BY <2>1, <3>1, <3>2 DEF Unmarked
  <2>4. PICK a, b : a = Unmarked(fs) /\ b = Append(us, u)
    OBVIOUS
  <2>5. a \in Seq(Entries) /\ Len(a) = Len(fs) /\ \A n \in 1 .. Len(fs) : a[n] = IF IsLine(fs[n]) THEN fs[n] ELSE <<0, 0>>
    <3>1. a \in Seq(Entries)
      BY <2>2, <2>4, UnmarkedType
    <3>2. DOMAIN a = 1 .. Len(fs) /\ Len(fs) \in Nat
      BY <2>2, <2>4 DEF Unmarked
    <3>. QED
      BY <2>2, <2>4, <3>1, <3>2 DEF Unmarked
  <2>6. b \in Seq(Entries) /\ Len(b) = Len(es) + 1 /\ b[Len(es) + 1] = u /\ \A n \in 1 .. Len(es) : b[n] = us[n]
    BY <2>3, <2>4, <1>1
  <2>7. ASSUME NEW n \in 1 .. Len(fs) PROVE a[n] = b[n]
    <3>1. CASE n = Len(es) + 1
      BY <3>1, <2>5, <2>6, <2>2
    <3>2. CASE n # Len(es) + 1
      <4>1. n \in 1 .. Len(es)
        BY <3>2, <2>2
      <4>. QED
        BY ONLY <4>1, <2>7, <2>2, <2>3, <2>5, <2>6
    <3>. QED
      BY <3>1, <3>2
  <2>8. Len(a) = Len(b)
    BY ONLY <2>2, <2>5, <2>6
  <2>9. a = b
    BY ONLY <2>5, <2>6, <2>7, <2>8, SameSequence
  <2>. QED
    BY ONLY <2>1, <2>4, <2>9
<1>3. LineBytes(Append(es, e)) = ByteLen(Unmarked(Append(es, e))) /\ LineBytes(es) = ByteLen(Unmarked(es))
  BY DEF LineBytes
<1>. HIDE DEF u
<1>4. PICK us : us = Unmarked(es)
  OBVIOUS
<1>5. us \in Seq(Entries)
  BY <1>4, UnmarkedType
<1>6. ByteLen(Append(us, u)) = ByteLen(us) + u[2] /\ ByteLen(us) \in Nat
  BY ONLY <1>1, <1>5, OneMore, FileTypes
<1>7. u[2] = IF IsLine(e) THEN e[2] ELSE 0
  BY DEF u
<1>. QED
  BY ONLY <1>2, <1>3, <1>4, <1>6, <1>7

-----------------------------------------------------------------------------
(* The inductive invariant of the log files                                *)

FilesType ==
    /\ dir \in [Names -> Nat] /\ data \in Seq(Seq(Entries))
    /\ wr \in [pc : {"none", "open", "rotate", "reopened"}, i : -1 .. MaxFile, s : Nat]
    /\ written \in Nat /\ total \in 0 .. MaxLines /\ crashes \in 0 .. MaxCrashes
EntriesOK ==
    \A f \in DOMAIN data : \A i \in DOMAIN data[f] :
        data[f][i] = Marker \/ data[f][i] \in (1 .. total) \X Sizes

\* No file has two names.
NamesOK ==
    /\ \A n \in Names : dir[n] <= Len(data)
    /\ \A n, m \in Names : dir[n] = dir[m] /\ dir[n] # 0 => n = m

\* A rotation has left the name it comes to empty, and at its end the active one.
WriterOK ==
    /\ wr.pc = "open" => dir[0] # 0 /\ written = ByteLen(data[dir[0]])
    /\ wr.pc \in {"rotate", "reopened"} => wr.s \in Sizes /\ total < MaxLines
    /\ wr.pc = "rotate" => wr.i <= FirstMove /\ (wr.i < FirstMove => dir[wr.i + 1] = 0)
    /\ wr.pc = "reopened" => dir[0] # 0 /\ data[dir[0]] = <<>> /\ written = 0

\* The lines by name: that of n are from lo[n + 1] up to, not including, lo[n].
Layout(lo) ==
    /\ lo[0] = total + 1
    /\ \A n \in Names :
        /\ lo[n + 1] <= lo[n]
        /\ dir[n] = 0 => lo[n + 1] = lo[n]
        /\ dir[n] # 0 => Lines(data[dir[n]]) = Run(lo[n + 1], lo[n] - 1)
LayoutOK == \E lo \in [0 .. Oldest + 1 -> 1 .. total + 1] : Layout(lo)

SizesOK == \A f \in DOMAIN data : LineBytes(data[f]) <= ByteLen(data[f])

FilesInv == FilesType /\ EntriesOK /\ NamesOK /\ WriterOK /\ LayoutOK /\ SizesOK /\ SizeBounded

\* The names there are.
LEMMA OldestFacts ==
    /\ Oldest \in Nat /\ Names = 0 .. Oldest /\ 0 \in Names
    /\ FirstMove \in Nat /\ FirstMove <= MaxFile
    /\ MaxFile <= 1 => Oldest = 0 /\ FirstMove = 0
    /\ ~(MaxFile <= 1) => Oldest = FirstMove + 1
BY LogFileAssumption DEF Oldest, Names, FirstMove

\* No file yet.
LEMMA FilesInit == LogInit => FilesInv
<1>1. SUFFICES ASSUME LogInit PROVE FilesInv
  OBVIOUS
<1>2. FilesType
  BY <1>1, LogFileAssumption, OldestFacts DEF LogInit, FilesType, NoWriter
<1>3. EntriesOK /\ SizesOK /\ SizeBounded
  BY <1>1 DEF LogInit, EntriesOK, SizesOK, SizeBounded
<1>4. NamesOK
  BY <1>1, OldestFacts DEF LogInit, NamesOK
<1>5. WriterOK
  BY <1>1 DEF LogInit, WriterOK, NoWriter
<1>6. LayoutOK
  <2>. DEFINE lo == [n \in 0 .. Oldest + 1 |-> 1]
  <2>1. lo \in [0 .. Oldest + 1 -> 1 .. total + 1]
    BY <1>1 DEF LogInit
  <2>2. Layout(lo)
    BY <1>1, OldestFacts DEF LogInit, Layout
  <2>. QED
    BY <2>1, <2>2 DEF LayoutOK
<1>. QED
  BY <1>2, <1>3, <1>4, <1>5, <1>6 DEF FilesInv

\* An entry of size s > 0 is added to the active file.
LEMMA AppendKeepsFiles ==
    ASSUME FilesInv, dir[0] # 0, NEW e \in Entries, AppendEntry(e), UNCHANGED dir,
           \/ e = Marker /\ total' = total
           \/ e = <<total + 1, e[2]>> /\ e[2] \in Sizes /\ total < MaxLines /\ total' = total + 1,
           IsLine(e) => Lines(data[dir[0]]) = <<>> \/ Within(ByteLen(data[dir[0]]) + e[2])
    PROVE  EntriesOK' /\ NamesOK' /\ LayoutOK' /\ SizesOK' /\ SizeBounded' /\ data' \in Seq(Seq(Entries))
<1>. DEFINE a == dir[0]
<1>1. /\ FilesType /\ EntriesOK /\ NamesOK /\ LayoutOK /\ SizesOK /\ SizeBounded
      /\ a \in 1 .. Len(data) /\ data \in Seq(Seq(Entries)) /\ data[a] \in Seq(Entries) /\ total \in Nat
  BY OldestFacts DEF FilesInv, FilesType, NamesOK
<1>2. data' = [data EXCEPT ![a] = Append(@, e)]
  BY DEF AppendEntry
<1>3. /\ Append(data[a], e) \in Seq(Entries) /\ DOMAIN data = 1 .. Len(data)
      /\ data' \in Seq(Seq(Entries)) /\ Len(data') = Len(data) /\ data'[a] = Append(data[a], e)
      /\ \A f \in 1 .. Len(data) : f # a => data'[f] = data[f]
      /\ DOMAIN data' = DOMAIN data
  BY ONLY <1>1, <1>2, e \in Entries
<1>4. /\ ByteLen(Append(data[a], e)) = ByteLen(data[a]) + e[2]
      /\ Lines(Append(data[a], e)) = IF IsLine(e) THEN Append(Lines(data[a]), e[1]) ELSE Lines(data[a])
      /\ ByteLen(data[a]) \in Nat /\ Lines(data[a]) \in Seq(Nat)
      /\ LineBytes(Append(data[a], e)) = IF IsLine(e) THEN LineBytes(data[a]) + e[2] ELSE LineBytes(data[a])
      /\ LineBytes(data[a]) \in Nat
  <2>1. PICK es : es = data[a]
    OBVIOUS
  <2>2. es \in Seq(Entries)
    BY ONLY <1>1, <2>1
  <2>3. Unmarked(es) \in Seq(Entries)
    BY ONLY <2>2, UnmarkedType
  <2>4. LineBytes(es) \in Nat
    BY ONLY <2>3, FileTypes DEF LineBytes
  <2>. QED
    BY ONLY <2>1, <2>2, <2>4, e \in Entries, OneMore, FileTypes, LineBytesMore
<1>a. a = dir[0] /\ a # 0 /\ total \in Nat /\ Len(data) \in Nat /\ Oldest \in Nat /\ Names = 0 .. Oldest
  BY <1>1, OldestFacts
<1>b. /\ \A n \in Names : dir[n] \in Nat /\ dir[n] <= Len(data)
      /\ \A n \in Names : dir[n] = dir[0] /\ dir[n] # 0 => n = 0
  BY <1>1, OldestFacts DEF NamesOK, FilesType
<1>. HIDE DEF a
<1>5. total' \in Nat /\ total <= total' /\ e[1] \in Nat /\ e[2] \in Nat
  BY <1>1 DEF Entries
<1>6. EntriesOK'
  <2>1. SUFFICES ASSUME NEW f \in 1 .. Len(data), NEW i \in DOMAIN data'[f]
                 PROVE  data'[f][i] = Marker \/ data'[f][i] \in (1 .. total') \X Sizes
    BY <1>3 DEF EntriesOK
  <2>2. ASSUME NEW x, x = Marker \/ x \in (1 .. total) \X Sizes PROVE x = Marker \/ x \in (1 .. total') \X Sizes
    BY <2>2, <1>1, <1>5
  <2>3. CASE f # a
    BY <2>1, <2>2, <2>3, <1>1, <1>3 DEF EntriesOK
  <2>4. CASE f = a
    <3>1. i \in 1 .. Len(data[a]) + 1 /\ Len(data[a]) \in Nat
      BY <2>1, <2>4, <1>3, <1>1
    <3>2. CASE i \in 1 .. Len(data[a])
      <4>1. data'[f][i] = data[a][i] /\ i \in DOMAIN data[a] /\ a \in DOMAIN data
        BY <3>2, <2>4, <1>3, <1>1
      <4>. QED
        BY <4>1, <2>2, <1>1 DEF EntriesOK
    <3>3. CASE i = Len(data[a]) + 1
      <4>1. data'[f][i] = e
        BY <3>3, <2>4, <1>3, <1>1
      <4>2. e = Marker \/ e \in (1 .. total') \X Sizes
        BY <1>1, <1>5
      <4>. QED
        BY <4>1, <4>2
    <3>. QED
      BY <3>1, <3>2, <3>3
  <2>. QED
    BY <2>3, <2>4
<1>7. NamesOK'
  BY <1>1, <1>3 DEF NamesOK
<1>8. SizesOK'
  <2>1. ASSUME NEW f \in 1 .. Len(data) PROVE LineBytes(data'[f]) <= ByteLen(data'[f])
    <3>1. CASE f # a
      BY <3>1, <1>1, <1>3 DEF SizesOK
    <3>2. CASE f = a
      <4>1. LineBytes(data[a]) <= ByteLen(data[a])
        BY <1>1, <1>3 DEF SizesOK
      <4>. QED
        BY <4>1, <3>2, <1>3, <1>4, <1>5
    <3>. QED
      BY <3>1, <3>2
  <2>. QED
    BY <2>1, <1>3 DEF SizesOK
<1>9. SizeBounded'
  <2>1. ASSUME NEW f \in 1 .. Len(data) PROVE Len(Lines(data'[f])) <= 1 \/ Within(LineBytes(data'[f]))
    <3>1. CASE f # a
      BY <3>1, <1>1, <1>3 DEF SizeBounded
    <3>2. CASE f = a /\ ~IsLine(e)
      <4>1. Len(Lines(data[a])) <= 1 \/ Within(LineBytes(data[a]))
        BY <1>1, <1>3 DEF SizeBounded
      <4>. QED
        BY <4>1, <3>2, <1>3, <1>4
    <3>3. CASE f = a /\ IsLine(e) /\ Lines(data[a]) = <<>>
      <4>1. Lines(data'[f]) = Append(<<>>, e[1])
        BY <3>3, <1>3, <1>4
      <4>2. Len(Append(<<>>, e[1])) = 1
        OBVIOUS
      <4>. QED
        BY <4>1, <4>2
    <3>4. CASE f = a /\ IsLine(e) /\ Within(ByteLen(data[a]) + e[2])
      <4>1. LineBytes(data[a]) <= ByteLen(data[a])
        BY <1>1, <1>3 DEF SizesOK
      <4>2. LineBytes(data'[f]) = LineBytes(data[a]) + e[2]
        BY <3>4, <1>3, <1>4
      <4>. QED
        BY <4>1, <4>2, <3>4, <1>4, <1>5, LogFileAssumption DEF Within
    <3>. QED
      BY <1>a, <3>1, <3>2, <3>3, <3>4
  <2>. QED
    BY <2>1, <1>3 DEF SizeBounded
<1>10. LayoutOK'
  <2>1. PICK lo \in [0 .. Oldest + 1 -> 1 .. total + 1] : Layout(lo)
    BY <1>1 DEF LayoutOK
  <2>. DEFINE m == [lo EXCEPT ![0] = total' + 1]
  <2>2. /\ m \in [0 .. Oldest + 1 -> 1 .. total' + 1] /\ m[0] = total' + 1
        /\ \A n \in Names : m[n + 1] = lo[n + 1] /\ (n # 0 => m[n] = lo[n])
    <3>1. /\ 1 .. total + 1 \subseteq 1 .. total' + 1 /\ total' + 1 \in 1 .. total' + 1 /\ 0 \in 0 .. Oldest + 1
          /\ \A n \in Names : n + 1 \in 0 .. Oldest + 1 /\ n \in 0 .. Oldest + 1 /\ n + 1 # 0
      <4>1. PICK t, u, d : t = total /\ u = total' /\ d = Oldest
        OBVIOUS
      <4>2. t \in Nat /\ u \in Nat /\ t <= u /\ d \in Nat
        BY ONLY <1>a, <1>5, <4>1
      <4>3. /\ 1 .. t + 1 \subseteq 1 .. u + 1 /\ u + 1 \in 1 .. u + 1 /\ 0 \in 0 .. d + 1
            /\ \A n \in 0 .. d : n + 1 \in 0 .. d + 1 /\ n \in 0 .. d + 1 /\ n + 1 # 0
        BY ONLY <4>2
      <4>. QED
        BY ONLY <1>a, <4>1, <4>3
    <3>. QED
      BY ONLY <3>1, lo \in [0 .. Oldest + 1 -> 1 .. total + 1]
  <2>. HIDE DEF m
  <2>3. ASSUME NEW n \in Names
        PROVE  /\ m[n + 1] <= m[n]
               /\ dir[n] = 0 => m[n + 1] = m[n]
               /\ dir[n] # 0 => Lines(data'[dir[n]]) = Run(m[n + 1], m[n] - 1)
    <3>1. /\ lo[n + 1] <= lo[n] /\ (dir[n] = 0 => lo[n + 1] = lo[n]) /\ lo[n] \in Nat /\ lo[n + 1] \in Nat
          /\ dir[n] # 0 => Lines(data[dir[n]]) = Run(lo[n + 1], lo[n] - 1)
          /\ n \in Nat /\ lo[0] = total + 1
      BY <2>1, OldestFacts DEF Layout
    <3>2. CASE n # 0
      <4>1. dir[n] # a /\ (dir[n] # 0 => dir[n] \in 1 .. Len(data))
        <5>1. dir[n] \in Nat /\ dir[n] <= Len(data) /\ (dir[n] = dir[0] /\ dir[n] # 0 => n = 0) /\ Len(data) \in Nat
          BY ONLY <1>a, <1>b, n \in Names
        <5>. QED
          BY ONLY <5>1, <1>a, <3>2
      <4>2. m[n] = lo[n] /\ m[n + 1] = lo[n + 1]
        BY <2>2, <3>2
      <4>. QED
        BY <4>1, <4>2, <3>1, <1>3
    <3>3. CASE n = 0
      <4>1. lo[1] <= total + 1 /\ Lines(data[a]) = Run(lo[1], total) /\ m[1] = lo[1] /\ lo[1] \in Nat
            /\ m[0] = total' + 1
        BY ONLY <3>1, <3>3, <2>2, <1>1, <1>a, n \in Names
      <4>2. Lines(data'[a]) = Run(lo[1], total')
        <5>1. CASE e = Marker /\ total' = total
          BY <5>1, <4>1, <1>3, <1>4 DEF Marker, IsLine
        <5>2. CASE e = <<total + 1, e[2]>> /\ total' = total + 1
          <6>1. e[1] = total + 1 /\ IsLine(e)
            BY <5>2, <1>1 DEF IsLine
          <6>2. Append(Run(lo[1], total), total + 1) = Run(lo[1], total + 1)
            BY ONLY <4>1, <1>1, RunAppend
          <6>. QED
            BY ONLY <5>2, <6>1, <6>2, <4>1, <1>3, <1>4
        <5>. QED
          BY <5>1, <5>2
      <4>3. dir[0] = a /\ a # 0 /\ m[0] - 1 = total' /\ n + 1 = 1
        <5>1. PICK u : u = total'
          OBVIOUS
        <5>2. u \in Nat /\ m[0] = u + 1
          BY ONLY <1>5, <4>1, <5>1
        <5>3. m[0] - 1 = u /\ n + 1 = 1
          BY ONLY <5>2, <3>3
        <5>. QED
          BY ONLY <1>a, <5>1, <5>3
      <4>. QED
        <5>1. lo[1] <= total' + 1 /\ m[n + 1] = lo[1] /\ m[n] = total' + 1 /\ dir[n] = a
          BY ONLY <1>a, <1>5, <4>1, <4>3, <3>3
        <5>. QED
          BY ONLY <5>1, <4>2, <4>3, <3>3
    <3>. QED
      BY <3>2, <3>3
  <2>4. dir' = dir
    OBVIOUS
  <2>. QED
    BY ONLY <2>2, <2>3, <2>4 DEF LayoutOK, Layout
<1>. QED
  BY <1>3, <1>6, <1>7, <1>8, <1>9, <1>10

\* What the invariant says, fact by fact.
LEMMA FilesParts ==
    ASSUME FilesInv
    PROVE  /\ dir \in [Names -> Nat] /\ data \in Seq(Seq(Entries)) /\ Len(data) \in Nat /\ DOMAIN data = 1 .. Len(data)
           /\ wr \in [pc : {"none", "open", "rotate", "reopened"}, i : -1 .. MaxFile, s : Nat]
           /\ written \in Nat /\ total \in 0 .. MaxLines /\ crashes \in 0 .. MaxCrashes /\ total \in Nat
           /\ EntriesOK /\ NamesOK /\ WriterOK /\ LayoutOK /\ SizesOK /\ SizeBounded
           /\ dir[0] \in Nat /\ dir[0] <= Len(data)
BY OldestFacts, LogFileAssumption DEF FilesInv, FilesType, NamesOK

\* The active file is opened, or made.
LEMMA CreateKeepsFiles ==
    ASSUME FilesInv, Create(data), UNCHANGED total
    PROVE  /\ EntriesOK' /\ NamesOK' /\ LayoutOK' /\ SizesOK' /\ SizeBounded'
           /\ dir' \in [Names -> Nat] /\ data' \in Seq(Seq(Entries)) /\ written' \in Nat
           /\ dir'[0] # 0 /\ written' = ByteLen(data'[dir'[0]])
           /\ dir[0] = 0 => data'[dir'[0]] = <<>> /\ written' = 0
<1>1. /\ dir \in [Names -> Nat] /\ data \in Seq(Seq(Entries)) /\ Len(data) \in Nat /\ DOMAIN data = 1 .. Len(data)
      /\ EntriesOK /\ NamesOK /\ LayoutOK /\ SizesOK /\ SizeBounded /\ dir[0] \in Nat /\ dir[0] <= Len(data)
      /\ total \in Nat /\ 0 \in Names /\ Names = 0 .. Oldest /\ Oldest \in Nat
  BY FilesParts, OldestFacts
<1>n. /\ \A n \in Names : dir[n] \in Nat /\ dir[n] <= Len(data)
      /\ Len(data) \in Nat /\ total \in Nat
  BY <1>1 DEF NamesOK
<1>2. CASE dir[0] # 0
  <2>1. dir' = dir /\ data' = data /\ written' = ByteLen(data[dir[0]])
    BY <1>2 DEF Create
  <2>2. data[dir[0]] \in Seq(Entries)
    BY <1>1, <1>2
  <2>3. ByteLen(data[dir[0]]) \in Nat
    BY <2>2, FileTypes
  <2>. QED
    BY <1>1, <1>2, <2>1, <2>3 DEF EntriesOK, NamesOK, LayoutOK, Layout, SizesOK, SizeBounded
<1>3. CASE dir[0] = 0
  <2>1. data' = Append(data, <<>>) /\ dir' = [dir EXCEPT ![0] = Len(data) + 1] /\ written' = 0
    BY <1>3 DEF Create
  <2>2. /\ data' \in Seq(Seq(Entries)) /\ Len(data') = Len(data) + 1 /\ DOMAIN data' = 1 .. Len(data) + 1
        /\ data'[Len(data) + 1] = <<>> /\ \A f \in 1 .. Len(data) : data'[f] = data[f]
    <3>1. <<>> \in Seq(Entries)
      OBVIOUS
    <3>. QED
      BY ONLY <1>1, <2>1, <3>1
  <2>3. dir' \in [Names -> Nat] /\ dir'[0] = Len(data) + 1 /\ \A n \in Names : n # 0 => dir'[n] = dir[n]
    BY ONLY <1>1, <2>1
  <2>4. ASSUME NEW f \in 1 .. Len(data) + 1 PROVE f \in 1 .. Len(data) \/ data'[f] = <<>>
    BY <2>2, <1>1
  <2>5. EntriesOK'
    <3>1. ASSUME NEW f \in 1 .. Len(data) + 1, NEW i \in DOMAIN data'[f]
          PROVE  data'[f][i] = Marker \/ data'[f][i] \in (1 .. total') \X Sizes
      <4>1. CASE f \in 1 .. Len(data)
        BY <4>1, <3>1, <2>2, <1>1 DEF EntriesOK
      <4>2. CASE data'[f] = <<>>
        BY <4>2, <3>1
      <4>. QED
        BY <2>4, <4>1, <4>2
    <3>. QED
      BY <3>1, <2>2 DEF EntriesOK
  <2>6. SizesOK' /\ SizeBounded'
    <3>1. Unmarked(<<>>) = <<>>
      BY DEF Unmarked
    <3>2. LineBytes(<<>>) = 0 /\ ByteLen(<<>>) = 0 /\ Len(Lines(<<>>)) = 0
      BY <3>1, EmptyFile DEF LineBytes
    <3>3. ASSUME NEW f \in 1 .. Len(data) + 1
          PROVE  /\ LineBytes(data'[f]) <= ByteLen(data'[f])
                 /\ Len(Lines(data'[f])) <= 1 \/ Within(LineBytes(data'[f]))
      <4>1. CASE f \in 1 .. Len(data)
        BY <4>1, <2>2, <1>1 DEF SizesOK, SizeBounded
      <4>2. CASE data'[f] = <<>>
        BY <4>2, <3>2
      <4>. QED
        BY <2>4, <4>1, <4>2
    <3>. QED
      BY <3>3, <2>2 DEF SizesOK, SizeBounded
  <2>7. NamesOK'
    <3>1. ASSUME NEW n \in Names PROVE dir'[n] <= Len(data') /\ (n # 0 => dir'[n] <= Len(data) /\ dir'[n] = dir[n])
      <4>1. Len(data') = Len(data) + 1 /\ dir[n] \in Nat /\ dir[n] <= Len(data) /\ Len(data) \in Nat
        BY ONLY <2>2, <1>n, n \in Names
      <4>. QED
        BY ONLY <4>1, <2>3, n \in Names
    <3>2. ASSUME NEW n \in Names, NEW m \in Names, dir'[n] = dir'[m], dir'[n] # 0 PROVE n = m
      <4>1. CASE n = 0 \/ m = 0
        BY <4>1, <3>1, <3>2, <2>3, <1>1
      <4>2. CASE n # 0 /\ m # 0
        BY <4>2, <3>1, <3>2, <1>1 DEF NamesOK
      <4>. QED
        BY <4>1, <4>2
    <3>. QED
      BY <3>1, <3>2 DEF NamesOK
  <2>8. LayoutOK'
    <3>1. PICK lo \in [0 .. Oldest + 1 -> 1 .. total + 1] : Layout(lo)
      BY <1>1 DEF LayoutOK
    <3>2. lo[1] = total + 1 /\ lo[0] = total + 1
      BY <3>1, <1>1, <1>3 DEF Layout
    <3>3. Run(total + 1, total) = <<>>
      BY <1>1, RunEmpty
    <3>4. ASSUME NEW n \in Names
          PROVE  /\ lo[n + 1] <= lo[n]
                 /\ dir'[n] = 0 => lo[n + 1] = lo[n]
                 /\ dir'[n] # 0 => Lines(data'[dir'[n]]) = Run(lo[n + 1], lo[n] - 1)
      <4>1. CASE n # 0
        <5>1. dir'[n] = dir[n] /\ (dir[n] # 0 => data'[dir[n]] = data[dir[n]])
          <6>1. dir[n] \in Nat /\ dir[n] <= Len(data) /\ Len(data) \in Nat
            BY ONLY <1>n, n \in Names
          <6>2. dir[n] # 0 => dir[n] \in 1 .. Len(data)
            BY ONLY <6>1
          <6>. QED
            BY ONLY <6>2, <4>1, <2>2, <2>3, n \in Names
        <5>. QED
          BY <5>1, <3>1 DEF Layout
      <4>2. CASE n = 0
        <5>1. Lines(data'[dir'[0]]) = <<>> /\ n + 1 = 1 /\ (total + 1) - 1 = total /\ dir'[0] # 0
          <6>1. data'[dir'[0]] = <<>> /\ Lines(<<>>) = <<>>
            BY ONLY <2>2, <2>3, EmptyFile
          <6>2. n + 1 = 1 /\ (total + 1) - 1 = total
            BY ONLY <4>2, <1>n
          <6>3. dir'[0] # 0
            BY ONLY <2>3, <1>n
          <6>. QED
            BY ONLY <6>1, <6>2, <6>3
        <5>. QED
          BY ONLY <5>1, <3>2, <3>3, <4>2, <1>1
      <4>. QED
        BY <4>1, <4>2
    <3>5. lo \in [0 .. Oldest + 1 -> 1 .. total' + 1] /\ lo[0] = total' + 1
      BY <3>2
    <3>. QED
      BY ONLY <3>4, <3>5 DEF LayoutOK, Layout
  <2>9. dir'[0] # 0 /\ data'[dir'[0]] = <<>> /\ ByteLen(<<>>) = 0
    BY <2>2, <2>3, <1>1, EmptyFile
  <2>. QED
    BY <2>1, <2>2, <2>3, <2>5, <2>6, <2>7, <2>8, <2>9
<1>. QED
  BY <1>2, <1>3

\* One rename of a rotation.
LEMMA RenameKeepsFiles ==
    ASSUME FilesInv, Rename
    PROVE  FilesInv'
<1>1. /\ dir \in [Names -> Nat] /\ data \in Seq(Seq(Entries)) /\ wr.pc = "rotate"
      /\ wr \in [pc : {"none", "open", "rotate", "reopened"}, i : -1 .. MaxFile, s : Nat]
      /\ EntriesOK /\ NamesOK /\ LayoutOK /\ SizesOK /\ SizeBounded
      /\ total \in Nat /\ 0 \in Names /\ Names = 0 .. Oldest /\ Oldest \in Nat /\ FirstMove \in Nat
      /\ wr.i \in 0 .. FirstMove /\ (wr.i < FirstMove => dir[wr.i + 1] = 0) /\ wr.s \in Sizes /\ total < MaxLines
  BY FilesParts, OldestFacts DEF Rename, WriterOK
<1>2. /\ UNCHANGED <<data, written, total, crashes>> /\ wr' = [wr EXCEPT !.i = @ - 1]
      /\ MoveUp(wr.i)
  BY DEF Rename, RenameStep
<1>3. /\ wr' \in [pc : {"none", "open", "rotate", "reopened"}, i : -1 .. MaxFile, s : Nat]
      /\ wr'.pc = "rotate" /\ wr'.i = wr.i - 1 /\ wr'.s = wr.s
  <2>1. wr.i \in Int /\ wr.i - 1 \in -1 .. MaxFile
    BY <1>1, LogFileAssumption, OldestFacts
  <2>. QED
    BY ONLY <1>1, <1>2, <2>1
<1>n. /\ \A n \in Names : dir[n] \in Nat /\ dir[n] <= Len(data)
      /\ Len(data) \in Nat
  BY <1>1 DEF NamesOK
<1>4. EntriesOK' /\ SizesOK' /\ SizeBounded'
  BY <1>1, <1>2 DEF EntriesOK, SizesOK, SizeBounded
<1>5. PICK lo \in [0 .. Oldest + 1 -> 1 .. total + 1] : Layout(lo)
  BY <1>1 DEF LayoutOK
<1>6. PICK i : i = wr.i
  OBVIOUS
<1>7. /\ dir' \in [Names -> Nat] /\ NamesOK' /\ LayoutOK' /\ dir'[i] = 0
  <2>1. CASE MaxFile <= 1
    <3>1. dir' = [dir EXCEPT ![0] = 0] /\ Oldest = 0 /\ i = 0 /\ Names = {0}
      BY <2>1, <1>1, <1>2, <1>6, OldestFacts DEF MoveUp
    <3>2. dir' \in [Names -> Nat] /\ dir'[0] = 0
      <4>1. i # i + 1 /\ dir[i] \in Nat
        BY ONLY <3>1, <1>n
      <4>2. dir \in [Names -> Nat]
        BY ONLY <1>1
      <4>. QED
        BY ONLY <3>1, <4>1, <4>2
    <3>3. NamesOK'
      BY <3>1, <3>2, <1>1, <1>2 DEF NamesOK
    <3>4. LayoutOK'
      <4>1. PICK m : m = [n \in 0 .. Oldest + 1 |-> total + 1]
        OBVIOUS
      <4>2. m \in [0 .. Oldest + 1 -> 1 .. total' + 1] /\ m[0] = total' + 1 /\ m[1] = total' + 1
        BY <4>1, <1>1, <1>2
      <4>. QED
        BY <4>2, <3>1, <3>2 DEF LayoutOK, Layout
    <3>. QED
      BY <3>1, <3>2, <3>3, <3>4
  <2>2. CASE ~(MaxFile <= 1) /\ dir[i] = 0
    <3>1. dir' = dir
      BY <2>2, <1>2, <1>6 DEF MoveUp
    <3>. QED
      <4>1. NamesOK'
        BY <3>1, <1>1, <1>2 DEF NamesOK
      <4>2. LayoutOK'
        BY <3>1, <1>1, <1>2 DEF LayoutOK, Layout
      <4>. QED
        BY <3>1, <4>1, <4>2, <2>2, <1>1
  <2>3. CASE ~(MaxFile <= 1) /\ dir[i] # 0
    <3>1. /\ dir' = [dir EXCEPT ![i + 1] = dir[i], ![i] = 0] /\ Oldest = FirstMove + 1
          /\ i \in Names /\ i + 1 \in Names /\ i \in 0 .. FirstMove
      BY <2>3, <1>1, <1>2, <1>6, OldestFacts DEF MoveUp
    <3>2. /\ dir' \in [Names -> Nat] /\ dir'[i] = 0 /\ dir'[i + 1] = dir[i]
          /\ \A n \in Names : n # i /\ n # i + 1 => dir'[n] = dir[n]
      <4>1. i # i + 1 /\ dir[i] \in Nat
        BY ONLY <3>1, <1>n
      <4>2. dir \in [Names -> Nat]
        BY ONLY <1>1
      <4>. QED
        BY ONLY <3>1, <4>1, <4>2
    <3>3. NamesOK'
      <4>1. ASSUME NEW n \in Names PROVE dir'[n] <= Len(data')
        <5>1. dir'[n] \in {0, dir[i], dir[n]}
          BY <3>2
        <5>. QED
          BY ONLY <5>1, <3>1, <1>n, <1>2, n \in Names
      <4>2. ASSUME NEW n \in Names, NEW m \in Names, dir'[n] = dir'[m], dir'[n] # 0 PROVE n = m
        <5>1. n # i /\ m # i
          BY <4>2, <3>2
        <5>2. CASE n = i + 1 \/ m = i + 1
          BY <5>1, <5>2, <4>2, <3>1, <3>2, <1>1 DEF NamesOK
        <5>3. CASE n # i + 1 /\ m # i + 1
          BY <5>1, <5>3, <4>2, <3>2, <1>1 DEF NamesOK
        <5>. QED
          BY <5>2, <5>3
      <4>. QED
        BY <4>1, <4>2 DEF NamesOK
    <3>4. LayoutOK'
      <4>1. PICK m : m = [n \in 0 .. Oldest + 1 |-> IF n = i + 1 THEN lo[i] ELSE IF n = i + 2 THEN lo[i + 1] ELSE lo[n]]
        OBVIOUS
      <4>2. /\ i \in Nat /\ i + 2 \in 0 .. Oldest + 1 /\ i + 1 \in 0 .. Oldest + 1 /\ i \in 0 .. Oldest + 1
            /\ \A n \in Names : n \in 0 .. Oldest + 1 /\ n + 1 \in 0 .. Oldest + 1 /\ n \in Nat
        BY ONLY <3>1, <1>1
      <4>3. /\ m \in [0 .. Oldest + 1 -> 1 .. total + 1] /\ m[0] = lo[0] /\ m[i + 1] = lo[i] /\ m[i + 2] = lo[i + 1]
            /\ m[i] = lo[i] /\ \A n \in 0 .. Oldest + 1 : n # i + 1 /\ n # i + 2 => m[n] = lo[n]
        <5>1. 0 \in 0 .. Oldest + 1 /\ 0 # i + 1 /\ 0 # i + 2 /\ i # i + 1 /\ i # i + 2 /\ i + 1 # i + 2
          BY ONLY <4>2, <1>1
        <5>2. \A n \in 0 .. Oldest + 1 : lo[n] \in 1 .. total + 1
          BY ONLY lo \in [0 .. Oldest + 1 -> 1 .. total + 1]
        <5>. QED
          BY ONLY <4>1, <4>2, <5>1, <5>2
      <4>4. ASSUME NEW n \in Names
            PROVE  /\ m[n + 1] <= m[n]
                   /\ dir'[n] = 0 => m[n + 1] = m[n]
                   /\ dir'[n] # 0 => Lines(data[dir'[n]]) = Run(m[n + 1], m[n] - 1)
        <5>1. /\ lo[n + 1] <= lo[n] /\ (dir[n] = 0 => lo[n + 1] = lo[n])
              /\ dir[n] # 0 => Lines(data[dir[n]]) = Run(lo[n + 1], lo[n] - 1)
          BY <1>5 DEF Layout
        <5>2. CASE n = i
          BY ONLY <5>2, <4>2, <4>3, <3>2, lo \in [0 .. Oldest + 1 -> 1 .. total + 1], <1>1
        <5>3. CASE n = i + 1
          <6>1. dir'[n] = dir[i] /\ m[n + 1] = lo[i + 1] /\ m[n] = lo[i]
            BY ONLY <5>3, <4>2, <4>3, <3>2
          <6>2. lo[i + 1] <= lo[i] /\ Lines(data[dir[i]]) = Run(lo[i + 1], lo[i] - 1)
            BY <1>5, <2>3, <3>1 DEF Layout
          <6>. QED
            BY ONLY <6>1, <6>2, <2>3
        <5>4. CASE n = i + 2
          <6>1. m[n] = lo[i + 1] /\ m[n + 1] = lo[n + 1] /\ dir'[n] = dir[n]
            BY ONLY <5>4, <4>2, <4>3, <4>4, <3>2
          <6>2. dir[i + 1] = 0
            BY <5>4, <3>1, <4>4, <1>1, <1>6
          <6>3. lo[i + 2] = lo[i + 1] /\ lo[n] = lo[i + 1]
            BY <1>5, <6>2, <3>1, <4>2, <5>4 DEF Layout
          <6>. QED
            BY ONLY <6>1, <6>3, <5>1
        <5>5. CASE n \notin {i, i + 1, i + 2}
          <6>1. m[n] = lo[n] /\ m[n + 1] = lo[n + 1] /\ dir'[n] = dir[n]
            <7>1. /\ n \in Nat /\ i \in Nat /\ n \in 0 .. Oldest + 1 /\ n + 1 \in 0 .. Oldest + 1
                  /\ n # i /\ n # i + 1 /\ n # i + 2
              BY ONLY <5>5, <4>2, n \in Names
            <7>2. n + 1 # i + 1 /\ n + 1 # i + 2
              BY ONLY <7>1
            <7>. QED
              BY ONLY <7>1, <7>2, <4>3, <3>2, n \in Names
          <6>. QED
            BY ONLY <6>1, <5>1
        <5>. QED
          BY ONLY <5>2, <5>3, <5>4, <5>5
      <4>5. lo[0] = total + 1 /\ total' = total /\ data' = data
        BY <1>2, <1>5 DEF Layout
      <4>. QED
        BY ONLY <4>3, <4>4, <4>5 DEF LayoutOK, Layout
    <3>. QED
      BY <3>2, <3>3, <3>4
  <2>. QED
    BY <2>1, <2>2, <2>3
<1>8. WriterOK'
  BY <1>1, <1>2, <1>3, <1>6, <1>7 DEF WriterOK
<1>9. FilesType'
  BY <1>1, <1>2, <1>3, <1>7, FilesParts DEF FilesType
<1>. QED
  BY <1>4, <1>7, <1>8, <1>9 DEF FilesInv

\* A line is written, or the marker that begins a rotation.
LEMMA WriteKeepsFiles ==
    ASSUME FilesInv, NEW s \in Sizes, WriteLogLine(s)
    PROVE  FilesInv'
<1>1. /\ dir \in [Names -> Nat] /\ data \in Seq(Seq(Entries)) /\ written \in Nat /\ total \in Nat /\ s \in Nat
      /\ wr.pc = "open" /\ total < MaxLines /\ crashes \in 0 .. MaxCrashes /\ dir[0] # 0
      /\ written = ByteLen(data[dir[0]]) /\ 0 \in Names
      /\ wr \in [pc : {"none", "open", "rotate", "reopened"}, i : -1 .. MaxFile, s : Nat]
      /\ MaxLines \in Nat
  BY FilesParts, LogFileAssumption, OldestFacts DEF WriteLogLine, WriterOK
<1>2. UNCHANGED <<dir, crashes>>
  BY DEF WriteLogLine
<1>3. CASE NeedsRotation(s)
  <2>1. AppendEntry(Marker) /\ wr' = [pc |-> "rotate", i |-> FirstMove, s |-> s] /\ total' = total
    BY <1>3 DEF WriteLogLine
  <2>2. Marker \in Entries /\ ~IsLine(Marker) /\ written' = written + Marker[2] /\ Marker[2] = 1
    BY <2>1 DEF Marker, Entries, IsLine, AppendEntry
  <2>3. EntriesOK' /\ NamesOK' /\ LayoutOK' /\ SizesOK' /\ SizeBounded' /\ data' \in Seq(Seq(Entries))
    <3>1. PICK e : e = Marker
      OBVIOUS
    <3>2. /\ e \in Entries /\ AppendEntry(e) /\ e = Marker /\ total' = total /\ ~IsLine(e) /\ dir' = dir
      BY ONLY <2>1, <2>2, <3>1, <1>2
    <3>. QED
      BY ONLY FilesInv, <3>2, <1>1, AppendKeepsFiles
  <2>4. WriterOK'
    <3>1. wr'.pc = "rotate" /\ wr'.i = FirstMove /\ wr'.s = s /\ FirstMove <= FirstMove /\ ~(FirstMove < FirstMove)
      BY <2>1, OldestFacts
    <3>. QED
      BY ONLY <2>1, <3>1, <1>1, s \in Sizes DEF WriterOK
  <2>5. FilesType'
    <3>1. wr' \in [pc : {"none", "open", "rotate", "reopened"}, i : -1 .. MaxFile, s : Nat]
      <4>1. FirstMove \in -1 .. MaxFile
        BY OldestFacts, LogFileAssumption
      <4>. QED
        BY ONLY <2>1, <4>1, <1>1
    <3>2. written' \in Nat /\ total' \in 0 .. MaxLines
      BY ONLY <2>1, <2>2, <1>1
    <3>. QED
      BY <2>3, <3>1, <3>2, <1>1, <1>2 DEF FilesType
  <2>. QED
    BY <2>3, <2>4, <2>5 DEF FilesInv
<1>4. CASE ~NeedsRotation(s)
  <2>1. AppendEntry(<<total + 1, s>>) /\ total' = total + 1 /\ wr' = wr
    BY <1>4 DEF WriteLogLine
  <2>2. <<total + 1, s>> \in Entries /\ written' = written + s /\ Within(written + s)
    <3>1. <<total + 1, s>> \in Entries
      BY <1>1 DEF Entries
    <3>2. written' = written + s
      BY <2>1 DEF AppendEntry
    <3>3. Within(written + s)
      BY <1>1, <1>4, LogFileAssumption DEF NeedsRotation
    <3>. QED
      BY <3>1, <3>2, <3>3
  <2>3. EntriesOK' /\ NamesOK' /\ LayoutOK' /\ SizesOK' /\ SizeBounded' /\ data' \in Seq(Seq(Entries))
    <3>1. PICK e : e = <<total + 1, s>>
      OBVIOUS
    <3>2. /\ e \in Entries /\ AppendEntry(e) /\ e = <<total + 1, e[2]>> /\ e[2] \in Sizes /\ total' = total + 1
          /\ Within(ByteLen(data[dir[0]]) + e[2]) /\ dir' = dir /\ total < MaxLines
      BY ONLY <2>1, <2>2, <3>1, <1>1, <1>2, s \in Sizes
    <3>. QED
      BY ONLY FilesInv, <3>2, <1>1, AppendKeepsFiles
  <2>4. written' = ByteLen(data'[dir'[0]])
    <3>1. PICK es : es = data[dir[0]]
      OBVIOUS
    <3>2. es \in Seq(Entries) /\ data'[dir[0]] = Append(es, <<total + 1, s>>) /\ dir[0] \in 1 .. Len(data)
      <4>1. dir[0] \in 1 .. Len(data) /\ data[dir[0]] \in Seq(Entries) /\ DOMAIN data = 1 .. Len(data)
        BY <1>1, FilesParts
      <4>2. data' = [data EXCEPT ![dir[0]] = Append(@, <<total + 1, s>>)]
        BY ONLY <2>1 DEF AppendEntry
      <4>3. data'[dir[0]] = Append(data[dir[0]], <<total + 1, s>>)
        BY ONLY <4>1, <4>2
      <4>. QED
        BY ONLY <3>1, <4>1, <4>3
    <3>3. ByteLen(Append(es, <<total + 1, s>>)) = ByteLen(es) + s
      <4>1. PICK e : e = <<total + 1, s>>
        OBVIOUS
      <4>2. e \in Entries /\ e[2] = s
        BY ONLY <4>1, <2>2
      <4>3. ByteLen(Append(es, e)) = ByteLen(es) + e[2]
        BY ONLY <3>2, <4>2, OneMore
      <4>. QED
        BY ONLY <4>1, <4>2, <4>3
    <3>. QED
      BY ONLY <3>1, <3>2, <3>3, <2>2, <1>1, <1>2
  <2>5. WriterOK'
    BY <2>1, <2>4, <1>1, <1>2 DEF WriterOK
  <2>6. FilesType'
    BY <2>1, <2>2, <2>3, <1>1, <1>2 DEF FilesType
  <2>. QED
    BY <2>3, <2>5, <2>6 DEF FilesInv
<1>. QED
  BY <1>3, <1>4

\* The line that follows a rotation.
LEMMA WriteAfterKeepsFiles ==
    ASSUME FilesInv, WriteAfterRotate
    PROVE  FilesInv'
<1>1. /\ dir \in [Names -> Nat] /\ data \in Seq(Seq(Entries)) /\ total \in Nat /\ wr.s \in Sizes /\ wr.s \in Nat
      /\ total < MaxLines /\ crashes \in 0 .. MaxCrashes /\ dir[0] # 0 /\ 0 \in Names
      /\ data[dir[0]] = <<>> /\ written = 0 /\ MaxLines \in Nat /\ dir[0] \in 1 .. Len(data)
  <2>1. wr.pc = "reopened"
    BY DEF WriteAfterRotate
  <2>2. /\ dir \in [Names -> Nat] /\ data \in Seq(Seq(Entries)) /\ total \in Nat /\ Len(data) \in Nat /\ WriterOK
        /\ crashes \in 0 .. MaxCrashes /\ 0 \in Names /\ MaxLines \in Nat /\ dir[0] \in Nat /\ dir[0] <= Len(data)
        /\ Sizes \subseteq Nat
    BY FilesParts, LogFileAssumption, OldestFacts
  <2>3. wr.s \in Sizes /\ total < MaxLines /\ dir[0] # 0 /\ data[dir[0]] = <<>> /\ written = 0
    BY ONLY <2>1, <2>2 DEF WriterOK
  <2>4. wr.s \in Nat
    BY ONLY <2>2, <2>3
  <2>5. dir[0] \in 1 .. Len(data)
    BY ONLY <2>2, <2>3
  <2>. QED
    BY ONLY <2>2, <2>3, <2>4, <2>5
<1>2. /\ UNCHANGED <<dir, crashes>> /\ AppendEntry(<<total + 1, wr.s>>) /\ total' = total + 1 /\ wr' = Idle
  BY DEF WriteAfterRotate
<1>3. PICK e : e = <<total + 1, wr.s>>
  OBVIOUS
<1>4. e \in Entries /\ e[2] = wr.s /\ e = <<total + 1, e[2]>> /\ AppendEntry(e)
  BY <1>1, <1>2, <1>3 DEF Entries
<1>5. EntriesOK' /\ NamesOK' /\ LayoutOK' /\ SizesOK' /\ SizeBounded' /\ data' \in Seq(Seq(Entries))
  <2>1. Lines(data[dir[0]]) = <<>>
    BY <1>1, EmptyFile
  <2>. QED
    BY ONLY FilesInv, <2>1, <1>1, <1>2, <1>4, AppendKeepsFiles
<1>6. written' = ByteLen(data'[dir'[0]]) /\ written' = wr.s
  <2>1. data'[dir[0]] = Append(<<>>, e) /\ written' = wr.s
    <3>1. data' = [data EXCEPT ![dir[0]] = Append(@, e)] /\ written' = written + e[2]
      BY <1>4 DEF AppendEntry
    <3>2. DOMAIN data = 1 .. Len(data)
      BY <1>1
    <3>3. data'[dir[0]] = Append(data[dir[0]], e)
      BY ONLY <3>1, <3>2, <1>1
    <3>4. written' = wr.s
      BY ONLY <3>1, <1>1, <1>4
    <3>. QED
      BY ONLY <3>3, <3>4, <1>1
  <2>2. PICK es : es = <<>>
    OBVIOUS
  <2>3. es \in Seq(Entries) /\ ByteLen(es) = 0
    BY <2>2, EmptyFile
  <2>4. ByteLen(Append(es, e)) = ByteLen(es) + e[2]
    BY ONLY <2>3, <1>4, OneMore
  <2>. QED
    <3>1. ByteLen(Append(es, e)) = wr.s
      BY ONLY <2>3, <2>4, <1>1, <1>4
    <3>. QED
      BY ONLY <2>1, <2>2, <3>1, <1>2
<1>7. WriterOK'
  BY <1>1, <1>2, <1>6 DEF WriterOK, Idle
<1>8. FilesType'
  BY <1>1, <1>2, <1>5, <1>6, LogFileAssumption DEF FilesType, Idle
<1>. QED
  BY <1>5, <1>7, <1>8 DEF FilesInv

\* A writer begins, or a rotation reopens.
LEMMA OpenKeepsFiles ==
    ASSUME FilesInv, NewWriter \/ Reopen
    PROVE  FilesInv'
<1>1. Create(data) /\ total' = total /\ crashes' = crashes
  BY DEF NewWriter, Reopen
<1>2. /\ EntriesOK' /\ NamesOK' /\ LayoutOK' /\ SizesOK' /\ SizeBounded'
      /\ dir' \in [Names -> Nat] /\ data' \in Seq(Seq(Entries)) /\ written' \in Nat
      /\ dir'[0] # 0 /\ written' = ByteLen(data'[dir'[0]])
      /\ dir[0] = 0 => data'[dir'[0]] = <<>> /\ written' = 0
  BY ONLY FilesInv, <1>1, CreateKeepsFiles
<1>3. /\ wr \in [pc : {"none", "open", "rotate", "reopened"}, i : -1 .. MaxFile, s : Nat]
      /\ total \in 0 .. MaxLines /\ crashes \in 0 .. MaxCrashes
  BY FilesParts
<1>4. CASE NewWriter
  <2>1. wr' = Idle
    BY <1>4 DEF NewWriter
  <2>2. WriterOK'
    BY <2>1, <1>2 DEF WriterOK, Idle
  <2>3. FilesType'
    BY <2>1, <1>1, <1>2, <1>3, LogFileAssumption DEF FilesType, Idle
  <2>. QED
    BY <2>2, <2>3, <1>2 DEF FilesInv
<1>5. CASE Reopen
  <2>1. wr.pc = "rotate" /\ wr.i = -1 /\ wr' = [wr EXCEPT !.pc = "reopened"]
    BY <1>5 DEF Reopen
  <2>2. dir[0] = 0 /\ wr.s \in Sizes /\ total < MaxLines
    <3>1. WriterOK /\ -1 < FirstMove /\ -1 + 1 = 0
      BY FilesParts, OldestFacts
    <3>. QED
      BY ONLY <3>1, <2>1 DEF WriterOK
  <2>3. wr' \in [pc : {"none", "open", "rotate", "reopened"}, i : -1 .. MaxFile, s : Nat] /\ wr'.pc = "reopened" /\ wr'.s = wr.s
    BY <2>1, <1>3
  <2>4. WriterOK'
    BY <2>2, <2>3, <1>1, <1>2 DEF WriterOK
  <2>5. FilesType'
    BY <2>3, <1>1, <1>2, <1>3 DEF FilesType
  <2>. QED
    BY <2>4, <2>5, <1>2 DEF FilesInv
<1>. QED
  BY <1>4, <1>5

\* A run ends, a monitor is killed, or a reader steps.
LEMMA QuietKeepsFiles ==
    ASSUME FilesInv, UNCHANGED <<dir, data, written, total>>, crashes' \in 0 .. MaxCrashes,
           wr' = NoWriter \/ wr' = wr
    PROVE  FilesInv'
<1>1. FilesType /\ EntriesOK /\ NamesOK /\ WriterOK /\ LayoutOK /\ SizesOK /\ SizeBounded
  BY DEF FilesInv
<1>2. EntriesOK' /\ NamesOK' /\ SizesOK' /\ SizeBounded'
  BY <1>1 DEF EntriesOK, NamesOK, SizesOK, SizeBounded
<1>3. LayoutOK'
  BY <1>1 DEF LayoutOK, Layout
<1>4. NoWriter \in [pc : {"none", "open", "rotate", "reopened"}, i : -1 .. MaxFile, s : Nat]
  BY LogFileAssumption DEF NoWriter
<1>5. FilesType'
  BY <1>1, <1>4 DEF FilesType
<1>6. WriterOK'
  BY <1>1 DEF WriterOK, NoWriter
<1>. QED
  BY <1>2, <1>3, <1>5, <1>6 DEF FilesInv

\* Every step.
LEMMA StepKeepsFiles ==
    ASSUME FilesInv, [LogNext]_logVars
    PROVE  FilesInv'
<1>0. crashes \in 0 .. MaxCrashes /\ MaxCrashes \in Nat
  BY FilesParts, LogFileAssumption
<1>1. CASE NewWriter \/ Reopen
  BY <1>1, OpenKeepsFiles
<1>2. ASSUME NEW s \in Sizes, WriteLogLine(s) PROVE FilesInv'
  BY <1>2, WriteKeepsFiles
<1>3. CASE Rename
  BY <1>3, RenameKeepsFiles
<1>4. CASE WriteAfterRotate
  BY <1>4, WriteAfterKeepsFiles
<1>5. CASE Close
  BY <1>0, <1>5, QuietKeepsFiles DEF Close
<1>6. CASE Crash
  BY <1>0, <1>6, QuietKeepsFiles DEF Crash
<1>7. CASE UNCHANGED wVars
  BY <1>0, <1>7, QuietKeepsFiles DEF wVars
<1>8. NotePosition \/ Reading => UNCHANGED wVars
  BY DEF NotePosition, Reading, Open, OpenArchive, FillSpanTimes, Select, CaptureEnd, ScanSpan, ReplayDone, Bridge,
         CloseReader
<1>9. UNCHANGED logVars => UNCHANGED wVars
  BY DEF logVars
<1>. QED
  BY <1>1, <1>2, <1>3, <1>4, <1>5, <1>6, <1>7, <1>8, <1>9 DEF LogNext, Writing

-----------------------------------------------------------------------------
(* What the names stand for                                                *)

\* The runs of the names, put together, are the newest lines.
LEMMA KeptIsNewest ==
    ASSUME FilesInv
    PROVE  NewestKept
<1>1. /\ total \in Nat /\ Oldest \in Nat /\ Names = 0 .. Oldest /\ Oldest + 1 \in Nat
  BY FilesParts, OldestFacts
<1>2. PICK lo \in [0 .. Oldest + 1 -> 1 .. total + 1] : Layout(lo)
  BY FilesParts DEF LayoutOK
<1>3. \A n \in 0 .. Oldest + 1 : lo[n] \in Nat /\ lo[n] >= 1 /\ lo[n] <= total + 1
  BY <1>1, <1>2
<1>. DEFINE Newest(g) == [n \in 0 .. Oldest + 1 |->
                IF n = 0 THEN <<>>
                ELSE IF dir[n - 1] = 0 THEN g[n - 1] ELSE Lines(data[dir[n - 1]]) \o g[n - 1]]
            f == [n \in 0 .. Oldest + 1 |-> Run(lo[n], total)]
            h == CHOOSE g : g = Newest(g)
<1>4. ASSUME NEW n \in 1 .. Oldest + 1
      PROVE  f[n] = IF dir[n - 1] = 0 THEN f[n - 1] ELSE Lines(data[dir[n - 1]]) \o f[n - 1]
  <2>1. n - 1 \in Names /\ n - 1 \in 0 .. Oldest + 1 /\ n \in 0 .. Oldest + 1 /\ (n - 1) + 1 = n
    BY <1>1
  <2>2. /\ lo[n] <= lo[n - 1] /\ (dir[n - 1] = 0 => lo[n] = lo[n - 1])
        /\ dir[n - 1] # 0 => Lines(data[dir[n - 1]]) = Run(lo[n], lo[n - 1] - 1)
    <3>1. PICK k : k = n - 1
      OBVIOUS
    <3>2. k \in Names /\ k + 1 = n
      BY ONLY <2>1, <3>1
    <3>3. /\ lo[k + 1] <= lo[k] /\ (dir[k] = 0 => lo[k + 1] = lo[k])
          /\ dir[k] # 0 => Lines(data[dir[k]]) = Run(lo[k + 1], lo[k] - 1)
      BY ONLY <1>2, <3>2 DEF Layout
    <3>. QED
      BY ONLY <3>1, <3>2, <3>3
  <2>3. f[n] = Run(lo[n], total) /\ f[n - 1] = Run(lo[n - 1], total)
    BY ONLY <2>1
  <2>4. CASE dir[n - 1] = 0
    BY ONLY <2>2, <2>3, <2>4
  <2>5. CASE dir[n - 1] # 0
    <3>1. PICK a, b, c : a = lo[n] /\ b = lo[n - 1] /\ c = total
      OBVIOUS
    <3>2. a \in Nat /\ b \in Nat \ {0} /\ c \in Nat /\ a <= b /\ b <= c + 1
      BY ONLY <1>1, <1>3, <2>1, <2>2, <3>1
    <3>3. Run(a, b - 1) \o Run(b, c) = Run(a, c)
      BY ONLY <3>2, RunConcat
    <3>. QED
      BY ONLY <2>2, <2>3, <2>5, <3>1, <3>3
  <2>. QED
    BY ONLY <2>4, <2>5
<1>5. f[0] = <<>>
  <2>1. lo[0] = total + 1 /\ Run(total + 1, total) = <<>> /\ 0 \in 0 .. Oldest + 1
    BY <1>1, <1>2, RunEmpty DEF Layout
  <2>. QED
    BY ONLY <2>1
<1>6. f = Newest(f)
  <2>1. f = [n \in 0 .. Oldest + 1 |-> f[n]]
    OBVIOUS
  <2>. HIDE DEF f
  <2>2. ASSUME NEW n \in 0 .. Oldest + 1
        PROVE  f[n] = IF n = 0 THEN <<>>
                      ELSE IF dir[n - 1] = 0 THEN f[n - 1] ELSE Lines(data[dir[n - 1]]) \o f[n - 1]
    <3>1. CASE n = 0
      BY ONLY <3>1, <1>5
    <3>2. CASE n # 0
      <4>1. n \in 1 .. Oldest + 1
        BY <1>1, <3>2
      <4>. QED
        BY ONLY <4>1, <3>2, <1>4
    <3>. QED
      BY ONLY <3>1, <3>2
  <2>. QED
    BY ONLY <2>1, <2>2
<1>7. h = Newest(h)
  BY ONLY <1>6
<1>8. KeptByName = h[Oldest + 1]
  BY DEF KeptByName
<1>. HIDE DEF h
<1>9. /\ h[0] = <<>>
      /\ \A n \in 1 .. Oldest + 1 : h[n] = IF dir[n - 1] = 0 THEN h[n - 1] ELSE Lines(data[dir[n - 1]]) \o h[n - 1]
  <2>1. 0 \in 0 .. Oldest + 1 /\ \A n \in 1 .. Oldest + 1 : n \in 0 .. Oldest + 1 /\ n # 0
    BY ONLY <1>1
  <2>. QED
    BY ONLY <1>7, <2>1
<1>. HIDE DEF f
<1>10. \A n \in Nat : n \in {k \in Nat : k <= Oldest + 1 => h[k] = f[k]}
  <2>. DEFINE P == {k \in Nat : k <= Oldest + 1 => h[k] = f[k]}
  <2>1. 0 \in P
    BY <1>5, <1>9
  <2>2. ASSUME NEW n \in Nat, n \in P PROVE n + 1 \in P
    <3>1. SUFFICES ASSUME n + 1 <= Oldest + 1 PROVE h[n + 1] = f[n + 1]
      OBVIOUS
    <3>2. n + 1 \in 1 .. Oldest + 1 /\ (n + 1) - 1 = n /\ h[n] = f[n]
      BY <2>2, <3>1, <1>1
    <3>3. h[n + 1] = IF dir[(n + 1) - 1] = 0 THEN h[(n + 1) - 1] ELSE Lines(data[dir[(n + 1) - 1]]) \o h[(n + 1) - 1]
      BY ONLY <3>2, <1>9
    <3>4. f[n + 1] = IF dir[(n + 1) - 1] = 0 THEN f[(n + 1) - 1] ELSE Lines(data[dir[(n + 1) - 1]]) \o f[(n + 1) - 1]
      BY ONLY <3>2, <1>4
    <3>. QED
      BY ONLY <3>2, <3>3, <3>4
  <2>. HIDE DEF P
  <2>3. \A n \in Nat : n \in P
    BY <2>1, <2>2, SetInduction
  <2>. QED
    BY <2>3 DEF P
<1>11. KeptByName = Run(lo[Oldest + 1], total)
  <2>1. h[Oldest + 1] = f[Oldest + 1]
    <3>1. Oldest + 1 \in {k \in Nat : k <= Oldest + 1 => h[k] = f[k]} /\ Oldest + 1 <= Oldest + 1
      BY <1>1, <1>10
    <3>. QED
      BY ONLY <3>1
  <2>2. f[Oldest + 1] = Run(lo[Oldest + 1], total)
    BY <1>1 DEF f
  <2>. QED
    BY ONLY <1>8, <2>1, <2>2
<1>12. PICK a, t : a = lo[Oldest + 1] /\ t = total
  OBVIOUS
<1>13. a \in Nat /\ t \in Nat /\ a >= 1 /\ a <= t + 1
  BY <1>1, <1>3, <1>12
<1>14. Len(Run(a, t)) = t - a + 1 /\ Run(a, t) = [k \in 1 .. t - a + 1 |-> t - (t - a + 1) + k]
  BY ONLY <1>13 DEF Run
<1>. QED
  BY ONLY <1>11, <1>12, <1>14 DEF NewestKept

\* The log files, at every step of a rotation and after every crash: the names
\* stand for the newest lines, in order and with none missing in between, the
\* lines of a file stay below max-size unless it has one only, and the writer counts what is there.
THEOREM FilesAreSafe == LogSpec => []FilesSafe
<1>1. FilesInv => FilesSafe
  <2>1. SUFFICES ASSUME FilesInv PROVE FilesSafe
    OBVIOUS
  <2>2. dir \in [Names -> 0 .. Len(data)]
    <3>1. dir \in [Names -> Nat] /\ Len(data) \in Nat /\ NamesOK
      BY <2>1, FilesParts
    <3>. QED
      BY ONLY <3>1 DEF NamesOK
  <2>3. FilesOK
    BY <2>1, <2>2, FilesParts DEF FilesOK, EntriesOK, WriterOK
  <2>. QED
    BY <2>1, <2>3, KeptIsNewest, FilesParts DEF FilesSafe
<1>2. FilesInv /\ [LogNext]_logVars => FilesInv'
  BY StepKeepsFiles
<1>. QED
  BY <1>1, <1>2, FilesInit, PTL DEF LogSpec
=============================================================================
