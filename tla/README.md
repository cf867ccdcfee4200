# A TLA+ model of cmdman

cmdman is a command supervisor without a daemon: every supervised command has a
monitor process of its own, and every `cmdman` invocation is a short-lived client
that works on a shared SQLite store, per-command directories and the monitors'
Unix sockets.  On top of it are a compose layer, windows in tmux and a terminal UI.
This project models the parts whose correctness depends on the order in which
concurrent things happen, and on what fails or dies between two of them.

## Inventory

| part | state it keeps | operations | hard because |
|---|---|---|---|
| monitor: run loop (`monitor/mon_run.go`, `mon.go`) | the run's handles (`cmd`, `runPgid`, `stopSeq`) under `procMu`, the atomics `stopRequested`, `stopKilled`, `forceKilled`, the anomalies of the run | `runLoop`, `runOnce`, `setRunning`, `setExited`, `setFailed`, `maybeAutoRemove` | stops land in any stage of any run |
| monitor: stop (`mon.go`) | `stopDeadline`, `gracefulStop` | `StopProcess`, `SignalProcess`, `forceKill`, `escalateStop` | RPCs, timers and the run end race; signals go out with and without the lock |
| monitor: stop sequence (`stop_command.go`) | `stopSequence`: begun, cancelled, done | `startStopSequence`, `beginStopSequence`, `runStopSequence`, `sendStopSignal`, `finishStopSequence` | a goroutine whose signal must not outlive the run |
| monitor: survivor sweep (`orphans_linux.go`) | the process table | `sweepRunSurvivors`, `awaitRunSurvivors`, `completeStopKill` | the scan, the reaping and the signals are apart; a stop may take the survivors over |
| monitor: output (`mon_run.go`, `broadcaster.go`, `mon_server.go`, `runtime_*.go`, `hooks.go`) | subscribers, `runGen`, latched title, bell and status, a queue per hook rule | `logCommandOutput`, `Attach`, `Subscribe`, `WatchRuntimeState`, hook `dispatch` | slow subscribers, readers that outlive their run, coalesced wake-ups, shutdown waits for RPCs |
| start-up and stale cleanup (`mon.go`, `mon_clean.go`, `mon_spawn.go`) | the pid file, its lock and its inode, the record | `init`, `Close`, `cleanStaleEntry`, `MarkMonitorDied`, `HoldPIDLock` | probes race monitors that come and go |
| service (`cmdman_*.go`) | none of its own | start, stop, restart, remove, replace, list, wait, logs | clients race each other and crash |
| store (`store/*.go`) | records, exit codes, compose history | insert, update, replace, delete | one row read in one transaction and written in another |
| event log (`eventlog/*`) | the current file, one archive | append, rotate, follow | rotation under a reader, crash in a rotation, a watcher that must not sleep over a change |
| log driver (`logdriver/*`) | the log file and its numbered archives | write, read, replay | rotation and discovery share no lock |
| compose: walk (`compose/reconcile.go`, `service_reconcile.go`) | the claims and completions of a graph | up, start, stop, down | workers feed themselves through one channel; failure and cancellation in the middle |
| compose: replica (`compose/intermediate.go`, `service_*.go`, `hook*.go`) | holders of acquired resources, hooks stored on the replica | hooks around create, start, stop, remove | a death between a hook and the record of what it acquired |
| compose: project (`plan.go`, `graph.go`, `target.go`, `service_restart.go`, ...) | the desired graph, the stored replicas | up, restart, scale, remove, stop, with or without a file | the file and the records disagree; partial failure within a layer |
| compose: logs (`service_logs.go`) | one reader per replica | logs, logs --follow | the hand-over from stored to live records |
| detached jobs (`cli/compose_down_*.go`, `mux_op_*.go`) | a job record, a job lock | launch, reuse, replace, probe, follow | launchers race, a job never starts, a monitor is killed |
| frame, mux (`frame/*`, `mux/*`) | panes and options of tmux windows | up, down, cycle-scale, show, hide | a verb is dozens of tmux commands, any of which may be the last |
| attach (`cli/attach*.go`, `sticky.go`) | the reader of the terminal, partial matches | attach, detach, prompt, restart | keys in flight as the reader changes |
| tui (`tui/*`, `cli/tui_backend_*.go`) | rows, selection, markers, overlays, streams | keys, loads, pushes, replies | every reply may be late, and for a row that is gone |
| cli, cmd, config, model, view, bindings | - | flags, rendering, settings, generated code | data rather than control |

Clients reach a monitor by gRPC and by the record in the store; the monitor reaches
its clients through the record, the event log, the log files and its broadcasters.
Compose, the jobs and the TUI are clients of the service; mux verbs run in a job of
their own so as to outlive the pane they were typed in.

## Modules

| module | what it is |
|---|---|
| `MonitorRun`, `CommandLifecycle` | one monitor supervising one command, and the abstract specification it refines |
| `MonitorRunInv`, `MonitorRunProofs` | its inductive invariant, part by part; theorems and proofs |
| `Supervision`, `SupervisionProofs` | one record, its monitor processes and the invocations that work on it; theorems and proofs |
| `Output` | what a monitor does with its command's output, and one client of it |
| `EventLog`, `EventLogProofs` | the writers of the event log, a reader with its watcher, `Wait`; theorems and proofs |
| `LogFile` | the writer of a command's log files and one reader |
| `OutputProofs` | theorems and proofs about `Output` and `LogFile` |
| `ReconcileWalk`, `ReconcileWalkProofs` | the concurrent walk of a compose graph; theorems and proofs |
| `ComposeReplica`, `ComposeProject`, `ComposeLogs` | a replica with its hooks and resources; the verbs of a project; compose logs |
| `Compose`, `ComposeProofs` | the three together: the parts of `cmdman compose` that share the store; theorems and proofs |
| `DetachedJob`, `DetachedJobProofs` | the down job and the worker of a mux verb; theorems and proofs |
| `Mux` | project and frame verbs as the tmux commands they run |
| `TuiWatch`, `TuiPreview`, `TuiKeys` | the full TUI: the list and its streams, the preview, the keys |
| `Launcher`, `Switcher`, `ProjectManager` | the three widgets |
| `Attach` | an attach, its detach keys and the sticky loop |
| `Tui`, `TuiProofs` | the programs the TUI can be: each of the seven parts above; theorems and proofs |
| `MC...` | a module or a composition for TLC |

`PROJECT.json` maps the definitions to the lines they model.  A small helper whose
lines lie inside those of a mapped action is found through that action.

### MonitorRun

The state is the code's: `stopRequested`, `stopKilled`, `gracefulStop` and
`forceKilled` are the atomics and flags of `Monitor`; `cmd`, `runPgid`, `stopSeq`
and `stopDeadline` are what `procMu` guards; `rpc`, `sig`, `timed`, `escalating`
and `target` are the locals of one `StopProcess` call per member of `Stops`;
`timer` is that stop's `time.AfterFunc`; `seq`, `seqBy`, `seqCancelled` are the
run's `stopSequence`; `batch`, `todo`, `aim`, `sweepSig`, `lastResort`, `unreaped`
are the locals of the sweep; `state` and `stForced` are the row in the store,
`lastEvent`, `evForced` and `forcedEvents` the event log.  `stopRun`, `landed`
and `sweepLate` are history: the run a stop arrived in, the run it found under
`procMu`, and how many signals the sweep sent past a stop.

An action is one section under `procMu`, one atomic access or one system call
that another goroutine can observe, so everything the code does between two of
them may be interleaved.  `StopProcess`, for one, is `StopRequest` (the restart
suppression), `StopLatchKill`, one of the two lock sections
(`StopBeginsSequence`, `StopReplacesDeadline`), `StopCancelsSequence`, and either
`StopForceKills` and `StopEvent` (signal and latch under the lock, the event
after it) or `StopReadsGroup` and `StopSignals` (group read under the lock, signal
after it).

The processes of a run are three slots: the child; a helper in the child's
process group; a stray in a group of its own inside the session, started by the
child or by the helper.  A process is `none`, `alive`, `zombie` or `gone`.  A
survivor is found by a scan once its parent has exited, since only then it is
the monitor's child.  Signals other than SIGKILL end any subset of the processes
they reach.  A pid and a group id are the number of the run, and are not reused.

Time is not modelled: a timer that is armed may fire at any moment, a bounded
wait may run out at any moment.  What is ordered by bounds in the code is ordered
in the model only where the code waits: the join of a stop sequence can be
abandoned only while the stop command itself is stuck, which is what its bound
(`bound + sweepBound`) leaves possible.

### CommandLifecycle and the refinement

A record that is starting or running, a live run or none, stopped or not: a run
starts only while none is live and at most once past a stop; a terminal state is
reported only of a command without a live run and is never left, except that an
exited record may be removed.  `ImplementsLifecycle` maps `phase` to `state`,
`live` to "between the start of the child and the section that gives the group
up", `stopped` to `stopRequested` and `spent` to "a run started past the stop".

### Supervision

`MonitorRun` looks inside one monitor; `Supervision` looks at the processes around
one record.  They have no lock in common: the row of the store (`rec`: state,
monitor pid, whether the socket's path is set, whether a death was marked), the
command directory (`cfgDir`), the pid file and the socket are read in one step and
acted on in a later one.  The pid file is a name (`pidFile`) for one of the inodes
created so far, and a flock (`lock`) is on an inode: removing the name leaves the
lock of whoever opened the file before.  `sock` is the monitor bound to the
socket's name.

A monitor (`mpc`, `mino`) goes through `newMonitor` (`MonNew`), `init` (`MonOpen`,
`MonLock`, `MonCheck`, `MonClaim`, `MonAnnounce`), `listen`, the writes of its run
(`MonRunning`, `MonExited`, `MonFailed`), auto-remove, and the clean-ups of `Close`
in their order (`MonUnbinds` twice, `MonUnnames`, `MonUnlocks`).  It may fail in
`init` or `listen` (`MonAborts`) and crash before every step (`Crash`): the kernel
then drops its locks and the names stay.  What happens during a run is
`MonitorRun`'s; here `running` may be written any number of times before the end.

A client is one invocation with one operation; its steps are the reads, probes and
writes of the code, one action each, and `seen`, `owner`, `cino`, `late`, `died`,
`progressed` are its locals:

| operation | code | steps |
|---|---|---|
| start | `Service.Start`, `WaitForState` | `StartMarks`, `StartSpawns`, `StartPolls`, `StartTimesOut` |
| restart | `Service.restart` | `RestartReads`, then stop and start |
| list | `CleanStaleEntries` | `ListReads`, `ProbeOpens`, `ProbeLocks`, `ProbeUnlocks`, `ListRereads`, `MarkMonitorDied`, `MarkDeletes`, `MarkDropsDirs` |
| stop | `stopReportingUnreachable` | `StopReads`, `StopSends`, `StopDials`, `StopSeesEnd`, `StopTimesOut`, `StopSettles` |
| rm, rmf | `rmOne`, `stopForRemoval` | `RemoveReads`, a stop with force, `RemoveKills`, `RemoveDeletes`, `RemoveDropsCommandDir`, `RemoveDropsRuntimeDir` |
| replace | `replaceOrInsertCommand` | the same without a stop; the new record is another one |
| hold | `removeUnmonitoredComposeDownJob` | `HoldOpens`, `HoldLocks`, the steps of rmf, `HoldReleases` |

`fresh` is history: whether a monitor has written the row since the client marked
it.  A process identity is never reused, as a pid could be.

### Output

`mon` is where the run loop is, `run` how many runs there were, and `log` keeps for
each chunk the run whose reader handed it in.  A reader whose run is over
(`logCommandOutput` with an old `runGen`) is still there and may deliver.  The
broadcaster drops the message of a subscriber whose channel is full (`Cap`), a gRPC
stream takes `NetCap` messages ahead of its receiver.  The client is one of: an
attach, a follower (`logs -f`: replay, bridge, stream), a sticky follower, or a
watcher of the runtime state with its wake-up and throttle.  It may stop reading at
any moment (`reading`).

### EventLog and LogFile

In both a file is an inode with a sequence of lines, and a path is a name for one.
An append is its open, lock, check, marker, renames and write, one action each, and
it may be cut anywhere: a killed process, or a failing system call.  `EventLog`'s
reader is `openSnapshot`, `scanLoop` with its switch to the new file at a marker,
and the watcher (inotify, or polling for what `Stat` says); `last` is the event it
delivered last and `excuse` the cases, listed below, in which the code itself gives
an event up.  `LogFile`'s reader discovers the archives by name in one step per
name, opens them, and reads with the filters of the request; `moved`, `cut` and
`turned` play the role of `excuse`.

### Compose

`ReconcileWalk` has the graph, the targets and the states found by the snapshot
chosen at the start; a worker takes a vertex off the channel, claims it, acts
(per replica), completes it and queues its neighbours.  `ComposeReplica` follows one
invocation at a time through its list of steps: a hook is an exec that works or
fails, an acquire that works hands out a value, the holder is the record that keeps
it.  `left` is what there is of the exec commands of its hooks: none, one that runs, one
that is over, or one that `removeLeftExecs` has passed over, since it was running or could
not be listed or removed, which is only logged.  An invocation that dies during a hook
leaves the hook's command, and the hook may run on (`ExecEnds`).  `ComposeProject` computes the plan of a verb from the file and the stored
replicas and runs it, restart layer by layer with the replicas of a layer side by
side.  `ComposeLogs` stamps a record and writes it in two steps, as the monitor
does.  `Compose` runs one of the last three in a behaviour: what the project sees of
a replica's operation is chosen freely in each of its actions, so the parts do not
constrain each other.

### DetachedJob

Invocations launch, find, probe and follow the job under one name; a monitor comes
up, takes the pid lock, runs and records its end.  Nothing ties the job's process to its
monitor: when the monitor is killed the process works on (`orphans`) until it is done
(`OrphanEnds`), while listings, lookups and launches see a record without a monitor.  A tick is a second, after which a
mux record stops being fresh.  A fault kills a monitor or an invocation, or makes an
insert fail half way.

### Mux

A window is a set of panes with options; a verb is a program of tmux commands, each
an action, computed from what a listing returned at its start, as in the code.  A
user may split off or close a pane, and a verb may die after any command.  A show replaces the
frame it saw as it opened its window (`shown`, the code's `t.shown`), not the one that is
there by then.  Layouts
are the number and order of their leaves; the sizes are left out.

### Tui and Attach

The Update loop is one goroutine: a handler is one action.  What runs beside it
(loads, pumps, backend calls, ticks) is a value in flight that lands when it likes; a list
or a lookup is read in one step and lands in a later one.  A command is down, `starting`,
up or gone; a start and a restart pass through `starting`, which keeps the spinner on as a
pending marker and an unfinished mark of an up's overlay do.  An action that fails may have
done part of its work: a scale some of its replicas, a teardown some of its removals, a
bring-up everything but its window.
History variables name the cases in which the code itself mixes replies up
(`missed`, `late`, `moved`, `crossed`, `partly`, `blurred`, `joined`, `outdated`, `bounced`);
they are described below.  `Attach` has one pipe of typed keys with one reader at a
time, which takes chunks and matches the detach keys byte by byte.

## Runs

| run | instance | what it shows |
|---|---|---|
| `monitor_safety` | two stops, SIGTERM or SIGKILL, a stop command, `always`, auto-remove, a stray, two runs | `SafetyInv`, the inductive invariant; `StopSafety`, `ForcedKillSafety`, `RowSafety`, `SweepSafety`; `ImplementsLifecycle`, the refinement |
| `monitor_ends` | one graceful stop, shutdown, a stop command, `always`, a stray, `/proc` may be unreadable, fair | `ShutdownEnds`, `StopEnds` |
| `supervision` | two invocations of any of eight operations, two monitors, crashes, auto-remove, from a record never started and from a run that is on, fair | `SupervisionInv`, `SupervisorSafety`, `CleanEndKept`, `DeadRunSettled` |
| `compose_walk` | three commands in each shape of two edges, two workers, one stop permit, cancellation, fair | `WalkSafety`, `VerdictsTrue`, `WalkEnds` |
| `compose_verbs` | a replica with two keys, two values and three hook lists, failures and deaths; a project of three services, four files, two verbs; two replicas' logs of two records | `ResourceSafety`, `VerbsTrue`, `ProjectTrue` |
| `event_log` | seven events in files of two, one append cut short, every kind of request, both watchers, fair | `LogSafety`, `ReadsInOrder`, `CatchesUp`, `ReadersEnd` |
| `output_fanout` | two runs under up to two monitors, three chunks, each kind of client, fair | `OutputSafety`, `OutputSteps`, `ShutdownEnds`, `StreamsSettle` |
| `log_reads` | four lines of one or two bytes, files of three bytes, three files, one crash, eight kinds of read | `FilesSafe`, `ReadsTrue` |
| `detached_jobs` | two invocations, two records, one tick, one fault, fair | `JobSafety`, `AnswersTrue`, `FollowEnds` |
| `mux_verbs` | two windows, two frame definitions, three verbs, one fault, four panes | `MuxSafety`, `VerbSteps` |
| `tui` | each of the seven parts, with the bounds of `Tui_parts.cfg` | `ListSafety`, `PreviewSafety`, `KeysSafety`, `WidgetSafety`, `TuiSteps` |
| `preview_crash` | violation: two commands, three moves | `PreviewNeverCrashes` does not hold |

Each of these properties is a conjunction of named statements, every one of which
has a comment that says what it is about; the type invariant is a conjunct of the
module's first property.

Deadlock is checked in `supervision`, `compose_walk`, `event_log`, `output_fanout`
and `log_reads`, whose systems come to rest in a state that stutters.  In the others
the bounds on verbs, keys and faults leave behaviours that simply end.

Bounds.  Each is a constant named in the module and given in the cfg.  Two stops are
what the races of a monitor are about (a deadline taken over, a SIGKILL that
escalates, a latch contended for); a third repeats one of them.  Two runs are what a
stop between runs needs.  Two monitors are what an unlinked pid file needs, and
`MaxInodes` is at least the number of processes that open the file.  In the walk,
three commands are the smallest with a chain, a fork and a join, and two workers
contend for every vertex.  Seven events in files of two make three rotations: one
more than it takes for an archive a reader is on to be replaced.  Two chunks fill a
channel of one and lose a third.  Three archives and four lines of log put a reader
between a file that is dropped and one that is renamed.  Two invocations are the two
launchers of a job or a launcher and a follower.  Three mux verbs are one that
builds, one that dies and one that repairs, and four panes are a layout's two leaves, a
bar and a pane of the user's.  In the TUI, two replies of a kind at
once and two or three keys are what a reply needs to be overtaken; four keys open, answer
and confirm a popup over a selection that a list moves, two events of an up let its marks
all be at their end and then not, and two changes let the watched command of the switcher
end and run again.  In the launcher and the keys only what types or acts is counted as a
key.  `Stops` and the
values that acquires hand out are interchangeable, so those runs use symmetry;
`MCSupervision` checks liveness and, instead, gives the first of the two alike
invocations the operation that is listed first (`InOrder`).  With one operation each, one of
the two invocations has to start the command and at most one is left to list it, so the
run also begins from a run that an earlier start left behind (`UpInit`): two listings then
probe one row at the same time, or a listing probes it under a stop.  `MCTui` and `MCCompose`
let the parts that rest do so in one initial state.

Fairness.  `monitor_ends`: the Go scheduler runs every goroutine that can run, timers
fire, `os/exec` carries out its own cancellation; nothing is assumed of the command,
which may ignore every signal but SIGKILL, and nothing of clients.  `supervision`: an
invocation that has begun keeps running; nothing of monitors.  `compose_walk`: each
worker keeps running, while the replicas may stay as they are for ever, so a walk may
wait for one (`AwaitsLive`).  `event_log`: a writer inside an append and a reader keep
running, the watcher's goroutines too; the reader's shared lock is strongly fair, as
the kernel's queue of a blocking `flock` is.  `output_fanout`: the goroutines of the
monitor's end and of the client run; a client may stop reading.  `detached_jobs`: a
monitor and an invocation that were not killed keep running, and the wait for a start
that is possible again and again comes to its end, as its timer guarantees.

### What the violation says

`PreviewNeverCrashes`: a line of a log reader is answered by reading the next one from
the preview's stream (`tui/runtime.go:330`).  The line is matched by command id.  When
the selection has left the command and come back while the line was in flight, the new
preview has no stream yet and the read panics; the comment at `:397` promises that a
passive preview never crashes the TUI.

### What the code does not guarantee

Statements one might expect, or that a comment makes, and that the models refute.
Where a property has to leave such a case out, a history variable names it.

Monitor and supervision:

* A stop between two runs does not end the loop (`mon_run.go:169`; the comment at
  `mon.go:682` says it does).  `runLoop` reads `stopRequested` well before the run is
  published; a stop in between signals nothing and the run starts.  What holds is
  `OneRunPastStop`: that run is the last.
* A kill that reached nothing disables a later graceful stop of a command with a stop
  command: `stopKilled` is not among what a run resets, and `sendStopSignal` returns at
  its first check (`stop_command.go:226`, against `mon.go:688`).
* A grandchild can escape the sweep unreported (`orphans_linux.go:116`, against
  `:140` and `:164`): a stray of a helper that exits between the scan and the reaping is
  in no list.  What holds is `SessionSwept`: what the child itself started is found.
* A monitor that has announced its socket and does not listen yet is marked dead by a
  stop (`cmdman_stop.go:267`, against the comment at `:239`), and then runs the command.
* `SignalProcess` signals a group it read before the unlock (`mon.go:604`), and the stop
  command may get the pid of a child already reaped (`stop_command.go:126`).
* A config that cannot be read on a restart reports the anomalies of the run before:
  they are cleared at the top of `runOnce`, and the config is read before it.
* A pid file that is absent or free does not mean that no monitor is alive: `init`
  locks the file it opened and does not look whether the name still stands for it.
  What holds is `OneSupervisorPerFile`: a file, named or not, never has two monitors.
* A busy lock does not mean a live monitor: `isStaleMonitor` tests it by taking it.
  `DeadRunSettled` shows that listings which skip a row for that reason do not leave it
  unsettled for good.
* An active state read after the probe does not mean that the monitor died
  (`mon_clean.go:71`): a new one may have come up.  What holds is `CleanEndKept`, and
  only while no two monitors opened one pid file: a monitor that opened the file of one
  that was leaving locks it without a name, and as it leaves takes away the name of the
  next file, whose owner a probe then misses.
* The monitor that a forced removal kills is the one the row named ahead of the stop.
* A start that runs out of polls takes a final `exited` for a run that ended, and it may
  be the state it marked (`cmdman_start.go:53`).  Within the polls `PollSeesNewRun` holds.

Output and logs:

* `Attach` and `Subscribe` may select the terminal state ahead of records still in the
  channel (against `mon_run.go:150`).  A `logs -f` that subscribed while the log writer
  was nil does not re-read at the bridge.
* A sticky follower misses a start between the end of its stream and its event
  subscription (`cmdman_logs.go:198`), and a resume drops the head of the new run.
* A client that does not read holds `GracefulStop`, and a title flushed late comes after
  the reset.
* An event is lost to a follower that opens the log between a rotation's two steps
  (`cut`), whose file was replaced twice (`late`), whose new file has the inode of the
  old (`reused`), or whose snapshot was released before `scanLoop` seeks, with a rotation
  in between (`deaf`, `eventlog/reader.go:200`): the last never hears of the log again.
  The polling watcher misses a file that came and went.
* A rotation during discovery can show an archive twice, not at all, or fail the read
  (`moved`); one cut between the marker and the rename hides what is written after the
  marker (`cut`); one between the replay and the bridge loses lines (`turned`).  Lines
  written between `NewReader` and `CurrentEnd` are lost to `--since now`.  `StartOffset`
  is not honoured after a rotation (against `logdriver/options.go:34`).

Compose:

* The failed stop of a dependent does not keep its dependencies up (against the comment
  near `service_reconcile.go:238`).  What holds is `DependentsFirst`.
* A cancelled walk leaves without `finalize`: vertices never consumed are reported as
  successes.  `upStartAction` skips a replica the snapshot ahead of the walk had running.
* A death between the success of an acquire and the holder loses the value; `dropHolder`
  after a stale read drops a newer one; a `stop_pre` release that worked ahead of a stop
  that failed leaves a replica running without its resource; a failed `create_pre` leaves
  an exec command no later down finds; a hook command that runs as a down removes its
  replica stays, as the manual says, and so does one whose removal fails, which is logged
  only; a down can leave a holder whose hooks are no longer
  stored (against `doc/man/cmdman-compose-down.1.md:87`).
* With a lower replica missing, an index names another replica or none: `ResolveCommandID`
  counts positions (`service_attach.go:41`, against `target.go:111`).  Without a file, a
  restart or stop fails when a dependency has no stored replica.
* The stored records of a replica are not always in the order of their times, which are
  taken ahead of `outputMu` (against `service_logs.go:143`); a record stamped before now
  and written after the reader's end is in neither phase (against `:108`).  What holds
  always is that no record is shown twice.

Jobs and windows:

* The child of a killed monitor survives it.  Once a listing has settled the record, or a
  launch has replaced it, a second down of the project runs beside the first; a follower is
  told that the job failed, or a probe that it never ran, while it works on.  What holds is
  `OneAtATime`: two run at once only when the one whose monitor was killed is in no record.
  The half record of a failed create locks a
  mux window out.  A launch that finds the lock busy because the old run's monitor is
  still leaving is answered by a down already over.
* Between `split-window` and `set-option` a pane has no mark (`torn`).  An `up` that shows
  the default frame races a user's hide.  Two shows that race each find no frame, or the same
  one, and stack theirs (`mux/frame.go:231`, against the comment at `:232`): the frame to
  take away is the one read as the window was opened.  `ShowComplete` is about a show that
  nothing interfered with.  A hide or down that dies between clearing the
  state and releasing the window leaves its stamp and border, an up that dies ahead of the
  owner stamp leaves a stray window, and `remain-on-exit` may be left on.  The scale is
  read and written in two commands; the kill of a pane that has exited aborts the verb;
  verbs are serialised per name only.

Attach and TUI:

* A byte that breaks a match is looked at as a first key only, so detach keys whose first
  key comes again ahead of the last may be missed (`A,A,B` typed as `A,A,A,B`); the model
  assumes keys without that, as the default is (`DetachKeysAssumption`).  Keys in the reader's buffer or in a partial match are lost
  as the reader changes (against the comment in `sticky.go`), and an `r` typed to the
  program that is carried over restarts it at the prompt.  A detach that races the remote
  end may be swallowed.  A failed `Inspect` counts as down.
* An event slot that holds an error swallows a change; an event logged ahead of its row
  makes a list stale; an older list may land last.  A re-list, and the reply to a removal
  that was asked for meanwhile, clear the markers, so a second start or stop can be
  issued.  The push of an old run may come after the new run's
  (`late`), and a window does not always close on the next re-list (`missed`).
* A second compose up confirmed while the first is under way replaces the overlay without
  closing the stream, and the first blocks after 64 events.  Replies of the definition
  viewer and of an up are matched by project name only.
* A listing that lands does not move the launcher's failure slot (`moved`), and one read
  ahead of a bring-up's end replaces its row, as a lookup's result does that was read ahead
  of it (`crossed`).  A bring-up whose `MuxUp` or `MuxLand` fails leaves the project up and
  its row not running; a teardown that fails half way leaves the row running (`partly`).  A teardown clears the marker of
  a bring-up; a starting row can be launched again.
* A project without a directory changes its key as its commands come and go, and the
  switcher's selection falls to the first.  A teardown is followed from its first progress
  on, so that a second one can be asked for and confirmed ahead of it.  A bell cleared and rung between two pushes is
  not shown (`blurred`).
* The panel's first load overlaps a reload; a teardown's progress sets `pending` beside
  another action (`joined`); a failed reload leaves counts that are superseded, and so does
  a scale or a teardown that partly landed, which is reported as failed and not reloaded
  (`projectmanager.go:234`): the next `+` or `-` counts from the old number (`outdated`).

## Proofs

`MonitorRunProofs` proves, for every set of stops, policy, retry limit and choice
of leftovers, and for any number of runs:

* `TypeCorrect`, then `SafetyInvariant` (`Spec => []SafetyInv`) with one lemma per
  part of `Next` and one step per action;
* from those two, `StopEndsLoop`, `StopKeepsToRun`, `RowMatchesLog`,
  `OnlyGracefulEscalates`, `RestartsExact`, `SweepYields`, `NothingLeftBehind` and
  `SequenceInsideRun`;
* `ForcedKillOneEvent`, whose own induction counts the goroutines that have the
  event still to append: a step leaves them alone, adds the one that latched
  first, or removes the one that appended;
* `StopSafe`, `ForcedKillSafe`, `RowSafe` and `SweepSafe`, which put those together
  to the properties that `monitor_safety` checks;
* `RefinesLifecycle` (`Spec => ImplementsLifecycle`): every action is a step of
  `CommandLifecycle` or leaves its state alone.

None of the properties is inductive.  `OneRunPastStop` needs to know that an
iteration that has got past the check at the top of the loop has not yet made its
run past the stop (`StopInv`); `TerminalRowMatchesLog` needs that nothing latches
`forceKilled` once the group is given up, which rests on `HandlesInv` (the handles
name the latest run exactly while it is held) and `LatchInv`; `ForcedKillEscalates`
needs that timers, sequences and escalating calls all stem from a graceful stop
(`EscalationInv`); `SessionSwept` needs that what the child left is in every batch
a scan returns (`SurvivorInv`).  TLC checks `SafetyInv` in `monitor_safety`.  The
only assumption is `ConstantsAssumption`, the types of the constants.

`SupervisionProofs` proves, for any sets of invocations and monitors, any choice of
operations and any number of pid files:

* `TypeCorrect` and `SupervisionInvariant` (`Spec => []SupervisionInv`);
* `EndRecorded`, `OneSupervisor` and `PollSound`, and with them `SupervisorSafe`,
  which states the property that `supervision` checks.

`SupervisionInv` is what makes them inductive.  `OneSupervisorPerFile` needs that
every monitor past the lock still holds the lock of the file it opened
(`HoldsItsFile`), through probes, holds, crashes and kills, and so that a file is
opened before it is locked (`StepOrder`).  `EndRecordedBeforeRelease` looks at a
monitor that has left; what carries it is that from its terminal write on nobody
writes an active state in its name (`EndIsRecorded`), which holds since a marked
death only ever writes `failed`.  `PollSeesNewRun` needs what a waiting start can
see as long as no monitor has written: the state it marked, a marked death or a
removal (`WaitsOnItsMark`).  Two framing lemmas say what a step of one process
leaves alone, so that each part is proved over the few actions that can disturb
it.  The assumptions are `ProcessAssumption` (clients, monitors and `Nobody` are
told apart), `OpsAssumption`, `AutoRemoveAssumption` and `InodeAssumption`.

`CleanEnd` (`Spec => []CleanEndKept`) has an inductive invariant of its own,
`CleanInv`: as long as no two monitors opened one pid file (`OwnFiles`), a file keeps
its name from its opening until its monitor takes the name away (`NameKept`), so what a
probe finds free or absent is not the file of a monitor that is still at work, and what
the re-read after it finds is the last word of that monitor (`ProbesTrue`).

`ReconcileWalkProofs` proves, for any acyclic graph with any scales, targets, number of
workers and permits:

* `WalkInvariant` (`Spec => []WalkInv`), and from it `WalkSafe` (`WalkSafety`) and
  `VerdictsHold` (`VerdictsTrue`).

That a walk which is over has consumed or blocked everything needs that no wake-up is
lost: every command not yet claimed waits for one that is not consumed, or is queued, or
a worker is about to send it.  From there the argument goes down the graph: a command
left over has an awaited one left over, which contradicts that the graph is acyclic
(`ValidateDAG`: every set of commands has one that depends on none of the set).  `ConditionsMet`
needs that what an action reported is what its replicas have come to and remain
(`ResultsInv`, `ReadyInv`).  The assumptions are types, finite sets of commands and
workers, and that there is at least one of each.

`DetachedJobProofs` proves, for any number of invocations, records, seconds and faults:

* `JobInvariant` (`Spec => []JobInv`), `JobSafe` (`JobSafety`), and the action property
  `AnswersHold` (`Spec => AnswersTrue`).

`OneAtATime` is not inductive: that no second down comes up rests on the lock file being
held from the lookup to the end of the launch, on what the launch found or made
remaining so while it is held, and on a record being removed only under the pid lock of
its monitor.  A job whose monitor was killed is counted in as long as its record says that
it is active; the theorem leaves out just the one that no record names any more.  The assumption names the kinds and tells invocations, `Nobody` and the
monitor apart.

`OutputProofs` proves, for any number of runs, chunks, monitors and reports, and
channels and streams of any capacity:

* `OutputInvariant` (`Spec => []OutInv`), `OutputSafe` (`OutputSafety`), and the action
  property `OutputStepsHold` (`Spec => OutputSteps`).

A generation is given to one run, and a reader has the current one only while its run is
on (`GenInv`): that is why a late reader cannot latch a title.  What the client has, what
the stream holds for it and what is in its handler's channel are one ascending sequence,
with no gap unless a record was dropped (`OrderInv`, `GapInv`).

Of the log files the same module proves, for any sizes of lines, any `max-size` and
`max-file` (a `max-size` of 0 bounds nothing, a `max-file` of 0 or 1 keeps no archive), and
any number of lines and crashes:

* `FilesAreSafe` (`LogSpec => []FilesSafe`).

`NewestKept` speaks of all the names at once and is not inductive.  `FilesInv` gives each
name its share (`LayoutOK`): there are bounds, descending from the last line written, and
the file of name n has exactly the lines between its two.  A rename moves a share up a name
and leaves an empty one behind, which needs that no file has two names (`NamesOK`) and that
a rotation has left the name it comes to empty (`WriterOK`).  A crash in between drops that
last fact but not the layout, so the next rotation begins from a sound one, whichever names
the last left empty; only the file it moves over the oldest name is lost.  `SizeBounded`
holds because what the writer counts is what the active file holds, markers included
(`SizesOK`), also for the writer that comes after a crash.  What the bytes and the lines of a
file are when an entry is added (`OneMore`) is induction over the file.  The assumption is
that no entry is empty.

`EventLogProofs` proves, for files of any size, any number of events and cut appends, any
requests, and inodes that are reused or not:

* `LogInvariant` (`Spec => []LogInv`), `LogSafe` (`LogSafety`), and the action property
  `ReadsHold` (`Spec => ReadsInOrder`).

The archive holds the events from some point to another and the active file those from
there to the last (`SplitInv`), wherever a rotation is cut, and a file of neither path
holds nothing that is left (`GoneInv`).  Of a reader under no excuse the invariant says
of each file it holds which lines it has delivered and that no other file can hold one in
between (`ReaderInv`).  `EventLogAssumption` says that the log at the start is no longer
than the number of events.

`TuiProofs` proves, for any commands, changes, loads, streams, moves and lines, a merged
channel of any size, any number of keys, actions and ups, and an attach with any detach
keys that satisfy `DetachKeysAssumption`, any number of keys typed and a read buffer of any
size:

* of the list, `ListInvariant` (`TuiSpec => []WatchInv`) and `ListHolds` (`ListSafety`);
* of the preview, `PreviewInvariant` (`TuiSpec => []PreviewInv`) and `PreviewHolds`
  (`PreviewSafety`);
* of the keys and the attach, `KeysInvariant` (`TuiSpec => []KeysInv`), `AttachInvariant`
  (`TuiSpec => []AttachInv`) and `KeysHolds` (`KeysSafety`);
* of the keys, the launcher and the switcher, `StepsHold` (`TuiSteps`).

`ListSettles` speaks of a quiet state only.  What makes it inductive is that the list on
screen is as the commands are or something that brings a newer one is still on its way: a
signal, a debounce tick of the current generation, a load not yet read, one that has read
all changes (`FreshInv`).  `SubsInv` and `WordsInv` say the same of a row's words: its
stream is about to send them, or they are in the channel, or on the row.  The proof corrected
the model: with three loads at once, a stale list may be followed by one that is newer and
still knows nothing of the last change, so the excuse for a stale list lasts until a list
with all changes lands.

`OneLoop` needs that a generation is one stream's (`GensInv`), and that a preview that did
not come back too early has either one open under way or one reader, its own
(`SingleInv`).  From the latter follows `CrashAfterReturn`: the panic of `preview_crash` is
possible only after a return to a command whose open or line was still on its way.

`OneLifecycle` is inductive together with the marker: a start, stop or restart is alone as
long as its row is marked, and the row is marked as long as nothing cleared it (`LifeInv`).
The spinner turns while anything is in progress because whatever can put something in
progress (a list with a `starting` row, an event with a mark that is pending, a key) asks
for it in the same handler, and only the tick stops it (`SpinInv`).  The proof found a case that the model had left out: a removal is asked for without a look
at the marker, and its reply clears the marker of a start still under way.  The overlay of
an up that did not overlap another is read by exactly one reader of its own stream, and
one that did by some reader of its project's name (`UpsInv`).

`DetachExact` says that a reader detaches just when the keys it took end with the detach
keys.  The reader keeps only the number of keys matched so far, so the invariant is that
this number is the longest start of the detach keys that ends what was taken (`Longest` in
`MatchInv`); that one comparison with the first key is enough after a mismatch is where
the assumption on the keys is needed.  The proof showed that the assumption made before
(no start of the keys is also an end) was too weak.  `KeysHandedOn` follows from
`ReaderInv`: what was taken is what was handed on and the held-back start.

`StepsHold` needs of the state only that a popup asks about the command that was selected
(`AskInv`) and that each call has a slot (`CallsInv`); the rest is that a re-list and a
rebuild look the selected key up in what they show, and that every teardown but the one a
`y` answers begins as another call.

`ComposeProofs` proves, for any hooks, keys, values and faults of a replica, any number of
replicas and records in the logs, and any finite set of commands with any files, scales,
graphs and permits:

* of a replica, `ReplicaInvariant` (`ComposeSpec => []ReplicaInv`), and from it
  `ResourcesAreSafe` (`ResourceSafety`) and `VerbsAreTrue` (`VerbsTrue`);
* of the logs, `LogsAreTrue` (`LogsSafety`), over the inductive invariant `LogsInv`;
* of the project, `GraphLayers`, `ProjectIsSafe` (`ProjectSafety`), over the inductive
  invariant `ProjectInv`, and with the logs `ProjectIsTrue` (`ProjectTrue`).

A resource may be named in three places: its holder, what the recorder of a down has noted,
and a release that is still to run.  `NothingLost` and `NoSecondRelease` are inductive with
`SlotsOK` (the places agree, and no value is that of two resources) and `ReleasedOK` (what is
named is not released, but for the value whose release has just run).  That a release runs
at most twice in a down needs which phase counts which hook (`RunsOK`): one that releases at
the stop is run there and retried before the removal, one that releases at the remove has no
retry, and what is stranded is released only if the replica was not listed or not stopped.
What a verb reports is carried from the phase in which it is decided to the end
(`DownTrue`, `ExecsTrue`, `UpTrue`).

The stock of the logs is a merge of readers whose positions move; as long as each log is in
the order of time, what a reader has yet to give is not older than anything put out
(`OrderOK`).  A follower is between its read and its look at the end for a while, and what
is written then is the gap that `LogsSafety` names (`StreamOK`).

`GraphLayers` is about the code's two loops on the graph, `ValidateDAG` and `topoLayers`, as
operators: the graph is refused just when a command comes after itself through any number
of others, and otherwise the layers are a partition with everything a command comes after
below it.  Both loops, and the closure they are compared with, are functions defined
step by step; the proof shows that each exists, is the only one, grows, and stops growing
after as many steps as there are commands.  `ProjectInv` says of a restart how far its walk
through those layers is (`StopOK`, `StartOK`): every layer above the one at hand stopped and
none below it touched, then the same upwards for the starts; and of what a create has
settled that nothing has changed it since.

The assumptions are that `Nothing` is no key, value or record, that no value is one of the
two words the recorder uses, that keys and commands are finite sets, and that a file is
normalised: a scale is at least 1 (`normalize.go` refuses a smaller one).  The places
of a hook's steps are counted by `Cardinality`, since the provers do not know `SelectSeq`.

TLC checked each of these inductive invariants ahead of its proof, on the instance of the
module's run or one near it.

Induction over data works as long as it is stated about a set: `LeastNatural` and
`SetInduction` (a set with 0 and the successor of each of its members has every natural) come
from the well-foundedness of `<`, and recursive functions are reached through them.  What
stays out of reach are `RECURSIVE` operators and the Java-evaluated `SortSeq` and
`SelectSeq`.

Only model-checked: every liveness property (`ShutdownEnds`, `StopEnds`,
`DeadRunSettled`, `WalkEnds`, `CatchesUp`, `ReadersEnd`, `StreamsSettle`, `FollowEnds`),
since fairness is out of the proof system's reach; `ReadsTrue` of `LogFile` and `MuxSafety`
of `Mux`, which are not proved yet; and `WidgetSafety`, which needs that `SetToSortSeq` lists its set,
and the prover does not know the `SortSeq` of the module `TLC` that it is defined by.

## Not modelled

* The build without `/proc` (`orphans_other.go`), pid reuse, the bytes of the scrollback
  and the screen, an attach's stdin and resizes inside the monitor, hook processes and
  filters.
* Errors of the store in `Supervision`, the crash of an invocation that holds the pid
  lock, the compose history, migrations, generated queries.
* Torn writes in either log, log entries longer than a block, `Reader.Follow` (nothing
  calls it).
* Parsing, interpolation and hashing of compose files: data without control.  Concurrent
  compose invocations on one replica's holders.  Wait, inspect and events of a project,
  which change nothing.
* tmux sizes, floating panes, focus and land; terminal modes; rendering, scrolling and the
  mouse in the TUI; flags and output of the CLI; generated gRPC code.

Left of the plan: proofs about the reads of the log files (`ReadsTrue`) and the windows
(`MuxSafety`).
