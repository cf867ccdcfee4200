------------------------------ MODULE TuiWatch ------------------------------
(***************************************************************************)
(* How the list of `cmdman tui` follows the commands: the lifecycle        *)
(* signals and the debounced re-list they cause (tui/update.go,            *)
(* tui/runtime.go, tui/internal/core/events.go), the runtime-state streams *)
(* the list is reconciled with (tui/internal/core/runtime_watch.go) and    *)
(* the words their pushes put on the rows.                                 *)
(*                                                                         *)
(* The Update loop is one goroutine: each of its handlers is one step.     *)
(* Beside it run the loads, the event pump, one pump per stream, and the   *)
(* commands themselves.  A command's words are known by the run that said  *)
(* them.                                                                   *)
(***************************************************************************)
EXTENDS Integers, Sequences, FiniteSets

CONSTANTS
    Cmds,           \* the commands
    ChanCap,        \* room in the merged channel (16 in the code)
    MaxChanges,     \* bound: lifecycle changes of the commands
    MaxLoads,       \* bound: list loads under way at once
    MaxSubs,        \* bound: pumps at once
    MaxWatchFaults  \* bound: failing loads, subscriptions and records

ASSUME WatchAssumption ==
    /\ IsFiniteSet(Cmds) /\ "none" \notin Cmds
    /\ ChanCap \in Nat \ {0} /\ MaxChanges \in Nat /\ MaxLoads \in Nat \ {0}
    /\ MaxSubs \in Nat /\ MaxWatchFaults \in Nat

VARIABLES
    life,      \* the commands in the store: "gone", "down" or "up"
    run,       \* the number of each command's latest run
    next,      \* the state an event has announced and the store has not yet
    changes,   \* how many changes were announced
    signal,    \* the slot of the event stream
    events,    \* the model's subscription
    gen,       \* reloadGen
    ticks,     \* the generations of the debounce ticks under way
    loads,     \* the list loads under way
    rows,      \* the rows' states
    words,     \* the run whose words a row shows, 0 when it shows none
    cache,     \* the runtime cache
    shown,     \* how many changes the list on screen knew of
    subs,      \* the watcher's held streams
    pump,      \* the pump of each stream
    updates,   \* the merged channel
    watcher,   \* "open", "closing" (Close waits) or "closed"
    excuse,    \* why a row may stay wrong
    wfaults

watchVars == <<life, run, next, changes, signal, events, gen, ticks, loads, rows, words,
               cache, shown, subs, pump, updates, watcher, excuse, wfaults>>
world   == <<life, run, next, changes>>
feed    == <<signal, events, gen, ticks>>
screen  == <<rows, words, cache, shown>>
streams == <<subs, pump, updates, watcher>>

Runs   == 0..MaxChanges
SubIds == 1..MaxSubs
States == {"gone", "down", "up"}
NoPump == [cmd |-> "none", run |-> 0, pushes |-> 0, stopped |-> FALSE, pc |-> "over"]
NoLoad == [read |-> "no", at |-> 0, snap |-> [c \in Cmds |-> "gone"], torn |-> FALSE]
Asked  == [NoLoad EXCEPT !.read = "asked"]

WatchInit ==
    /\ life \in [Cmds -> {"down", "up"}]
    /\ run = [c \in Cmds |-> IF life[c] = "up" THEN 1 ELSE 0]
    /\ next = [c \in Cmds |-> "none"] /\ changes = 0
    /\ signal = "none" /\ events = "asked" /\ gen = 0 /\ ticks = {}
    /\ loads = [i \in 1..MaxLoads |-> IF i = 1 THEN Asked ELSE NoLoad]
    /\ rows = [c \in Cmds |-> "gone"]
    /\ words = [c \in Cmds |-> 0] /\ cache = words /\ shown = 0
    /\ subs = [c \in Cmds |-> 0] /\ pump = [s \in SubIds |-> NoPump]
    /\ updates = <<>> /\ watcher = "open"
    /\ excuse = {} /\ wfaults = 0

Fault == wfaults < MaxWatchFaults /\ wfaults' = wfaults + 1

----------------------------------------------------------------------------
(* The commands.  The monitor logs an event ahead of the row it is about.  *)

Follows == {<<"down", "up">>, <<"up", "down">>, <<"down", "gone">>}

\* The event pump: a record that finds the slot taken is dropped, the slot
\* being the cue of a re-list that has not begun.
Signalled(sig) ==
    signal' = IF events \in {"waiting", "opened"} /\ signal = "none" THEN sig ELSE signal

Announce(c, st) ==
    /\ changes < MaxChanges /\ next[c] = "none" /\ <<life[c], st>> \in Follows
    /\ next' = [next EXCEPT ![c] = st] /\ changes' = changes + 1
    /\ Signalled("change")
    /\ excuse' = IF events = "asked" THEN excuse \cup {"early"}
                 ELSE IF signal = "error" THEN excuse \cup {"swallowed"} ELSE excuse
    /\ UNCHANGED <<life, run, events, gen, ticks, loads, screen, streams, wfaults>>

Settle(c) ==
    /\ next[c] # "none"
    /\ life' = [life EXCEPT ![c] = next[c]] /\ next' = [next EXCEPT ![c] = "none"]
    /\ run' = IF next[c] = "up" THEN [run EXCEPT ![c] = @ + 1] ELSE run
    /\ UNCHANGED <<changes, feed, loads, screen, streams, excuse, wfaults>>

\* The event log's tail reports a record it could not read.
RecordFails ==
    /\ Fault /\ events = "waiting" /\ signal = "none" /\ signal' = "error"
    /\ UNCHANGED <<world, events, gen, ticks, loads, screen, streams, excuse>>

----------------------------------------------------------------------------
(* Signals, debounce and loads.                                             *)

Running == watcher = "open"

\* SubscribeCmd has opened the stream; onEventsSubscribed takes it.
EventsOpen ==
    /\ events = "asked" /\ events' = "opened"
    /\ UNCHANGED <<world, signal, gen, ticks, loads, screen, streams, excuse, wfaults>>

EventsSubscribed ==
    /\ Running /\ events = "opened" /\ events' = "waiting"
    /\ UNCHANGED <<world, signal, gen, ticks, loads, screen, streams, excuse, wfaults>>

EventsFail ==
    /\ Running /\ Fault /\ events \in {"asked", "waiting"} /\ signal = "none"
    /\ events' = "off" /\ excuse' = excuse \cup {"deaf"}
    /\ UNCHANGED <<world, signal, gen, ticks, loads, screen, streams>>

EventSignal ==
    /\ Running /\ events = "waiting" /\ signal # "none"
    /\ signal' = "none"
    /\ IF signal = "change" THEN gen' = gen + 1 /\ ticks' = ticks \cup {gen + 1}
                            ELSE UNCHANGED <<gen, ticks>>
    /\ UNCHANGED <<world, events, loads, screen, streams, excuse, wfaults>>

FreeLoads == {i \in 1..MaxLoads : loads[i].read = "no"}
Lowest(S) == CHOOSE i \in S : \A j \in S : i <= j

StaleTick(g) == g # gen

ReloadTick(g) ==
    /\ Running /\ g \in ticks /\ ticks' = ticks \ {g}
    /\ IF StaleTick(g) THEN UNCHANGED loads
       ELSE /\ FreeLoads # {}
            /\ loads' = [loads EXCEPT ![Lowest(FreeLoads)] = Asked]
    /\ UNCHANGED <<world, signal, events, gen, screen, streams, excuse, wfaults>>

ReadList(i) ==
    /\ loads[i].read = "asked"
    /\ loads' = [loads EXCEPT ![i] = [read |-> "yes", at |-> changes, snap |-> life,
                                      torn |-> \E c \in Cmds : next[c] # "none"]]
    /\ UNCHANGED <<world, feed, screen, streams, excuse, wfaults>>

LoadFails(i) ==
    /\ Running /\ loads[i].read = "asked" /\ Fault
    /\ loads' = [loads EXCEPT ![i] = NoLoad]
    /\ excuse' = excuse \cup {"failed"}
    /\ UNCHANGED <<world, feed, screen, streams>>

----------------------------------------------------------------------------
(* The watcher.                                                             *)

Over(s)  == pump[s].pc = "over"
FreeSubs == {s \in SubIds : Over(s)}

Stopped(p, S) == [s \in SubIds |-> IF s \in S THEN [p[s] EXCEPT !.stopped = TRUE] ELSE p[s]]

\* The streams a list load drops, and the commands it dials.  A dial of a
\* command whose monitor has gone meanwhile fails.
Dropped(snap) == {c \in Cmds : subs[c] # 0 /\ snap[c] # "up"}
Dialled(snap) == {c \in Cmds : subs[c] = 0 /\ snap[c] = "up" /\ life[c] = "up"}

Numbered(D) == CHOOSE f \in [D -> FreeSubs] : \A c, d \in D : f[c] = f[d] => c = d

Reconcile(snap, failing) ==
    LET D  == Dialled(snap) \ failing
        nr == Numbered(D)
        p  == Stopped(pump, {subs[c] : c \in Dropped(snap)})
    IN /\ Cardinality(D) <= Cardinality(FreeSubs)
       /\ subs' = [c \in Cmds |-> IF c \in D THEN nr[c]
                                  ELSE IF c \in Dropped(snap) THEN 0 ELSE subs[c]]
       /\ pump' = [s \in SubIds |->
              IF \E c \in D : nr[c] = s
              THEN LET c == CHOOSE c \in D : nr[c] = s
                   IN [cmd |-> c, run |-> run[c], pushes |-> 1, stopped |-> FALSE,
                       pc |-> "recv"]
              ELSE p[s]]

\* A re-list of a command that came back sees its ended stream as held, or
\* fails to dial it: nothing asks again until the next lifecycle event.
Missed(snap, failing) ==
    \E c \in Cmds : /\ snap[c] = "up"
                    /\ \/ subs[c] # 0 /\ pump[subs[c]].run # run[c]
                       \/ c \in failing

SweptCache(snap) == [c \in Cmds |-> IF snap[c] = "up" THEN cache[c] ELSE 0]

\* onCommandsLoaded: the streams, the cache and the rows follow the list.
CommandsLoaded(i) ==
    /\ Running /\ loads[i].read = "yes"
    /\ LET l == loads[i] IN
       \E failing \in SUBSET Dialled(l.snap) :
          /\ IF failing = {} THEN UNCHANGED wfaults ELSE Fault
          /\ Reconcile(l.snap, failing)
          /\ rows' = l.snap
          /\ cache' = SweptCache(l.snap)
          /\ words' = [c \in Cmds |-> IF l.snap[c] = "up" THEN cache[c] ELSE 0]
          /\ shown' = l.at
          /\ excuse' = (excuse \ (IF l.at < changes THEN {"missed"} ELSE
                            {"stale", "missed", "early", "swallowed", "failed"}))
                       \cup (IF l.torn \/ l.at < shown THEN {"stale"} ELSE {})
                       \cup (IF Missed(l.snap, failing) THEN {"missed"} ELSE {})
    /\ loads' = [loads EXCEPT ![i] = NoLoad]
    /\ UNCHANGED <<world, feed, updates, watcher>>

\* A pump receives: a push of its stream, or the end of it.
Ended(s) == LET p == pump[s] IN ~(life[p.cmd] = "up" /\ run[p.cmd] = p.run)

PumpReceives(s) ==
    /\ pump[s].pc = "recv"
    /\ IF pump[s].pushes > 0
       THEN pump' = [pump EXCEPT ![s].pushes = @ - 1, ![s].pc = "send"]
       ELSE Ended(s) /\ pump' = [pump EXCEPT ![s].pc = "ended"]
    /\ UNCHANGED <<world, feed, loads, screen, subs, updates, watcher, excuse, wfaults>>

PumpCancelled(s) ==
    /\ pump[s].stopped
    /\ \/ pump[s].pc = "recv"
       \/ pump[s].pc \in {"send", "last"} /\ Len(updates) >= ChanCap
    /\ pump' = [pump EXCEPT ![s] = NoPump]
    /\ UNCHANGED <<world, feed, loads, screen, subs, updates, watcher, excuse, wfaults>>

\* Room wins over a cancelled context.
PumpSends(s) ==
    /\ pump[s].pc \in {"send", "last"} /\ Len(updates) < ChanCap
    /\ updates' = Append(updates, [cmd |-> pump[s].cmd, closed |-> pump[s].pc = "last",
                                   run |-> pump[s].run])
    /\ pump' = [pump EXCEPT ![s] = IF @.pc = "last" THEN NoPump ELSE [@ EXCEPT !.pc = "recv"]]
    /\ UNCHANGED <<world, feed, loads, screen, subs, watcher, excuse, wfaults>>

\* An ended stream's pump stops itself, then drops its entry.
StaysUnstopped(s) == pump' = [pump EXCEPT ![s].pc = "drop"]
StopsItself(s) == pump' = [pump EXCEPT ![s].pc = "drop", ![s].stopped = TRUE]

PumpEnds(s) ==
    /\ pump[s].pc = "ended" /\ StopsItself(s)
    /\ UNCHANGED <<world, feed, loads, screen, subs, updates, watcher, excuse, wfaults>>

DropEnded(s) == [c \in Cmds |-> IF subs[c] = s THEN 0 ELSE subs[c]]

PumpDrops(s) ==
    /\ pump[s].pc = "drop" /\ subs' = DropEnded(s)
    /\ pump' = [pump EXCEPT ![s].pc = "last"]
    /\ UNCHANGED <<world, feed, loads, screen, updates, watcher, excuse, wfaults>>

LiveRow(c) == rows[c] = "up"

RuntimeUpdate ==
    /\ Running /\ updates # <<>>
    /\ LET u == Head(updates) IN
       IF ~u.closed /\ LiveRow(u.cmd)
       THEN /\ cache' = [cache EXCEPT ![u.cmd] = u.run]
            /\ words' = [words EXCEPT ![u.cmd] = u.run]
            /\ excuse' = IF u.run < words[u.cmd] THEN excuse \cup {"late"} ELSE excuse
       ELSE UNCHANGED <<cache, words, excuse>>
    /\ updates' = Tail(updates)
    /\ UNCHANGED <<world, feed, loads, rows, shown, subs, pump, watcher, wfaults>>

\* quit: Close runs on the Update goroutine, which does nothing else until
\* every pump is over.
Quit ==
    /\ Running /\ watcher' = "closing"
    /\ pump' = Stopped(pump, {subs[c] : c \in Cmds})
    /\ subs' = [c \in Cmds |-> 0]
    /\ excuse' = excuse \cup {"quit"}
    /\ UNCHANGED <<world, feed, loads, screen, updates, wfaults>>

PumpsOver == \A s \in SubIds : Over(s)

CloseReturns ==
    /\ watcher = "closing" /\ PumpsOver /\ watcher' = "closed"
    /\ UNCHANGED <<world, feed, loads, screen, subs, pump, updates, excuse, wfaults>>

LoopNext ==
    \/ EventsSubscribed \/ EventSignal \/ RuntimeUpdate \/ CloseReturns
    \/ \E g \in ticks : ReloadTick(g)
    \/ \E i \in 1..MaxLoads : CommandsLoaded(i)
PumpNext(s) == PumpReceives(s) \/ PumpCancelled(s) \/ PumpSends(s) \/ PumpEnds(s) \/ PumpDrops(s)

WatchNext ==
    \/ \E c \in Cmds : Settle(c) \/ \E st \in States : Announce(c, st)
    \/ RecordFails \/ EventsOpen \/ EventsFail \/ Quit \/ LoopNext
    \/ \E i \in 1..MaxLoads : ReadList(i) \/ LoadFails(i)
    \/ \E s \in SubIds : PumpNext(s)

WatchSpec == WatchInit /\ [][WatchNext]_watchVars

----------------------------------------------------------------------------
(* Properties.                                                              *)

WatchTypeOK ==
    /\ life \in [Cmds -> States] /\ run \in [Cmds -> 0..(MaxChanges + 1)]
    /\ next \in [Cmds -> States \cup {"none"}] /\ changes \in 0..MaxChanges
    /\ signal \in {"none", "change", "error"}
    /\ events \in {"asked", "opened", "waiting", "off"}
    /\ gen \in 0..MaxChanges /\ ticks \subseteq 1..MaxChanges
    /\ rows \in [Cmds -> States] /\ words \in [Cmds -> 0..(MaxChanges + 1)]
    /\ subs \in [Cmds -> 0..MaxSubs] /\ Len(updates) <= ChanCap
    /\ watcher \in {"open", "closing", "closed"}
    /\ \A s \in SubIds : pump[s].pc \in {"recv", "send", "ended", "drop", "last",
                                         "over"}

\* RuntimeWatcher.Close ends the merged channel only once no pump is left to
\* send on it, which would panic.
NoSendAfterClose == watcher = "closed" => \A s \in SubIds : Over(s)

\* Whatever can still park is in the set Close cancels, or was cancelled: a
\* pump whose stop was not called is the held one of its command.  So Close,
\* which waits for the pumps on the Update goroutine, returns.
PumpsHeld == \A s \in SubIds :
    ~Over(s) /\ ~pump[s].stopped => subs[pump[s].cmd] = s

\* The runtime cache holds the words of rows the list shows live, and a row
\* shows what the cache has: an entry outliving its row would paint the next
\* run with the words of the last (D13).
CacheFollowsList == \A c \in Cmds :
    /\ cache[c] # 0 => rows[c] = "up"
    /\ words[c] = cache[c]

\* Once the commands are left alone and every message on its way has landed,
\* the list shows them as they are and a live row the words of its own run.
\* What may keep it from there: a list read between an event and the row it is
\* about, or landing after a newer one, until one lands that has them all
\* ("stale"); an event ahead of the subscription ("early"), one
\* dropped on an error signal in the slot ("swallowed"), no subscription at
\* all ("deaf"); a load that failed; a stream not dialled again ("missed"); a
\* push of an earlier run landing after the first of this one ("late").
Faithful == \A c \in Cmds :
    rows[c] = life[c] /\ (life[c] = "up" => words[c] = run[c])
\* Nothing is on its way to the list.
Quiet ==
    /\ Running /\ events \in {"waiting", "off"} /\ signal = "none" /\ ticks = {} /\ updates = <<>>
    /\ \A c \in Cmds : next[c] = "none"
    /\ \A i \in 1..MaxLoads : loads[i].read = "no"
    /\ \A s \in SubIds : Over(s) \/ (pump[s].pc = "recv" /\ pump[s].pushes = 0 /\ ~Ended(s))
ListSettles == Quiet /\ excuse = {} => Faithful
=============================================================================
