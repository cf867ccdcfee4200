----------------------------- MODULE Switcher ------------------------------
(***************************************************************************)
(* The switcher (tui/widget/switcher/switcher.go): project groups joined   *)
(* from two listings that land in either order, the selection over groups  *)
(* that re-sort, the teardown question, and bells that selecting a project *)
(* reads while the monitor goes on reporting them.                         *)
(*                                                                         *)
(* Overlapping loads of one listing are TuiWatch's; here one is under way  *)
(* at a time.  A listing is read in one step and lands in another.         *)
(***************************************************************************)
EXTENDS Integers, Sequences, FiniteSets, SequencesExt

CONSTANTS
    SwChanges,  \* bound: changes of the commands
    SwKeys,     \* bound: keys pressed
    SwRings     \* bound: bells of the watched command

VARIABLES
    there,     \* the commands in the store, and
    alive,     \* those with a live monitor
    swaps,
    cmdLoad, projLoad,  \* the two listings under way
    cmds, projs,        \* what the last ones said
    groups,             \* their join
    focus,
    here,      \* the identity of the caller's window, "" for none
    ask,       \* the teardown waiting for its y
    jobs,      \* the teardowns asked for, and
    following, \* those that reported progress
    torn,      \* the project the last y tore down, with the one asked about
    held,      \* its state stream is held
    mon,       \* the watched command's bell, at its monitor
    push,      \* its latest state on the way, if any
    pushed,     \* what the last push said
    bell,      \* the row shows a bell
    read,      \* bellRead
    heard,     \* the ring the user has read
    blurred,   \* a bell was cleared and rung again between two pushes
    strokes

switchVars == <<there, alive, swaps, cmdLoad, projLoad, cmds, projs, groups, focus, here, ask,
                jobs, following, torn, held, mon, push, pushed, bell, read, heard, blurred, strokes>>
monitors == <<held, mon, push, pushed, bell, read, heard, blurred>>
asking   == <<ask, jobs, following, torn>>

\* Two projects of one name in two directories, a named definition of no
\* directory, and a command of no project.
SwCmds == {"c1", "c2", "c3", "c4"}
Watched == "c1"
KeyOf(c) == CASE c = "c1" -> [dir |-> "w1", name |-> "a"]
              [] c = "c2" -> [dir |-> "w2", name |-> "a"]
              [] c = "c3" -> [dir |-> "w3", name |-> "b"]
              [] OTHER   -> [dir |-> "w1", name |-> ""]
CallerDir == "w2"
Nowhere == [dir |-> "", name |-> ""]

NoFetch == [st |-> "none", all |-> {}, live |-> {}]
NoBell == [unread |-> FALSE, ring |-> 0]
NoPush == [any |-> FALSE, unread |-> FALSE, ring |-> 0]

\* ListProjects: the projects of the store, and the definition whether or not
\* it has run; it has a directory once it has commands.
ProjectList(all) ==
    {KeyOf(c) : c \in all \ {"c4"}} \cup (IF "c3" \in all THEN {} ELSE {[dir |-> "", name |-> "b"]})

----------------------------------------------------------------------------
(* The join.                                                                *)

GroupKeys(all) == {KeyOf(c) : c \in all}
Members(all, k) == {c \in all : KeyOf(c) = k}

MatchGroup(ps, all, p) ==
    IF p \in GroupKeys(all) THEN {p}
    ELSE IF p.dir # "" THEN {}
    ELSE {k \in GroupKeys(all) \ ps : k.name = p.name}

ClaimedBy(ps, all, p) ==
    LET ks == MatchGroup(ps, all, p) IN IF ks = {} THEN Nowhere ELSE CHOOSE k \in ks : TRUE

Entry(ps, all, p) ==
    LET k == ClaimedBy(ps, all, p) IN
    [key |-> IF p.dir = "" THEN [dir |-> k.dir, name |-> p.name] ELSE p,
     own |-> p, cmds |-> IF k = Nowhere THEN {} ELSE Members(all, k)]

Unclaimed(ps, all) ==
    {k \in GroupKeys(all) : k.name # "" /\ \A p \in ps : ClaimedBy(ps, all, p) # k}

ActiveMark(g, id) ==
    IF id # "" THEN g.own.dir = id /\ g.own.dir # "" ELSE g.key.dir # "" /\ g.key.dir = CallerDir

Before(g, h, id) ==
    LET rank(x) == (IF ActiveMark(x, id) THEN 0 ELSE 10)
                   + (CASE x.key.name = "a" -> 0 [] OTHER -> 5)
                   + (CASE x.key.dir = "w1" -> 1 [] x.key.dir = "w2" -> 2 [] OTHER -> 3)
    IN rank(g) < rank(h)

\* A group of commands that no entry claims has no identity to switch to.
SwitcherGroups(ps, all, id) ==
    SetToSortSeq({Entry(ps, all, p) : p \in ps}
                   \cup {[key |-> k, own |-> Nowhere, cmds |-> Members(all, k)] : k \in Unclaimed(ps, all)},
                 LAMBDA g, h : Before(g, h, id))

SelectedKey == IF focus \in 1..Len(groups) THEN groups[focus].key ELSE Nowhere

Reselect(gs, k) ==
    IF \E i \in 1..Len(gs) : gs[i].key = k THEN CHOOSE i \in 1..Len(gs) : gs[i].key = k ELSE 1

----------------------------------------------------------------------------
(* Bells.  A re-list drops what pushes said of a command that is not live.  *)

ShowsBell(all, c) == Watched \in all /\ c.any /\ c.unread
StillRead(all, c) == read /\ ShowsBell(all, c)
Quieted(all, c) == ShowsBell(all, c) /\ ~read

Rebuild(ps, all, id, c) ==
    LET gs == SwitcherGroups(ps, all, id) IN
    /\ groups' = gs /\ focus' = Reselect(gs, SelectedKey)
    /\ pushed' = c /\ bell' = Quieted(all, c) /\ read' = StillRead(all, c)

SwitchInit ==
    /\ there = {"c1", "c2", "c4"} /\ alive = {"c1"} /\ swaps = 0
    /\ cmdLoad = [NoFetch EXCEPT !.st = "asked"] /\ projLoad = [NoFetch EXCEPT !.st = "asked"]
    /\ cmds = NoFetch /\ projs = {} /\ groups = <<>> /\ focus = 1 /\ here = ""
    /\ ask = Nowhere /\ jobs = <<>> /\ following = {} /\ torn = [did |-> Nowhere, asked |-> Nowhere]
    /\ held = FALSE /\ mon = NoBell /\ push = NoPush /\ pushed = NoPush /\ bell = FALSE /\ read = FALSE
    /\ heard = 0 /\ blurred = FALSE /\ strokes = 0

\* The command of the named definition comes and goes, and the watched one ends
\* and runs again: its stream goes with the run.
Change(c) ==
    /\ swaps < SwChanges /\ swaps' = swaps + 1
    /\ IF c # Watched THEN /\ there' = (IF c \in there THEN there \ {c} ELSE there \cup {c})
                           /\ UNCHANGED <<alive, held, mon, blurred>>
       ELSE /\ alive' = (IF c \in alive THEN alive \ {c} ELSE alive \cup {c})
            /\ held' = FALSE /\ mon' = [mon EXCEPT !.unread = FALSE]
            /\ blurred' = (blurred \/ mon.unread) /\ UNCHANGED there
    /\ UNCHANGED <<cmdLoad, projLoad, cmds, projs, groups, focus, here, asking, push, pushed, bell,
                   read, heard, strokes>>

Reloads ==
    /\ cmdLoad.st = "none" /\ projLoad.st = "none"
    /\ cmds.all # there \/ cmds.live # alive \/ projs # ProjectList(there)
    /\ cmdLoad' = [NoFetch EXCEPT !.st = "asked"] /\ projLoad' = [NoFetch EXCEPT !.st = "asked"]
    /\ UNCHANGED <<there, alive, swaps, cmds, projs, groups, focus, here, asking, monitors, strokes>>

CommandsRead ==
    /\ cmdLoad.st = "asked" /\ cmdLoad' = [st |-> "read", all |-> there, live |-> alive]
    /\ UNCHANGED <<there, alive, swaps, projLoad, cmds, projs, groups, focus, here, asking, monitors, strokes>>

\* Streams are reconciled with the list: a live command's opens with its state.
SwitchLoaded ==
    /\ cmdLoad.st = "read" /\ cmds' = cmdLoad /\ cmdLoad' = NoFetch
    /\ held' = (Watched \in cmdLoad.live \cap alive)
    /\ push' = IF held' /\ ~held THEN [any |-> TRUE, unread |-> mon.unread, ring |-> mon.ring] ELSE push
    /\ Rebuild(projs, cmdLoad.all, here, IF Watched \in cmdLoad.live THEN pushed ELSE NoPush)
    /\ UNCHANGED <<there, alive, swaps, projLoad, projs, here, asking, mon, heard, blurred, strokes>>

ProjectsRead ==
    /\ projLoad.st = "asked" /\ projLoad' = [st |-> "read", all |-> there, live |-> {}]
    /\ UNCHANGED <<there, alive, swaps, cmdLoad, cmds, projs, groups, focus, here, asking, monitors, strokes>>

ProjectsLoaded ==
    /\ projLoad.st = "read" /\ projLoad' = NoFetch
    /\ projs' = ProjectList(projLoad.all)
    /\ Rebuild(projs', cmds.all, here, pushed)
    /\ UNCHANGED <<there, alive, swaps, cmdLoad, cmds, here, asking, held, mon, push, heard, blurred, strokes>>

\* The probe of the caller's window, which may find none.
IdentityLoaded(id) ==
    /\ id # here /\ here' = id
    /\ Rebuild(projs, cmds.all, id, pushed)
    /\ UNCHANGED <<there, alive, swaps, cmdLoad, projLoad, cmds, projs, asking, held, mon, push, heard,
                   blurred, strokes>>

\* A push not yet taken is replaced by the next.
Tells(m) ==
    /\ mon' = m
    /\ push' = IF held THEN [any |-> TRUE, unread |-> m.unread, ring |-> m.ring] ELSE push
    /\ blurred' = (blurred \/ (m.unread /\ push.any /\ ~push.unread) \/ ~held)
    /\ UNCHANGED <<there, alive, swaps, cmdLoad, projLoad, cmds, projs, groups, focus, here, asking,
                   held, pushed, bell, read, heard, strokes>>

Rings == Watched \in alive /\ mon.ring < SwRings /\ ~mon.unread /\ ~blurred /\ Tells([unread |-> TRUE, ring |-> mon.ring + 1])
Attached == Watched \in alive /\ mon.unread /\ Tells([mon EXCEPT !.unread = FALSE])

SwitchUpdate ==
    /\ push.any /\ push' = NoPush
    /\ IF Watched \in cmds.live THEN Rebuild(projs, cmds.all, here, push)
       ELSE UNCHANGED <<groups, focus, pushed, bell, read>>
    /\ UNCHANGED <<there, alive, swaps, cmdLoad, projLoad, cmds, projs, here, asking, held, mon, heard,
                   blurred, strokes>>

----------------------------------------------------------------------------
(* Keys.                                                                    *)

Stroke == strokes < SwKeys /\ strokes' = strokes + 1
SameLists == UNCHANGED <<there, alive, swaps, cmdLoad, projLoad, cmds, projs, groups, here>>

MoveSelection(d) ==
    /\ Stroke /\ ask = Nowhere /\ focus + d \in 1..Len(groups) /\ focus' = focus + d
    /\ SameLists /\ UNCHANGED <<asking, monitors>>

\* Switching to a project, by enter or a click, reads its bells.
ReadsBell(i) == bell /\ Watched \in groups[i].cmds
SwitchTo(i) ==
    /\ Stroke /\ i \in 1..Len(groups) /\ ask' = Nowhere /\ focus' = i
    /\ groups[i].own.dir # ""
    /\ bell' = (bell /\ ~ReadsBell(i)) /\ read' = (read \/ ReadsBell(i))
    /\ heard' = IF ReadsBell(i) THEN pushed.ring ELSE heard
    /\ SameLists /\ UNCHANGED <<jobs, following, torn, held, mon, push, pushed, blurred>>

AskDown ==
    /\ Stroke /\ ask = Nowhere /\ SelectedKey # Nowhere /\ SelectedKey \notin following
    /\ ask' = SelectedKey /\ torn' = [torn EXCEPT !.asked = SelectedKey]
    /\ SameLists /\ UNCHANGED <<focus, jobs, following, monitors>>

TearsAsked == ask
AnswerKey(yes) ==
    /\ Stroke /\ ask # Nowhere /\ ask' = Nowhere
    /\ torn' = IF yes THEN [torn EXCEPT !.did = TearsAsked] ELSE [did |-> Nowhere, asked |-> Nowhere]
    /\ jobs' = IF yes THEN Append(jobs, TearsAsked) ELSE jobs
    /\ SameLists /\ UNCHANGED <<focus, following, monitors>>

\* ComposeDownProgressMsg and ComposeDownMsg, of a teardown asked for.
DownReports(i) ==
    /\ i \in 1..Len(jobs) /\ following' = following \cup {jobs[i]} /\ following' # following
    /\ SameLists /\ UNCHANGED <<ask, jobs, torn, focus, monitors, strokes>>

DownEnds(i) ==
    /\ i \in 1..Len(jobs) /\ jobs' = RemoveAt(jobs, i) /\ following' = following \ {jobs[i]}
    /\ torn' = [did |-> Nowhere, asked |-> ask]
    /\ SameLists /\ UNCHANGED <<ask, focus, monitors, strokes>>

SwitchNext ==
    \/ \E c \in {Watched, "c3"} : Change(c)
    \/ Reloads \/ CommandsRead \/ SwitchLoaded \/ ProjectsRead \/ ProjectsLoaded
    \/ \E id \in {"", "w3"} : IdentityLoaded(id)
    \/ Rings \/ Attached \/ SwitchUpdate
    \/ \E d \in {-1, 1} : MoveSelection(d)
    \/ \E i \in 1..4 : SwitchTo(i)
    \/ AskDown \/ \E yes \in BOOLEAN : AnswerKey(yes)
    \/ \E i \in 1..SwKeys : DownReports(i) \/ DownEnds(i)

SwitchSpec == SwitchInit /\ [][SwitchNext]_switchVars
----------------------------------------------------------------------------
(* Properties.                                                              *)

SwitchTypeOK ==
    /\ alive \subseteq there /\ focus \in 1..4 /\ cmds.live \subseteq SwCmds
    /\ here \in {"", "w3"} /\ bell \in BOOLEAN /\ read \in BOOLEAN
    /\ heard \in 0..SwRings /\ mon.ring \in 0..SwRings

\* Whichever listing landed last, each command of a project is on screen
\* once, under a project of its own name and directory.
JoinComplete ==
    /\ \A c \in cmds.all \ {"c4"} : Cardinality({i \in 1..Len(groups) : c \in groups[i].cmds}) = 1
    /\ \A i \in 1..Len(groups) : \A c \in groups[i].cmds : KeyOf(c) = groups[i].key
    /\ \A p \in projs : Cardinality({i \in 1..Len(groups) : groups[i].own = p}) = 1

\* A listing, a probe or a push keeps the selection on its project as long
\* as a group has its directory and name.
SelectionStays ==
    (\E i \in 1..Len(groups') : groups'[i].key = SelectedKey) /\ strokes' = strokes =>
           SelectedKey' = SelectedKey

\* The y tears down what D asked about, though groups re-sort under it.
TornAsAsked == torn.did \in {Nowhere, torn.asked}

\* A bell that was read by selecting its project is not shown again.
BellQuiet == bell => pushed.ring > heard

\* A bell that rings after the last one was read is news, unless the flag
\* going down in between was never seen.
BellNews == pushed.any /\ pushed.unread /\ Watched \in cmds.live /\ pushed.ring > heard /\ ~blurred => bell
=============================================================================
