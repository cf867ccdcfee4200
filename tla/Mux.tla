-------------------------------- MODULE Mux --------------------------------
(***************************************************************************)
(* The multiplexer side of cmdman: mux up, down and cycle-scale of one     *)
(* project, and the frame verbs, as the tmux commands they run.  One       *)
(* project verb and one frame verb may be under way at once (DetachedJob:  *)
(* verbs of one name are serialised, but a project and a frame have        *)
(* different names), either may die between two tmux commands, and the     *)
(* user splits and closes panes.                                           *)
(*                                                                         *)
(* A window is its user options and its tiled panes in tmux's order.  One  *)
(* leaf of every layout is the one cycle-scale turns.  Sizes, titles and   *)
(* floating panes are left out; `by' and `given' say what the stamps are   *)
(* meant to say, and no step reads them.                                   *)
(***************************************************************************)
EXTENDS Integers, Sequences, FiniteSets, SequencesExt

CONSTANTS
    Here,           \* the window the user is in
    Spare,          \* the window a create makes
    Defs,           \* frame defs
    Bars,           \* the bars of a def: whether each comes before what is there
    Leaves,         \* the layouts: how many leaves each has
    Replicas,       \* how many replicas the turned command has
    DefaultFrame,   \* "" or the def an up shows
    MaxVerbs,       \* bound: verbs ever run
    MaxFaults,      \* bound: verbs that die, panes the user splits off, panes that exit
    MaxPanes        \* bound: panes on the server

ASSUME MuxAssumption ==
    /\ Here # Spare /\ Bars \in [Defs -> Seq(BOOLEAN)] /\ DefaultFrame \in Defs \cup {""}
    /\ "" \notin Defs /\ Len(Leaves) > 0 /\ Replicas \in Nat \ {0}
    /\ \A n \in {MaxVerbs, MaxFaults, MaxPanes} : n \in Nat

VARIABLES win, act, verbs, deaths, users,
    torn    \* whether a bar was taken for a pane of the project: its verb died, or
            \* somebody listed the panes, between its split and its stamp; or one verb
            \* kept the last bar as a pane of the user's while another was to kill it

vars == <<win, act, verbs, deaths, users, torn>>

Wins == {Here, Spare}
Actors == {"project", "frame"}
Layouts == 0 .. Len(Leaves) - 1

Gone == [up |-> FALSE, owner |-> FALSE, def |-> "", created |-> FALSE, border |-> FALSE, remain |-> FALSE,
         scale |-> 0, panes |-> <<>>, active |-> 0, applied |-> -1, given |-> FALSE]
Pane(i, by) == [id |-> i, by |-> by, frame |-> FALSE, marker |-> -1, rep |-> 0]
Idle == [verb |-> "none", pc |-> "idle", w |-> Here, arg |-> "", layout |-> -1, todo |-> <<>>, anchor |-> 0,
         rows |-> <<>>, quiet |-> FALSE, alone |-> TRUE, rep |-> 0,
         framed |-> FALSE, shown |-> "none"]

Init ==
    /\ win = [w \in Wins |-> IF w = Here
                THEN [Gone EXCEPT !.up = TRUE, !.panes = <<Pane(1, "user")>>, !.active = 1, !.given = TRUE] ELSE Gone]
    /\ act = [a \in Actors |-> Idle] /\ verbs = 0 /\ deaths = 0 /\ users = 0 /\ torn = FALSE
-----------------------------------------------------------------------------
(* tmux                                                                    *)

Ids(w) == {win[w].panes[i].id : i \in 1 .. Len(win[w].panes)}
\* An id is never used twice: here, not while a verb remembers it.
Remembered(a) ==
    {act[a].anchor} \cup (IF act[a].pc \in {"bar", "stamp", "focus"} THEN {act[a].rep} ELSE {})
                    \cup (IF act[a].pc \in {"killing", "split", "stamp", "hkill"} THEN ToSet(act[a].todo) ELSE {})
InUse == Ids(Here) \cup Ids(Spare) \cup UNION {Remembered(a) : a \in Actors}
NewId == CHOOSE i \in 1 .. MaxPanes + 1 : i \notin InUse /\ \A j \in 1 .. i - 1 : j \in InUse
At(w, id) == CHOOSE i \in 1 .. Len(win[w].panes) : win[w].panes[i].id = id
PaneOf(w, id) == win[w].panes[At(w, id)]
Selected(w, P(_)) == [i \in 1 .. Len(SelectSeq(win[w].panes, P)) |-> SelectSeq(win[w].panes, P)[i].id]

\* listPanesByRole
IsFrame(p) == p.frame
IsProject(p) == ~p.frame
Framed(w) == Selected(w, IsFrame)
Project(w) == Selected(w, IsProject)
Unstamped(w) == \E i \in 1 .. Len(win[w].panes) : win[w].panes[i].by = "bar" /\ ~win[w].panes[i].frame

\* kill-pane: the focus falls back to some pane, and the last pane takes the
\* window with it.
Killed(w, id) ==
    IF Len(win[w].panes) = 1 THEN {Gone}
    ELSE LET left == RemoveAt(win[w].panes, At(w, id)) IN
         {[win[w] EXCEPT !.panes = left, !.active = n] :
            n \in IF win[w].active = id THEN {left[i].id : i \in 1 .. Len(left)} ELSE {win[w].active}}

\* split-window, next to a pane or at an edge of the window.
SplitAt(w, at, by) == InsertAt(win[w].panes, at, Pane(NewId, by))
Docked(w, before) == SplitAt(w, IF before THEN 1 ELSE Len(win[w].panes) + 1, "bar")

Stamped(w, id, p) == [win[w].panes EXCEPT ![At(w, id)] = p]
Restamp(w, id, frame, marker, rep) ==
    Stamped(w, id, [PaneOf(w, id) EXCEPT !.frame = frame, !.marker = marker, !.rep = rep])

\* hasCmdmanState: an option other than created, or a pane with a stamp.
HasState(w) ==
    \/ win[w].owner \/ win[w].def # "" \/ win[w].scale # 0
    \/ \E i \in 1 .. Len(win[w].panes) : win[w].panes[i].frame \/ win[w].panes[i].marker >= 0

\* StatWindow: the marker every marked pane of the project agrees on.
Marks(w) == {win[w].panes[i].marker : i \in {j \in 1 .. Len(win[w].panes) : IsProject(win[w].panes[j])}} \ {-1}
StatWindow(w) == IF Cardinality(Marks(w)) = 1 THEN CHOOSE m \in Marks(w) : TRUE ELSE -1
-----------------------------------------------------------------------------
(* Steps                                                                   *)

Now(a, pc) == act[a].pc = pc
W(a) == act[a].w
There(a) == win[W(a)].up
Holds(a, id) == There(a) /\ id \in Ids(W(a))
Beside(b) == [act[b] EXCEPT !.alone = act[b].verb = "none"]
Become(a, r) == act' = [b \in Actors |-> IF b = a THEN r ELSE Beside(b)]
Goes(a, pc) == Become(a, [act[a] EXCEPT !.pc = pc])
Put(a, r) == win' = [win EXCEPT ![W(a)] = r]
Set(a, pc, r) == Put(a, r) /\ Goes(a, pc)
Same == UNCHANGED <<verbs, deaths, users>>
Quiet == Same /\ UNCHANGED torn
Looks(a) == torn' = (torn \/ Unstamped(W(a)))

\* A verb that cannot go on restores remain-on-exit; a down or a cycle-scale then goes
\* on with its next window, and a frame that fails after an up does not fail it.
Over(a) == IF act[a].verb \in {"down", "scale"} /\ Len(act[a].rows) > 1
           THEN [Idle EXCEPT !.verb = act[a].verb, !.pc = "row", !.arg = act[a].arg, !.rows = Tail(act[a].rows), !.alone = act[a].alone]
           ELSE Idle
Restored(a) == IF act[a].quiet THEN [win EXCEPT ![W(a)].remain = FALSE] ELSE win
Fails(a, cond) == cond /\ win' = Restored(a) /\ Become(a, Over(a)) /\ Quiet

\* quiesceViewers: the viewers, if there are any, are told to go, and a pane outlives
\* what it runs.
Quiesce(a, from, to) ==
    /\ Now(a, from) /\ There(a) /\ Quiet
    /\ IF Marks(W(a)) = {} THEN UNCHANGED win /\ Goes(a, to)
       ELSE /\ Put(a, [win[W(a)] EXCEPT !.remain = TRUE])
            /\ Become(a, [act[a] EXCEPT !.pc = to, !.quiet = TRUE])

\* focusMainRegion
Focused(w, anchor) ==
    IF \E i \in 1 .. Len(Project(w)) : Project(w)[i] = win[w].active THEN win[w].active ELSE anchor
-----------------------------------------------------------------------------
(* mux up                                                                  *)

Begin(a, verb, pc, arg) ==
    /\ Now(a, "idle") /\ verbs < MaxVerbs /\ verbs' = verbs + 1
    /\ Become(a, [Idle EXCEPT !.verb = verb, !.pc = pc, !.arg = arg, !.alone = \A b \in Actors : Now(b, "idle")])
    /\ UNCHANGED <<win, deaths, users, torn>>

\* pickOwnedWindow, currentWindowToReuse: the window with the stamp, else the
\* current one when it is safe to take or has the name of the one to make (the user
\* may name it so at any time), else a new one.
Owned == {w \in Wins : win[w].up /\ win[w].owner}
Safe(w, named) == win[w].up /\ (win[w].def # "" \/ named \/ Len(win[w].panes) = 1)
\* Mutant: the stamp is not looked for.
FindCurrent(a) ==
    /\ Now(a, "find") /\ Quiet
    /\ IF act[a].arg # "keep" /\ Safe(Here, FALSE) THEN Become(a, [act[a] EXCEPT !.pc = "border", !.w = Here]) /\ UNCHANGED win
       ELSE /\ ~win[Spare].up /\ NewId <= MaxPanes
            /\ win' = [win EXCEPT ![Spare] = [Gone EXCEPT !.up = TRUE, !.panes = <<Pane(NewId, "main")>>, !.active = NewId]]
            /\ Become(a, [act[a] EXCEPT !.pc = "created", !.w = Spare])
Find(a) ==
    /\ Now(a, "find") /\ Quiet
    /\ \/ \E w \in Owned : Become(a, [act[a] EXCEPT !.pc = "border", !.w = w]) /\ UNCHANGED win
       \/ /\ Owned = {} /\ act[a].arg # "keep" /\ \E named \in BOOLEAN : Safe(Here, named)
          /\ Become(a, [act[a] EXCEPT !.pc = "border", !.w = Here]) /\ UNCHANGED win
       \/ /\ Owned = {} /\ (act[a].arg = "keep" \/ ~Safe(Here, FALSE)) /\ ~win[Spare].up /\ NewId <= MaxPanes
          /\ win' = [win EXCEPT ![Spare] = [Gone EXCEPT !.up = TRUE, !.panes = <<Pane(NewId, "main")>>, !.active = NewId]]
          /\ Become(a, [act[a] EXCEPT !.pc = "created", !.w = Spare])
StampCreated(a) == Now(a, "created") /\ There(a) /\ Set(a, "border", [win[W(a)] EXCEPT !.created = TRUE]) /\ Quiet
EnableBorder(a) ==
    /\ Now(a, "border") /\ There(a) /\ Quiet
    /\ Set(a, IF act[a].verb = "up" THEN "owner" ELSE "replace", [win[W(a)] EXCEPT !.border = TRUE])
StampOwner(a) == Now(a, "owner") /\ There(a) /\ Set(a, "stat", [win[W(a)] EXCEPT !.owner = TRUE]) /\ Quiet

\* The layout: the next one, the same one, or the one asked for.
NextLayout(a) ==
    LET m == StatWindow(W(a)) IN
    CASE act[a].arg = "keep" /\ m >= 0 -> {IF m < Len(Leaves) THEN m ELSE Len(Leaves) - 1}
      [] act[a].arg = "pick" -> Layouts
      [] m >= 0 /\ act[a].arg \notin {"keep", "pick"} -> {(m + 1) % Len(Leaves)}
      [] OTHER -> {0}
Stat(a) ==
    /\ Now(a, "stat") /\ There(a) /\ Looks(a) /\ Same
    /\ \E k \in NextLayout(a) : Become(a, [act[a] EXCEPT !.pc = "quiesce", !.layout = k])
    /\ UNCHANGED win

Reset(a, from, next) ==
    /\ Now(a, from) /\ There(a) /\ Looks(a) /\ Same
    /\ LET ps == Project(W(a)) IN
       IF ps # <<>>
       THEN /\ Become(a, [act[a] EXCEPT !.pc = "killing", !.anchor = ps[1], !.todo = Tail(ps), !.framed = Framed(W(a)) # <<>>])
            /\ Put(a, [win[W(a)] EXCEPT !.applied = -1])
       ELSE /\ NewId <= MaxPanes
            /\ Become(a, [act[a] EXCEPT !.pc = next, !.anchor = NewId, !.todo = <<>>, !.framed = TRUE])
            /\ Put(a, [win[W(a)] EXCEPT !.applied = -1, !.panes = SplitAt(W(a), 1, "main")])
ResetWindow(a) == Reset(a, "reset", "split")
KillStale(a) ==
    /\ Now(a, "killing") /\ Quiet
    /\ IF act[a].todo = <<>> THEN UNCHANGED win /\ Goes(a, IF act[a].verb = "up" THEN "split" ELSE "collapse")
       ELSE /\ Holds(a, Head(act[a].todo))
            /\ \E r \in Killed(W(a), Head(act[a].todo)) : Put(a, r)
            /\ Become(a, [act[a] EXCEPT !.todo = Tail(@)])

Materialize(a) ==
    /\ Now(a, "split") /\ Holds(a, act[a].anchor) /\ Quiet
    /\ IF Len(act[a].todo) < Leaves[act[a].layout + 1] - 1
       THEN /\ NewId <= MaxPanes
            /\ Put(a, [win[W(a)] EXCEPT !.panes = SplitAt(W(a), At(W(a), act[a].anchor), "main")])
            /\ Become(a, [act[a] EXCEPT !.todo = Append(@, NewId)])
       ELSE LET leaves == Append(act[a].todo, act[a].anchor) IN
            Become(a, [act[a] EXCEPT !.pc = "stamp", !.todo = leaves, !.rep = leaves[1]]) /\ UNCHANGED win

\* stampLeaf: the stamps, then the viewer.  The turned leaf is the first.
Position(w) == IF win[w].scale = 0 THEN 1 ELSE ((win[w].scale - 1) % Replicas) + 1
StampLeaf(a) ==
    /\ Now(a, "stamp") /\ Quiet
    /\ LET n == Leaves[act[a].layout + 1] IN
       IF act[a].todo = <<>> THEN UNCHANGED win /\ Goes(a, "focus")
       ELSE LET id == Head(act[a].todo) IN
            /\ Holds(a, id)
            /\ Put(a, [win[W(a)] EXCEPT !.panes =
                         Restamp(W(a), id, FALSE, act[a].layout, IF Len(act[a].todo) = n THEN Position(W(a)) ELSE 0)])
            /\ Become(a, [act[a] EXCEPT !.todo = Tail(@)])

\* The first leaf gets the focus; a layout that names none leaves it where it fell,
\* or moves it out of the frame.
SettleFocus(a) ==
    /\ Now(a, "focus") /\ There(a) /\ Looks(a) /\ Same
    /\ \E f \in {act[a].rep, IF act[a].framed THEN Focused(W(a), act[a].anchor) ELSE win[W(a)].active} \cap Ids(W(a)) :
          Put(a, [win[W(a)] EXCEPT !.active = f, !.remain = @ /\ ~act[a].quiet, !.applied = act[a].layout])
    /\ Become(a, [act[a] EXCEPT !.pc = "default", !.quiet = FALSE, !.anchor = 0, !.rep = 0, !.framed = FALSE])

\* What the def on record says when a frame verb opens the window; `stale' is read as
\* `none', and says that there are bars all the same.
Shown(w) == IF win[w].def # "" THEN "some"
            ELSE IF \E i \in 1 .. Len(win[w].panes) : win[w].panes[i].by = "bar" THEN "stale" ELSE "none"

\* showDefaultFrame: a window with a frame is left alone.
ShowDefault(a) ==
    /\ Now(a, "default") /\ There(a) /\ Quiet /\ UNCHANGED win
    /\ IF DefaultFrame = "" \/ win[W(a)].def # "" THEN Become(a, Idle)
       ELSE Become(a, [act[a] EXCEPT !.verb = "show", !.pc = "border", !.arg = DefaultFrame, !.shown = Shown(W(a))])
-----------------------------------------------------------------------------
(* mux frame show, hide, cycle                                             *)

\* The def shown is read once; showing it again does nothing, and whether there is a
\* frame to take away first is what was read then.
OpenFrame(a) ==
    /\ Now(a, "open") /\ There(a) /\ Quiet /\ UNCHANGED win
    /\ IF act[a].verb = "hide" THEN Goes(a, "clear")
       ELSE IF win[W(a)].def = act[a].arg THEN Become(a, Idle)
       ELSE Become(a, [act[a] EXCEPT !.pc = "border", !.shown = Shown(W(a))])
Replace(a) ==
    /\ Now(a, "replace") /\ There(a) /\ UNCHANGED win /\ Quiet
    /\ Goes(a, IF act[a].shown = "some" THEN "clear" ELSE "anchor")

AnchorFrame(a) ==
    /\ Now(a, "anchor") /\ There(a) /\ Looks(a) /\ Same
    /\ LET ps == Project(W(a)) IN
       IF ps # <<>> THEN Become(a, [act[a] EXCEPT !.pc = "def", !.anchor = ps[1]]) /\ UNCHANGED win
       ELSE /\ NewId <= MaxPanes /\ Become(a, [act[a] EXCEPT !.pc = "def", !.anchor = NewId])
            /\ Put(a, [win[W(a)] EXCEPT !.panes = SplitAt(W(a), 1, "main")])
RecordDef(a) ==
    /\ Now(a, "def") /\ There(a) /\ Quiet
    /\ Put(a, [win[W(a)] EXCEPT !.def = act[a].arg])
    /\ Become(a, [act[a] EXCEPT !.pc = "dock", !.todo = Reverse(Bars[act[a].arg])])

\* splitFullWindow and stampFramePane: two commands.  stampLeaf, once all are placed,
\* clears what a bar should not carry.
Dock(a) ==
    /\ Now(a, "dock") /\ Quiet
    /\ IF act[a].todo = <<>> THEN UNCHANGED win /\ Goes(a, "ffocus")
       ELSE /\ Holds(a, act[a].anchor) /\ NewId <= MaxPanes
            /\ Put(a, [win[W(a)] EXCEPT !.panes = Docked(W(a), Head(act[a].todo))])
            /\ Become(a, [act[a] EXCEPT !.pc = "bar", !.todo = Tail(@), !.rep = NewId])
\* Mutant: the stamp goes on the pane the bar was docked around.
StampAnchor(a) ==
    /\ Now(a, "bar") /\ Holds(a, act[a].anchor) /\ Quiet
    /\ Put(a, [win[W(a)] EXCEPT !.panes = Restamp(W(a), act[a].anchor, TRUE, -1, 0)])
    /\ Become(a, [act[a] EXCEPT !.pc = "dock", !.rep = 0])
StampBar(a) ==
    /\ Now(a, "bar") /\ Holds(a, act[a].rep) /\ Quiet
    /\ Put(a, [win[W(a)] EXCEPT !.panes = Restamp(W(a), act[a].rep, TRUE, -1, 0)])
    /\ Become(a, [act[a] EXCEPT !.pc = "dock", !.rep = 0])
FocusFrame(a) ==
    /\ Now(a, "ffocus") /\ Holds(a, act[a].anchor) /\ Looks(a) /\ Same
    /\ Put(a, [win[W(a)] EXCEPT !.active = Focused(W(a), act[a].anchor)]) /\ Become(a, Idle)

\* HideFrame: the record first, then the panes with the stamp; the last pane of the
\* window becomes a default one.
ClearDef(a) ==
    /\ Now(a, "clear") /\ There(a) /\ Looks(a) /\ Same
    /\ IF HasState(W(a)) THEN Set(a, "bars", [win[W(a)] EXCEPT !.def = ""])
       ELSE UNCHANGED win /\ (IF act[a].verb = "hide" THEN Become(a, Idle) ELSE Goes(a, "anchor"))
Survivor(a) ==
    /\ Now(a, "bars") /\ There(a) /\ Same
    /\ torn' = (torn \/ Unstamped(W(a)) \/ \E b \in Actors \ {a} : Now(b, "hkill"))
    /\ LET fs == Framed(W(a)) IN
       IF fs # <<>> /\ Project(W(a)) = <<>>
       THEN /\ Put(a, [win[W(a)] EXCEPT !.panes = Stamped(W(a), fs[1], Pane(fs[1], "main"))])
            /\ Become(a, [act[a] EXCEPT !.pc = "hkill", !.todo = Tail(fs)])
       ELSE Become(a, [act[a] EXCEPT !.pc = "hkill", !.todo = fs]) /\ UNCHANGED win
HideKills(a) ==
    /\ Now(a, "hkill") /\ Quiet
    /\ IF act[a].todo = <<>> THEN UNCHANGED win /\ Goes(a, "release")
       ELSE /\ Holds(a, Head(act[a].todo))
            /\ \E r \in Killed(W(a), Head(act[a].todo)) : Put(a, r)
            /\ Become(a, [act[a] EXCEPT !.todo = Tail(@)])

\* releaseWindowIfLast
AfterRelease(a) ==
    CASE act[a].verb = "show" -> [act[a] EXCEPT !.pc = "anchor"]
      [] act[a].verb = "down" -> [act[a] EXCEPT !.pc = "restore"]
      [] OTHER -> Idle
Release(a) ==
    /\ Now(a, "release") /\ There(a) /\ Quiet
    /\ IF HasState(W(a)) THEN UNCHANGED win /\ Become(a, AfterRelease(a))
       ELSE Set(a, "unborder", [win[W(a)] EXCEPT !.created = FALSE, !.given = TRUE])
Unborder(a) ==
    /\ Now(a, "unborder") /\ There(a) /\ Quiet
    /\ Put(a, [win[W(a)] EXCEPT !.border = FALSE]) /\ Become(a, AfterRelease(a))
-----------------------------------------------------------------------------
(* mux down, and cycle-scale                                               *)

\* What is listed is remembered: the window, whether cmdman made it, its layout and
\* the replica its turned leaf shows.
Listed(w) == [w |-> w, created |-> win[w].created, marker |-> StatWindow(w), position |-> Position(w)]
Rows(a) ==
    /\ Now(a, "rows") /\ UNCHANGED win /\ Quiet
    /\ LET ws == SetToSeq(Owned) IN
       Become(a, IF ws = <<>> THEN Idle
                 ELSE [act[a] EXCEPT !.pc = "row", !.rows = [i \in 1 .. Len(ws) |-> Listed(ws[i])]])
Row(a) == act[a].rows[1]
\* Down closes a window cmdman made, unless it runs in it itself.
Kills(a) == act[a].arg = "kill" /\ Row(a).created
Close(a) ==
    /\ Now(a, "row") /\ Kills(a) /\ Quiet
    /\ win' = [win EXCEPT ![Row(a).w] = Gone] /\ Become(a, Over(a))
OpenRow(a) ==
    /\ Now(a, "row") /\ (~Kills(a) \/ Row(a).w = Here) /\ Quiet
    /\ Become(a, [act[a] EXCEPT !.pc = IF act[a].verb = "down" THEN "dquiesce" ELSE "find pane", !.w = Row(a).w])
    /\ UNCHANGED win

DetachBegins(a) ==
    IF There(a) /\ Project(W(a)) = <<>>
    THEN Now(a, "detach") /\ Looks(a) /\ Same /\ Goes(a, "unown") /\ UNCHANGED win
    ELSE Reset(a, "detach", "collapse")
Collapse(a) ==
    /\ Now(a, "collapse") /\ Holds(a, act[a].anchor) /\ Looks(a) /\ Same
    /\ Set(a, "unown", [win[W(a)] EXCEPT !.panes = Restamp(W(a), act[a].anchor, FALSE, -1, 0),
              !.active = IF act[a].framed THEN Focused(W(a), act[a].anchor) ELSE @])
Unown(a) == Now(a, "unown") /\ There(a) /\ Set(a, "unscale", [win[W(a)] EXCEPT !.owner = FALSE]) /\ Quiet
Unscale(a) == Now(a, "unscale") /\ There(a) /\ Set(a, "release", [win[W(a)] EXCEPT !.scale = 0]) /\ Quiet
DeferredRestore(a) == Now(a, "restore") /\ win' = Restored(a) /\ Become(a, Over(a)) /\ Quiet

\* cycleScaleWindow: the pane with the key, the next replica, then the record.
FindPane(a) ==
    /\ Now(a, "find pane") /\ There(a) /\ Looks(a) /\ Same
    /\ LET key(p) == p.rep > 0
           ps == Selected(W(a), key)
           next == (Row(a).position % Replicas) + 1
       IN  IF Row(a).marker < 0 THEN Become(a, Over(a)) /\ UNCHANGED win
           ELSE IF ps = <<>> THEN Become(a, [act[a] EXCEPT !.pc = "write", !.rep = next]) /\ UNCHANGED win
           ELSE /\ Put(a, [win[W(a)] EXCEPT !.remain = TRUE])
                /\ Become(a, [act[a] EXCEPT !.pc = "turn", !.quiet = TRUE, !.anchor = ps[1], !.rep = next])
Turn(a) ==
    /\ Now(a, "turn") /\ Holds(a, act[a].anchor) /\ Quiet
    /\ Put(a, [win[W(a)] EXCEPT !.remain = FALSE,
                 !.panes = Restamp(W(a), act[a].anchor, FALSE, PaneOf(W(a), act[a].anchor).marker, act[a].rep)])
    /\ Become(a, [act[a] EXCEPT !.pc = "write", !.quiet = FALSE])
WritePosition(a) ==
    /\ Now(a, "write") /\ There(a) /\ Quiet
    /\ Put(a, [win[W(a)] EXCEPT !.scale = act[a].rep]) /\ Become(a, Over(a))
-----------------------------------------------------------------------------
Verb ==
    \/ \E arg \in {"cycle", "keep", "pick"} : Begin("project", "up", "find", arg)
    \/ \E arg \in {"restore", "kill"} : Begin("project", "down", "rows", arg)
    \/ Begin("project", "scale", "rows", "")
    \/ \E d \in Defs : Begin("frame", "show", "open", d)
    \/ Begin("frame", "hide", "open", "")

Up(a) ==
    \/ Find(a) \/ StampCreated(a) \/ EnableBorder(a) \/ StampOwner(a) \/ Stat(a) \/ Quiesce(a, "quiesce", "reset")
    \/ ResetWindow(a) \/ KillStale(a) \/ Materialize(a) \/ StampLeaf(a) \/ SettleFocus(a) \/ ShowDefault(a)
Frame(a) ==
    \/ OpenFrame(a) \/ Replace(a) \/ AnchorFrame(a) \/ RecordDef(a) \/ Dock(a) \/ StampBar(a) \/ FocusFrame(a)
    \/ ClearDef(a) \/ Survivor(a) \/ HideKills(a) \/ Release(a) \/ Unborder(a)
Down(a) ==
    \/ Rows(a) \/ Close(a) \/ OpenRow(a) \/ Quiesce(a, "dquiesce", "detach") \/ DetachBegins(a) \/ Collapse(a)
    \/ Unown(a) \/ Unscale(a) \/ DeferredRestore(a) \/ FindPane(a) \/ Turn(a) \/ WritePosition(a)

\* A tmux command whose window or pane is gone fails.
Target(a) == CASE act[a].pc \in {"killing", "stamp", "hkill"} /\ act[a].todo # <<>> -> {Head(act[a].todo)}
               [] act[a].pc = "focus" -> {act[a].rep, act[a].anchor}
               [] act[a].pc \in {"split", "dock", "ffocus", "collapse", "turn"} -> {act[a].anchor}
               [] act[a].pc = "bar" -> {act[a].rep}
               [] OTHER -> {}
Error(a) == Fails(a, act[a].pc \notin {"idle", "find", "rows", "row", "restore"}
                     /\ (~There(a) \/ \E id \in Target(a) : id \notin Ids(W(a))))

Dies(a) ==
    /\ ~Now(a, "idle") /\ deaths + users < MaxFaults /\ deaths' = deaths + 1
    /\ torn' = (torn \/ Now(a, "bar")) /\ Become(a, Idle) /\ UNCHANGED <<win, verbs, users>>

\* The user splits a pane off, and what a pane runs exits.
UserSplits(w) ==
    /\ win[w].up /\ deaths + users < MaxFaults /\ users' = users + 1 /\ NewId <= MaxPanes
    /\ win' = [win EXCEPT ![w].panes = SplitAt(w, At(w, win[w].active) + 1, "user"), ![w].active = NewId]
    /\ act' = [b \in Actors |-> Beside(b)] /\ UNCHANGED <<verbs, deaths, torn>>
PaneExits(w, id) ==
    /\ win[w].up /\ ~win[w].remain /\ deaths + users < MaxFaults /\ users' = users + 1
    /\ \E r \in Killed(w, id) : win' = [win EXCEPT ![w] = r]
    /\ act' = [b \in Actors |-> Beside(b)] /\ UNCHANGED <<verbs, deaths, torn>>

Next ==
    \/ Verb
    \/ \E a \in Actors : Up(a) \/ Frame(a) \/ Down(a) \/ Error(a) \/ Dies(a)
    \/ \E w \in Wins : UserSplits(w) \/ \E id \in Ids(w) : PaneExits(w, id)

Spec == Init /\ [][Next]_vars
-----------------------------------------------------------------------------
(* Properties                                                              *)

\* A window that is there has panes, the focus is on one, and no pane is both a
\* frame's and a layout's.
TypeOK ==
    \A w \in Wins : win[w].up =>
        /\ win[w].panes # <<>> /\ win[w].active \in Ids(w) /\ Cardinality(Ids(w)) = Len(win[w].panes)
        /\ torn \/ \A i \in 1 .. Len(win[w].panes) : ~(win[w].panes[i].frame /\ win[w].panes[i].marker >= 0)

Steps(a) == users' = users /\ act'[a] # act[a] /\ \A b \in Actors \ {a} : act'[b] = Beside(b)
PanesOf(r) == {r.panes[i] : i \in 1 .. Len(r.panes)}

\* A frame verb leaves every pane it did not dock as it is, whatever dies half way
\* and whatever a project verb does at the same time.
MainKept ==
    \A a \in Actors : act[a].verb \in {"show", "hide"} /\ Steps(a) /\ ~torn =>
        \A w \in Wins : \A p \in PanesOf(win[w]) : p.by # "bar" => p \in PanesOf(win'[w])

\* A project verb leaves every pane of a frame as it is, unless it closes a window
\* cmdman made.
FrameKept ==
    \A a \in Actors : act[a].verb \in {"up", "down", "scale"} /\ Steps(a) /\ ~torn /\ act[a].arg # "kill" =>
        \A w \in Wins : \A p \in PanesOf(win[w]) : p.by = "bar" => p \in PanesOf(win'[w])

\* A hide that nothing interfered with takes every docked pane away, those of a
\* verb that died too, keeps the window, and hands it back when nothing else is on it.
HideComplete ==
    LET a == "frame" IN
        act[a].verb = "hide" /\ act[a].pc \in {"release", "unborder"} /\ act[a].alone /\ act'[a] = Idle /\ deaths' = deaths /\ ~torn =>
            /\ win'[Here].up /\ win'[Here].def = "" /\ \A p \in PanesOf(win'[Here]) : p.by # "bar"
            /\ win'[Here].owner \/ win'[Here].scale # 0 \/ Marks(Here) # {} \/ (~win'[Here].border /\ ~win'[Here].created)

\* A show that nothing interfered with leaves the bars of its def and no others, unless
\* it found bars and no def on record: replacing a def is a hide and then a show.
ShowComplete ==
    \A a \in Actors : LET w == W(a) IN
        act[a].pc = "ffocus" /\ act[a].alone /\ act[a].shown # "stale" /\ win'[w].up /\ act'[a] = Idle
            /\ deaths' = deaths /\ ~torn' =>
            /\ win'[w].def = act[a].arg
            /\ Cardinality({p \in PanesOf(win'[w]) : p.by = "bar"}) = Len(Bars[act[a].arg])

\* An up that nothing interfered with leaves the panes of the layout and no others
\* beside the frame, with the focus among them.
UpComplete ==
    LET a == "project" w == W(a) IN
        act[a].pc = "default" /\ act[a].alone /\ (act'[a] = Idle \/ act'[a].pc = "border") /\ ~torn =>
            /\ win[w].owner /\ Len(Project(w)) = Leaves[act[a].layout + 1] /\ StatWindow(w) = act[a].layout
            /\ win[w].active \in {Project(w)[i] : i \in 1 .. Len(Project(w))}

\* The layout applied last is the one read back, and the next up goes on from it,
\* with panes of the user's and a frame in the window, until no viewer is left.
CycleContinues ==
    \A w \in Wins : win[w].applied >= 0 /\ Marks(w) # {} /\ ~torn => StatWindow(w) = win[w].applied

\* A project has one window.
OneWindow == Cardinality(Owned) <= 1

\* A down closes no window that was the user's, or was given back to the user.
BorrowedKept ==
    \A w \in Wins : Steps("project") /\ act["project"].pc = "row" /\ win[w].up /\ ~win'[w].up /\ deaths = 0 =>
        ~win[w].given

\* The replica a pane shows is the one on record, unless a verb is at it or died.
ScaleAgrees ==
    \A w \in Wins : Now("project", "idle") /\ deaths = 0 /\ win[w].owner =>
        \A p \in PanesOf(win[w]) : p.rep > 0 => p.rep = Position(w)

\* The windows agree with what is stamped on them between any two tmux commands.
MuxSafety == TypeOK /\ CycleContinues /\ OneWindow /\ ScaleAgrees

\* A verb changes its own panes and windows only, and does all of its work.
VerbSteps == [][MainKept /\ FrameKept /\ HideComplete /\ ShowComplete /\ UpComplete /\ BorrowedKept]_vars
=============================================================================
