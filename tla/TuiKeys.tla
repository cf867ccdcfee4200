------------------------------ MODULE TuiKeys ------------------------------
(***************************************************************************)
(* What the keys of `cmdman tui` do (tui/keys.go, popup.go, commands.go,   *)
(* composeup.go, defviewer.go, spinner.go): the selection over the visible *)
(* rows, lifecycle actions and their pending markers, the confirmation     *)
(* popups, the compose-up overlay and the definition viewer.               *)
(*                                                                         *)
(* An action, an up and a definition load run off the Update loop and      *)
(* answer with a message; a list load replaces the rows whenever it lands. *)
(***************************************************************************)
EXTENDS Integers, Sequences, FiniteSets

CONSTANTS
    MaxKeys,   \* bound: keys that do something, and changes from outside
    MaxActs,   \* bound: lifecycle actions at once
    MaxLists,  \* bound: lists read that have not landed
    MaxUps,    \* bound: compose ups asked for
    UpServices,  \* the services an up reports on
    MaxEvents  \* bound: events an up reports

ASSUME KeysAssumption ==
    /\ MaxKeys \in Nat /\ MaxActs \in Nat /\ MaxLists \in Nat
    /\ MaxUps \in Nat /\ MaxEvents \in Nat

VARIABLES
    real,      \* the commands in the store
    row,       \* the commands' rows: state and pending marker
    fold,      \* the project is folded
    filter,    \* what the filter keeps
    at,        \* commands.selected, from 1
    popup,     \* the confirmation popup
    asked,     \* the command that was selected as the popup opened
    act,       \* the lifecycle actions under way
    load,      \* a list load that has not read the store yet: "none", "asked"
    lists,     \* the lists that were read and have not landed
    relisted,  \* commands whose marker went with an action of theirs under way
    spin,      \* [spinning, ticks under way]
    overlay,   \* composeUp
    up,        \* every compose up asked for
    overlap,   \* an up was asked for ahead of the overlay of another
    def,       \* the definition viewer
    defs,      \* the definition loads under way
    namesake,  \* a load of another project of the viewer's name is under way
    keys

keysVars == <<real, row, fold, filter, at, popup, asked, act, load, lists, relisted, spin,
              overlay, up, overlap, def, defs, namesake, keys>>
commands == <<real, row, fold, filter, at, act, load, lists, relisted>>
composes == <<overlay, up, overlap>>
viewer   == <<def, defs, namesake>>

KCmds    == {"k1", "k2"}             \* k1 is of the project, k2 stands alone
KStates  == {"down", "starting", "up", "gone"}
Alive(st) == st \in {"starting", "up"}
Projects == {"here", "there", "other"}
NameOf(p) == IF p = "other" THEN "b" ELSE "a"   \* one name in two directories
NoRow    == [st |-> "gone", pending |-> "none"]
NoAct    == [verb |-> "none", cmd |-> "none", force |-> FALSE]
NoUp     == [project |-> "none", st |-> "unused", closed |-> FALSE, reader |-> 0, event |-> 0,
             left |-> 0]
NoPopup  == [kind |-> "none", target |-> "none", yes |-> FALSE]
Unmarked == [s \in UpServices |-> "unseen"]
NoLay    == [active |-> FALSE, stream |-> 0, marks |-> Unmarked]
NoDef    == [open |-> FALSE, project |-> "none", shows |-> "none"]

KeysInit ==
    /\ real \in [KCmds -> {"down", "starting", "up"}]
    /\ row = [c \in KCmds |-> [st |-> real[c], pending |-> "none"]]
    /\ fold = FALSE /\ filter = "all" /\ at = 1
    /\ popup = NoPopup /\ asked = "none" /\ act = [i \in 1..MaxActs |-> NoAct]
    /\ load = "none" /\ lists = {} /\ relisted = {}
    /\ spin = LET on == \E c \in KCmds : real[c] = "starting"
              IN [on |-> on, ticks |-> IF on THEN 1 ELSE 0]
    /\ overlay = NoLay /\ up = [u \in 1..MaxUps |-> NoUp] /\ overlap = FALSE
    /\ def = NoDef /\ defs = {} /\ namesake = FALSE /\ keys = 0

----------------------------------------------------------------------------
(* The visible rows and the selection.                                      *)

Matches(f, c) == f = "all" \/ f = c
Shown(r, f, c) == r[c].st # "gone" /\ Matches(f, c)

\* The project's header is listed with its commands; a filter ignores folds.
VisibleRows(r, fd, f) ==
    (IF Shown(r, f, "k1") THEN <<"header">> ELSE <<>>)
      \o (IF Shown(r, f, "k1") /\ (f # "all" \/ ~fd) THEN <<"k1">> ELSE <<>>)
      \o (IF Shown(r, f, "k2") THEN <<"k2">> ELSE <<>>)

Clamped(r, fd, f, i) ==
    LET n == Len(VisibleRows(r, fd, f)) IN IF n = 0 THEN 1 ELSE IF i > n THEN n ELSE i

Visible == VisibleRows(row, fold, filter)
\* An index past the rows stands for the last of them.
Selected ==
    IF Visible = <<>> THEN "none"
    ELSE IF at > Len(Visible) THEN Visible[Len(Visible)] ELSE Visible[at]

IndexOf(rows, c) == CHOOSE i \in 1..Len(rows) : rows[i] = c
Reselected(r, c) ==
    LET rows == VisibleRows(r, fold, filter) IN
    IF c \in KCmds /\ \E i \in 1..Len(rows) : rows[i] = c THEN IndexOf(rows, c)
    ELSE Clamped(r, fold, filter, at)

----------------------------------------------------------------------------
(* The spinner.                                                             *)

\* The overlay shows motion until its first event, and while a service it has
\* seen is not at its end.
AnyPending(o) ==
    o.active /\ (o.marks = Unmarked \/ \E s \in UpServices : o.marks[s] = "pending")

InProgress(r, o) ==
    \/ AnyPending(o)
    \/ \E c \in KCmds : \/ r[c].st = "starting"
                        \/ r[c].st # "gone" /\ r[c].pending # "none"

MaybeStartSpinner(r, o) ==
    IF spin.on \/ ~InProgress(r, o) THEN spin ELSE [on |-> TRUE, ticks |-> spin.ticks + 1]

SpinnerTick ==
    /\ spin.ticks > 0
    /\ spin' = IF InProgress(row, overlay) THEN spin ELSE [on |-> FALSE, ticks |-> spin.ticks - 1]
    /\ UNCHANGED <<commands, popup, asked, composes, viewer, keys>>

----------------------------------------------------------------------------
(* Keys.                                                                    *)

Key == keys < MaxKeys /\ keys' = keys + 1
Normal == popup.kind = "none" /\ ~def.open

MoveKey(d) ==
    /\ Key /\ Normal /\ Visible # <<>>
    /\ at' = IF at + d < 1 THEN 1 ELSE IF at + d > Len(Visible) THEN Len(Visible) ELSE at + d
    /\ at' # at
    /\ UNCHANGED <<real, row, fold, filter, act, load, lists, relisted, popup, asked, spin, composes, viewer>>

FoldKey ==
    /\ Key /\ Normal /\ Selected = "header"
    /\ fold' = ~fold /\ at' = Clamped(row, ~fold, filter, at)
    /\ UNCHANGED <<real, row, filter, act, load, lists, relisted, popup, asked, spin, composes, viewer>>

FilterKey(f) ==
    /\ Key /\ Normal /\ f # filter
    /\ filter' = f /\ at' = Clamped(row, fold, f, at)
    /\ UNCHANGED <<real, row, fold, act, load, lists, relisted, popup, asked, spin, composes, viewer>>

FreeActs == {i \in 1..MaxActs : act[i] = NoAct}
Begins(verb, c, force) ==
    /\ FreeActs # {}
    /\ act' = [act EXCEPT ![CHOOSE i \in FreeActs : TRUE] =
                   [verb |-> verb, cmd |-> c, force |-> force]]

Applies(verb, st) == CASE verb = "start" -> ~Alive(st)
                       [] verb = "stop"  -> Alive(st)
                       [] OTHER -> TRUE

NotPending(c) == row[c].pending = "none"

LifecycleKey(verb) ==
    LET c == Selected
        r == [row EXCEPT ![c].pending = verb]
    IN /\ Key /\ Normal /\ c \in KCmds
       /\ Applies(verb, row[c].st) /\ NotPending(c)
       /\ row' = r /\ Begins(verb, c, FALSE)
       /\ spin' = MaybeStartSpinner(r, overlay)
       /\ UNCHANGED <<real, fold, filter, at, load, lists, relisted, popup, asked, composes, viewer>>

RemoveKey ==
    /\ Key /\ Normal /\ Selected \in KCmds
    /\ popup' = [kind |-> IF Alive(row[Selected].st) THEN "force" ELSE "remove",
                 target |-> Selected, yes |-> FALSE]
    /\ asked' = Selected
    /\ UNCHANGED <<commands, spin, composes, viewer>>

ComposeUpKey(p) ==
    /\ Key /\ Normal /\ ~overlay.active
    /\ popup' = [kind |-> "up", target |-> p, yes |-> TRUE] /\ asked' = p
    /\ UNCHANGED <<commands, spin, composes, viewer>>

ToggleKey ==
    /\ Key /\ popup.kind # "none" /\ popup' = [popup EXCEPT !.yes = ~@]
    /\ UNCHANGED <<commands, asked, spin, composes, viewer>>

CancelKey ==
    /\ Key /\ popup.kind # "none" /\ popup' = NoPopup /\ asked' = "none"
    /\ UNCHANGED <<commands, spin, composes, viewer>>

\* confirmPopup of a removal, of the command the popup names.
TargetsSelected == Selected
PopupTarget == popup.target

ConfirmRemove ==
    /\ Key /\ popup.kind \in {"remove", "force"} /\ popup.yes
    /\ LET c == PopupTarget
           r == IF c \in KCmds THEN [row EXCEPT ![c].pending = "remove"] ELSE row
       IN /\ row' = r /\ Begins("remove", c, popup.kind = "force")
          /\ spin' = MaybeStartSpinner(r, overlay)
    /\ popup' = NoPopup
    /\ UNCHANGED <<real, fold, filter, at, load, lists, relisted, asked, composes, viewer>>

FreeUps == {u \in 1..MaxUps : up[u].st = "unused"}
ConfirmUp ==
    /\ Key /\ popup.kind = "up" /\ popup.yes /\ FreeUps # {}
    /\ up' = [up EXCEPT ![CHOOSE u \in FreeUps : \A v \in FreeUps : u <= v] =
                  [NoUp EXCEPT !.project = popup.target, !.st = "opening", !.left = MaxEvents]]
    /\ overlap' = (overlap \/ \E u \in 1..MaxUps : up[u].st \in {"opening", "open"})
    /\ popup' = NoPopup /\ asked' = "none"
    /\ UNCHANGED <<commands, spin, overlay, viewer>>

----------------------------------------------------------------------------
(* Actions and list loads.                                                  *)

After(a) ==
    CASE a.verb = "start"   -> IF real[a.cmd] = "gone" THEN "gone" ELSE "up"
      [] a.verb = "stop"    -> IF Alive(real[a.cmd]) THEN "down" ELSE real[a.cmd]
      [] a.verb = "restart" -> IF real[a.cmd] = "gone" THEN "gone" ELSE "up"
      [] OTHER -> IF Alive(real[a.cmd]) /\ ~a.force THEN real[a.cmd] ELSE "gone"

ClearsOwn(c) == c

\* The service answers, and onActionDone clears the marker and lists again.
ActionDone(i) ==
    /\ act[i] # NoAct
    /\ LET a == act[i] IN
       /\ real' \in {real, [real EXCEPT ![a.cmd] = After(a)]}
       /\ row' = [c \in KCmds |-> IF c = ClearsOwn(a.cmd) THEN [row[c] EXCEPT !.pending = "none"]
                                 ELSE row[c]]
       /\ relisted' = IF \E j \in 1..MaxActs : j # i /\ act[j].cmd = a.cmd
                      THEN relisted \cup {a.cmd} ELSE relisted \ {a.cmd}
    /\ act' = [act EXCEPT ![i] = NoAct]
    /\ load' = IF load = "none" THEN "asked" ELSE load
    /\ UNCHANGED <<fold, filter, at, lists, popup, asked, spin, composes, viewer, keys>>

\* A start or a restart under way passes through `starting`, a restart stops
\* the command first, and a command that is starting comes up or fails.
Advances(c) ==
    /\ \E st \in KStates :
          /\ \/ real[c] = "starting" /\ st \in {"up", "down"}
             \/ /\ real[c] = "down" /\ st = "starting"
                /\ \E i \in 1..MaxActs : act[i].cmd = c /\ act[i].verb \in {"start", "restart"}
             \/ /\ real[c] = "up" /\ st = "down"
                /\ \E i \in 1..MaxActs : act[i].cmd = c /\ act[i].verb = "restart"
          /\ real' = [real EXCEPT ![c] = st]
    /\ UNCHANGED <<row, fold, filter, at, act, load, lists, relisted, popup, asked, spin, composes, viewer,
                   keys>>

\* Someone starts or removes a command, or creates one, outside of the TUI; but
\* for a removal it counts as a key.  What is created is a command of its own:
\* no row, list, action or popup is still about its namesake.
Elsewhere(c) ==
    /\ \/ real[c] = "down" /\ real' = [real EXCEPT ![c] = "gone"] /\ UNCHANGED keys
       \/ Key /\ real[c] = "down" /\ real' = [real EXCEPT ![c] = "starting"]
       \/ /\ Key /\ real[c] = "gone" /\ real' = [real EXCEPT ![c] = "down"]
          /\ row[c].st = "gone" /\ \A l \in lists : l[c] = "gone"
          /\ popup.target # c /\ \A i \in 1..MaxActs : act[i].cmd # c
    /\ UNCHANGED <<row, fold, filter, at, act, load, lists, relisted, popup, asked, spin, composes, viewer>>

\* The lifecycle event of that asks for a list too.
ListAsked ==
    /\ load = "none" /\ \E c \in KCmds : row[c].st # real[c] /\ load' = "asked"
    /\ UNCHANGED <<real, row, fold, filter, at, act, lists, relisted, popup, asked, spin, composes, viewer, keys>>

\* The load reads the store off the Update loop.
StoreRead ==
    /\ load = "asked" /\ load' = "none"
    /\ Cardinality(lists) < MaxLists /\ lists' = lists \cup {real}
    /\ UNCHANGED <<real, row, fold, filter, at, act, relisted, popup, asked, spin, composes, viewer, keys>>

\* A list lands, in any order with the others: the rows are replaced, markers
\* included.
CommandsListed(l) ==
    /\ lists' = lists \ {l}
    /\ LET r == [c \in KCmds |-> [st |-> l[c], pending |-> "none"]] IN
       /\ row' = r
       /\ at' = Reselected(r, Selected)
       /\ spin' = MaybeStartSpinner(r, overlay)
    /\ relisted' = relisted \cup {c \in KCmds : \E i \in 1..MaxActs : act[i].cmd = c}
    /\ UNCHANGED <<real, fold, filter, act, load, popup, asked, composes, viewer, keys>>

----------------------------------------------------------------------------
(* Compose up.                                                              *)

UpOpened(u) ==
    /\ up[u].st = "opening"
    /\ \/ up' = [up EXCEPT ![u] = [@ EXCEPT !.st = "failed"]] /\ UNCHANGED <<overlay, spin>>
       \/ /\ up' = [up EXCEPT ![u] = [@ EXCEPT !.st = "open", !.reader = 1]]
          /\ overlay' = [active |-> TRUE, stream |-> u, marks |-> Unmarked]
          /\ spin' = MaybeStartSpinner(row, overlay')
    /\ UNCHANGED <<commands, popup, asked, overlap, viewer, keys>>

\* waitComposeUpCmd takes the next event, or sees the up's end.
UpRead(u) ==
    /\ up[u].reader > 0 /\ up[u].left > 0
    /\ up' = [up EXCEPT ![u].reader = @ - 1, ![u].event = @ + 1, ![u].left = @ - 1]
    /\ UNCHANGED <<commands, popup, asked, spin, overlay, overlap, viewer, keys>>

Replaced(u) == ~overlay.active \/ NameOf(up[overlay.stream].project) # NameOf(up[u].project)

NotRearmed(s) == s
Rearmed(s) == [s EXCEPT ![overlay.stream].reader = @ + 1]

\* An event may name no service, and then marks none.
Noted(o) ==
    {o} \cup {[o EXCEPT !.marks[s] = m] : s \in UpServices, m \in {"pending", "terminal"}}

UpEvent(u) ==
    /\ up[u].event > 0
    /\ LET s == [up EXCEPT ![u].event = @ - 1] IN
       IF Replaced(u) THEN up' = s /\ UNCHANGED <<overlay, spin>>
       ELSE /\ overlay' \in Noted(overlay)
            /\ up' = Rearmed(s)
            /\ spin' = MaybeStartSpinner(row, overlay')
    /\ UNCHANGED <<commands, popup, asked, overlap, viewer, keys>>

UpDone(u) ==
    /\ up[u].reader > 0 /\ up[u].left = 0
    /\ LET s == [up EXCEPT ![u].reader = @ - 1, ![u].st = "done"] IN
       IF Replaced(u) THEN up' = s /\ UNCHANGED overlay
       ELSE up' = [s EXCEPT ![overlay.stream].closed = TRUE] /\ overlay' = NoLay
    /\ UNCHANGED <<commands, popup, asked, spin, overlap, viewer, keys>>

----------------------------------------------------------------------------
(* The definition viewer.  A reply is known by the project's name.          *)

DefKey(p) ==
    /\ Key /\ Normal
    /\ def' = [open |-> TRUE, project |-> p, shows |-> "loading"]
    /\ namesake' = \E q \in defs : q # p /\ NameOf(q) = NameOf(p)
    /\ defs' = defs \cup {p}
    /\ UNCHANGED <<commands, popup, asked, spin, composes>>

DefClose ==
    /\ Key /\ def.open /\ def' = NoDef
    /\ UNCHANGED <<commands, popup, asked, spin, composes, defs, namesake>>

OwnViewer(p) == def.open /\ NameOf(def.project) = NameOf(p)

DefLoaded(p) ==
    /\ p \in defs /\ defs' = defs \ {p}
    /\ def' = IF OwnViewer(p) THEN [def EXCEPT !.shows = p] ELSE def
    /\ UNCHANGED <<commands, popup, asked, spin, composes, namesake, keys>>

KeysNext ==
    \/ SpinnerTick \/ \E d \in {-1, 1} : MoveKey(d)
    \/ FoldKey \/ \E f \in {"all"} \cup KCmds : FilterKey(f)
    \/ \E verb \in {"start", "stop", "restart"} : LifecycleKey(verb)
    \/ RemoveKey \/ \E p \in Projects : ComposeUpKey(p) \/ DefKey(p) \/ DefLoaded(p)
    \/ ToggleKey \/ CancelKey \/ ConfirmRemove \/ ConfirmUp \/ ListAsked \/ StoreRead
    \/ \E l \in lists : CommandsListed(l)
    \/ \E i \in 1..MaxActs : ActionDone(i)
    \/ \E u \in 1..MaxUps : UpOpened(u) \/ UpRead(u) \/ UpEvent(u) \/ UpDone(u)
    \/ DefClose \/ \E c \in KCmds : Elsewhere(c) \/ Advances(c)

KeysSpec == KeysInit /\ [][KeysNext]_keysVars
----------------------------------------------------------------------------
(* Properties.                                                              *)

KeysTypeOK ==
    /\ real \in [KCmds -> KStates] /\ lists \subseteq [KCmds -> KStates]
    /\ row \in [KCmds -> [st : KStates,
                          pending : {"none", "start", "stop", "restart", "remove"}]]
    /\ at \in 1..3 /\ popup.kind \in {"none", "remove", "force", "up"}
    /\ overlay.stream \in 0..MaxUps /\ spin.ticks \in Nat

\* The row on screen that is highlighted is the one a key acts on: the index
\* stays inside the visible rows through folds, filters and re-lists.
SelectionInRange == Visible = <<>> \/ at <= Len(Visible)

\* A re-list keeps the selection with its command while it is visible.
SelectionKept ==
    (\E l \in lists : CommandsListed(l)) /\ Selected \in KCmds
           /\ (\E i \in 1..Len(Visible') : Visible'[i] = Selected) => Selected' = Selected

\* What is removed is what was selected as the popup opened, wherever the
\* lists that landed under it moved the selection.
RemovesAsked ==
    \A i \in 1..MaxActs :
           act[i] = NoAct /\ act'[i].verb = "remove" => act'[i].cmd = asked

\* A row marked pending has an action under way: no marker spins for good.
MarkerMeansWork == \A c \in KCmds :
    row[c].pending # "none" => \E i \in 1..MaxActs : act[i].cmd = c

\* One start, stop or restart of a command at a time, as long as the marker of
\* the one under way has not gone with a re-list, or with the reply to a
\* removal, which is asked for without a look at the marker.
OneLifecycle == \A c \in KCmds \ relisted :
    Cardinality({i \in 1..MaxActs : act[i].cmd = c /\ act[i].verb # "remove"}) <= 1

\* The spinner turns while a command is starting, an action is under way or an
\* up has work left, on one ticker, however lists, events and ticks alternate.
OneSpinner ==
    /\ spin.ticks <= 1
    /\ InProgress(row, overlay) => spin.ticks = 1

\* An overlay on screen has a reader that will end it, and an up under way has
\* one that drains its events, or its Report would block the walk: unless an
\* up was confirmed with another under way, which only the key checks.
UpsRead ==
    /\ overlay.active => \E u \in 1..MaxUps :
           /\ NameOf(up[u].project) = NameOf(up[overlay.stream].project)
           /\ up[u].reader + up[u].event > 0
    /\ ~overlap => \A u \in 1..MaxUps : up[u].st = "open" => up[u].reader + up[u].event > 0

\* The viewer shows the definition of the project it was opened for, unless
\* one of the same name was still loading.
DefinitionOwn ==
    def.open /\ ~namesake => def.shows \in {"loading", def.project}
=============================================================================
