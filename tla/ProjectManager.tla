-------------------------- MODULE ProjectManager ---------------------------
(***************************************************************************)
(* The project-manager panel (tui/widget/projectmanager): actions on the   *)
(* scale, the shown replica and the layout of a project, computed from the *)
(* rows of the last load.  One service; the zones are left out: the keys   *)
(* of either list are a keystroke away.                                    *)
(***************************************************************************)
EXTENDS Integers, Sequences, FiniteSets, SequencesExt

CONSTANTS
    PanelKeys,    \* bound: keys that act
    MaxReplicas   \* bound: replicas of the service

VARIABLES
    scale,     \* the replicas there are, and the one the dashboard shows
    panel,      \* the ones the panel shows; 0 replicas before a load
    loaded,
    pending,   \* an action is under way
    loading,
    fetches,     \* the loads under way, and what each read
    acts,      \* the actions under way
    look,      \* the lookup of the last teardown
    downAsk,   \* pendingDown is set
    tearing,   \* downs: the teardown is followed
    based,     \* the count the last scale was computed from, with the true one
    cycled,    \* the replica the last cycle named, with the replicas there were
    askedTwice,\* a reload was asked for ahead of the first load
    joined,    \* a teardown older than the panel was followed
    outdated,  \* the rows are those of before the last load, which failed, or of
               \* before an action that failed halfway
    taps

panelVars == <<scale, panel, loaded, pending, loading, fetches, acts, look, downAsk, tearing, based,
               cycled, askedTwice, joined, outdated, taps>>
panelAsks == <<look, downAsk, tearing, joined, outdated>>

NoScale == [n |-> 0, shown |-> 0]
Unread  == [read |-> FALSE, s |-> NoScale]

PanelInit ==
    /\ scale = [n |-> 1, shown |-> 1] /\ panel = NoScale /\ loaded = FALSE
    /\ pending = FALSE /\ loading = FALSE /\ fetches = <<Unread>> /\ acts = <<>>
    /\ look = "none" /\ downAsk = FALSE /\ tearing = FALSE
    /\ based = <<0, 0>> /\ cycled = <<0, 0>> /\ askedTwice = FALSE /\ joined = FALSE
    /\ outdated = FALSE /\ taps = 0

NotBusy == ~pending /\ ~loading

Tap == taps < PanelKeys /\ ~downAsk /\ taps' = taps + 1
Acts(a) == NotBusy /\ Len(acts) < 2 /\ pending' = TRUE /\ acts' = Append(acts, a)
SamePanel == UNCHANGED <<scale, panel, loaded, loading, fetches, panelAsks, askedTwice>>

\* What a count is held against: the replicas, or the rows a failure left.
Truth == IF outdated THEN panel.n ELSE scale.n

AtLeastOne(w) == w >= 1
SetScale(d) ==
    LET want == panel.n + d IN
    /\ Tap /\ loaded /\ AtLeastOne(want) /\ want <= MaxReplicas
    /\ Acts([verb |-> "scale", to |-> want])
    /\ based' = <<panel.n, Truth>>
    /\ SamePanel /\ UNCHANGED cycled

PreviousReplica(s) == IF s.shown = 1 THEN s.n ELSE s.shown - 1
CycleScale(back) ==
    LET to == IF back THEN PreviousReplica(panel) ELSE 0 IN
    /\ Tap /\ loaded /\ (back => panel.shown > 0 /\ panel.n > 0)
    /\ Acts([verb |-> "cycle", to |-> to])
    /\ cycled' = IF back THEN <<to, Truth>> ELSE <<0, 0>>
    /\ SamePanel /\ UNCHANGED based

\* A layout, or the dashboard torn down: no count depends on it.
LayoutOrMux ==
    /\ Tap /\ loaded /\ Acts([verb |-> "layout", to |-> 0])
    /\ SamePanel /\ UNCHANGED <<based, cycled>>

ReloadKey ==
    /\ Tap /\ NotBusy /\ Len(fetches) < 2
    /\ loading' = TRUE /\ fetches' = Append(fetches, Unread)
    /\ askedTwice' = (askedTwice \/ fetches # <<>>)
    /\ UNCHANGED <<scale, panel, loaded, pending, acts, panelAsks, based, cycled>>

DownKey ==
    /\ Tap /\ loaded /\ NotBusy /\ ~tearing /\ downAsk' = TRUE
    /\ UNCHANGED <<scale, panel, loaded, pending, loading, fetches, acts, look, tearing, based, cycled,
                   askedTwice, joined, outdated>>

DownAnswer(yes) ==
    /\ taps < PanelKeys /\ taps' = taps + 1 /\ downAsk /\ downAsk' = FALSE
    /\ IF yes /\ Len(acts) < 2
       THEN pending' = TRUE /\ acts' = Append(acts, [verb |-> "down", to |-> 0])
       ELSE UNCHANGED <<pending, acts>>
    /\ UNCHANGED <<scale, panel, loaded, loading, fetches, look, tearing, based, cycled, askedTwice,
                   joined, outdated>>

----------------------------------------------------------------------------
(* Replies.                                                                 *)

LoadReads(i) ==
    /\ i \in 1..Len(fetches) /\ ~fetches[i].read
    /\ fetches' = [fetches EXCEPT ![i] = [read |-> TRUE, s |-> scale]]
    /\ UNCHANGED <<scale, panel, loaded, pending, loading, acts, panelAsks, based, cycled, askedTwice, taps>>

\* onLoaded: the rows, and once the question of the last teardown.
LoadLands(i) ==
    /\ i \in 1..Len(fetches) /\ fetches[i].read /\ fetches' = RemoveAt(fetches, i)
    /\ loading' = FALSE
    /\ \/ outdated' = TRUE /\ UNCHANGED <<panel, loaded, look>>
       \/ /\ panel' = fetches[i].s /\ loaded' = TRUE /\ outdated' = FALSE
          /\ look' = IF look = "none" THEN "asked" ELSE look
    /\ UNCHANGED <<scale, pending, acts, downAsk, tearing, joined, based, cycled, askedTwice, taps>>

\* LastComposeDownCmd: no teardown, one that is over, or one to follow, which
\* is the action in flight from there.
LookAnswers ==
    /\ look = "asked" /\ look' = "over"
    /\ \/ UNCHANGED <<pending, acts, tearing, joined>>
       \/ /\ Len(acts) < 2 /\ acts' = Append(acts, [verb |-> "down", to |-> 0])
          /\ pending' = TRUE /\ tearing' = TRUE /\ joined' = TRUE
    /\ UNCHANGED <<scale, panel, loaded, loading, fetches, downAsk, based, cycled, askedTwice, outdated, taps>>

Progress(i) ==
    /\ i \in 1..Len(acts) /\ acts[i].verb = "down" /\ ~tearing
    /\ tearing' = TRUE /\ pending' = TRUE
    /\ UNCHANGED <<scale, panel, loaded, loading, fetches, acts, look, downAsk, joined, based, cycled,
                   askedTwice, outdated, taps>>

Applied(a) ==
    CASE a.verb = "scale" -> [n |-> a.to, shown |-> IF scale.shown > a.to THEN 1 ELSE scale.shown]
      [] a.verb = "cycle" /\ scale.n > 0 ->
             [scale EXCEPT !.shown = IF a.to \in 1..scale.n THEN a.to ELSE (@ % scale.n) + 1]
      [] a.verb = "down" -> NoScale
      [] OTHER -> scale

\* What a failed action may have done by then: a scale some of the replicas, a
\* teardown some of the removals, a cycle all of it or nothing.
Reduced(n) == [n |-> n, shown |-> IF scale.shown > n THEN (IF n = 0 THEN 0 ELSE 1) ELSE scale.shown]
PartlyApplied(a) ==
    CASE a.verb = "scale" -> {Reduced(n) : n \in (scale.n .. a.to) \cup (a.to .. scale.n)}
      [] a.verb = "down"  -> {Reduced(n) : n \in 0 .. scale.n}
      [] OTHER -> {scale, Applied(a)}

Reload == <<TRUE, Append(fetches, Unread)>>

\* onScaleSet .. onComposeDown: done() reloads, failed() does not.
ActionAnswers(i) ==
    /\ i \in 1..Len(acts) /\ acts' = RemoveAt(acts, i)
    /\ tearing' = (tearing /\ acts[i].verb # "down") /\ pending' = FALSE
    /\ \/ /\ Len(fetches) < 3 /\ scale' = Applied(acts[i])
          /\ loading' = Reload[1] /\ fetches' = Reload[2] /\ UNCHANGED outdated
       \/ /\ scale' \in PartlyApplied(acts[i]) /\ UNCHANGED <<loading, fetches>>
          /\ outdated' = (outdated \/ scale' # scale)
    /\ UNCHANGED <<panel, loaded, look, downAsk, joined, based, cycled, askedTwice, taps>>

PanelNext ==
    \/ \E d \in {-1, 1} : SetScale(d)
    \/ \E back \in BOOLEAN : CycleScale(back) \/ DownAnswer(back)
    \/ LayoutOrMux \/ ReloadKey \/ DownKey \/ LookAnswers
    \/ \E i \in 1..3 : LoadReads(i) \/ LoadLands(i) \/ Progress(i) \/ ActionAnswers(i)

PanelSpec == PanelInit /\ [][PanelNext]_panelVars
----------------------------------------------------------------------------
(* Properties.                                                              *)

PanelTypeOK ==
    /\ scale.n \in 0..MaxReplicas /\ scale.shown \in 0..scale.n
    /\ panel.n \in 0..MaxReplicas /\ Len(fetches) <= 3 /\ Len(acts) <= 2
    /\ pending \in BOOLEAN /\ loading \in BOOLEAN /\ tearing \in BOOLEAN

\* One action or load at a time, which is what the busy gate is for: unless
\* `r` overtook the first load, which sets no gate, or a teardown older than
\* the panel joined it, whose reply and the action's own clear one marker.
OneInFlight == ~askedTwice /\ ~joined => Len(acts) + Len(fetches) <= 1

\* A step of the scale starts from the replicas there are ("a `+` computed
\* from a superseded count would undo the scale before it").  Besides those
\* exceptions, an action that failed halfway is not followed by a load, and a
\* load can fail: the keys then count from the rows of the load before it.
ScalesFromTruth == askedTwice \/ joined \/ based[1] = based[2]

=============================================================================
