----------------------------- MODULE Launcher ------------------------------
(***************************************************************************)
(* The launcher (tui/widget/launcher, cli/tui_backend_launcher.go): one    *)
(* listing at open, typed directories resolved into rows, bring-ups,       *)
(* landings, teardowns and forgotten entries that answer later, rows known *)
(* by (directory, project) while cursors and the failure slot are indices. *)
(***************************************************************************)
EXTENDS Integers, Sequences, FiniteSets, SequencesExt

CONSTANTS
    LaunchKeys,  \* bound: keys that type or act
    LaunchActs   \* bound: backend calls at once

VARIABLES
    locs,      \* the locations, as onTargetsLoaded and onResolved leave them
    listing,   \* the listing: "asked", "read", "done"
    listed,    \* what the listing read
    q,         \* the query
    zone,      \* which zone has the keyboard
    menu,      \* the completion menu
    left, right,
    failed,    \* failedLoc and failedPrj
    failedOf,  \* the row whose bring-up failed
    armed,     \* the tick of the current resolveGen is under way
    resolving, \* lookups by directory: those asked for, and what the others read
    question,  \* pendingDown
    downs,     \* the teardowns followed
    ticking, tickers,
    calls,     \* backend calls and their replies
    history,   \* the launch history, most recent first
    upped,      \* what was brought up since its last teardown
    crossed,   \* rows whose bring-up and teardown, or a listing of them, overlapped
    partly,    \* rows whose last action failed after it changed what is up
    moved,     \* the listing replaced the rows under a failure
    badDir,    \* a lookup of the typed directory failed
    over,      \* the launcher closed
    pressed

launchRows  == <<locs, listing, listed, history, upped, crossed, partly>>
launchInput == <<q, zone, menu, left, right, failed, failedOf, moved, badDir>>
launchAsync == <<armed, resolving, question, downs, ticking, tickers, calls>>
launchVars  == <<launchRows, launchInput, launchAsync, over, pressed>>

Nobody == [dir |-> "none", prj |-> "none"]
At(d, p) == [dir |-> d, prj |-> p]
NoMenu == [cands |-> <<>>, sel |-> 0, base |-> ""]
NoCall == [verb |-> "none", of |-> Nobody, st |-> "free"]
\* A lookup that failed answers with no location.
NoLook == [asked |-> 0, read |-> {}]
NoLoc  == [dir |-> "none", hist |-> FALSE, cfg |-> FALSE, prjs |-> <<>>]
NotFailed == [loc |-> 0, prj |-> 0]

\* One directory of the history, one of a named project that declares its
\* directory, two that are only typed; one named project belongs nowhere.
OnDisk   == {"h", "g", "t", "x"}
Known    == <<At("h", "p1"), At("g", "p4")>>
Pinned   == {"g"}
Floating == <<"p3">>
GoneFile(p) == p = "p2"

----------------------------------------------------------------------------
(* The listing.                                                             *)

HasDir(L, d) == \E i \in 1..Len(L) : L[i].dir = d
DirIndex(L, d) == CHOOSE i \in 1..Len(L) : L[i].dir = d
HasPrj(l, p) == \E i \in 1..Len(l.prjs) : l.prjs[i].prj = p

NewRow(d, p, hist) ==
    [prj |-> p, on |-> hist, starting |-> FALSE, running |-> At(d, p) \in upped]

\* launchAccumulator.add: the first mention of a project at a directory wins.
AddEntry(L, e) ==
    LET M == IF HasDir(L, e.dir) THEN L
             ELSE Append(L, [dir |-> e.dir, hist |-> FALSE, cfg |-> FALSE, prjs |-> <<>>])
        i == DirIndex(M, e.dir)
        l == [M[i] EXCEPT !.hist = @ \/ e.hist, !.cfg = @ \/ e.cfg]
    IN [M EXCEPT ![i] = IF HasPrj(l, e.prj) THEN l
                        ELSE [l EXCEPT !.prjs = Append(@, NewRow(e.dir, e.prj, e.hist))]]

\* launchAccumulator.offer: a project of no directory is offered at each.
Offered(l) ==
    [l EXCEPT !.prjs = @ \o [i \in 1..Len(SelectSeq(Floating, LAMBDA p : ~HasPrj(l, p))) |->
        NewRow(l.dir, SelectSeq(Floating, LAMBDA p : ~HasPrj(l, p))[i], FALSE)]]

Entries(es, hist) ==
    [i \in 1..Len(es) |-> [dir |-> es[i].dir, prj |-> es[i].prj, hist |-> hist,
                          cfg |-> ~hist /\ es[i].dir \in Pinned]]

\* ListLaunchTargets: the history leads in its own order, then by path.
ListTargets ==
    LET L == FoldLeft(AddEntry, <<>>, Entries(history, TRUE) \o Entries(Known, FALSE))
        M == [i \in 1..Len(L) |-> Offered(L[i])]
    IN SelectSeq(M, LAMBDA l : l.hist) \o SelectSeq(M, LAMBDA l : ~l.hist)

\* ResolveLaunchDir: the row of one directory, out of both provenances.
ResolveDir(d) ==
    LET own == SelectSeq(Entries(history, TRUE) \o Entries(Known, FALSE), LAMBDA e : e.dir = d)
        l   == IF own = <<>> THEN [dir |-> d, hist |-> FALSE, cfg |-> FALSE, prjs |-> <<>>]
               ELSE FoldLeft(AddEntry, <<>>, own)[1]
    IN [Offered(l) EXCEPT !.hist = FALSE, !.cfg = FALSE]

----------------------------------------------------------------------------
(* The query, the rows it keeps and the cursors on them.                    *)

\* The queries: a word that is the name of a project, and the prefixes of the
\* paths of three directories, spelled with and without a last separator.
PathOf(d) == CASE d = "t" -> "/tt" [] d = "x" -> "/ttx" [] OTHER -> "/h"
WithSep(d) == CASE d = "t" -> "/tt/" [] d = "x" -> "/ttx/" [] OTHER -> "/h/"
TypedDir(w) ==
    IF \E d \in {"t", "x", "h"} : w \in {PathOf(d), WithSep(d)}
    THEN CHOOSE d \in {"t", "x", "h"} : w \in {PathOf(d), WithSep(d)} ELSE "none"

\* matchLaunchLocation: by path, else by the name of a project there.
MatchesQuery(w, l) ==
    \/ w \in {"/t", "/tt", "/tt/"} /\ l.dir \in {"t", "x"}
    \/ TypedDir(w) = l.dir
    \/ w = "w" /\ HasPrj(l, "p2")

Indices(L, P(_)) == SelectSeq([i \in 1..Len(L) |-> i], P)
Matched(L, w) ==
    IF w # "" THEN Indices(L, LAMBDA i : MatchesQuery(w, L[i]))
    ELSE Indices(L, LAMBDA i : L[i].hist) \o Indices(L, LAMBDA i : ~L[i].hist /\ L[i].cfg)

CurrentLoc(L, w, i) == IF i > Len(Matched(L, w)) THEN 0 ELSE Matched(L, w)[i]
Least(i, n) == IF n = 0 THEN 1 ELSE IF i > n THEN n ELSE i
ClampLeft(L, w, i) == Least(i, Len(Matched(L, w)))
ClampRight(L, w, i, j) ==
    LET li == CurrentLoc(L, w, i) IN IF li = 0 THEN 1 ELSE Least(j, Len(L[li].prjs))

\* Rows, query and cursors of a step, both cursors clamped.
Shows(L, w, i, j) ==
    /\ locs' = L /\ q' = w
    /\ left' = ClampLeft(L, w, i) /\ right' = ClampRight(L, w, left', j)

Here == CurrentLoc(locs, q, left)
FirstOn(l) == IF \E i \in 1..Len(l.prjs) : l.prjs[i].on
              THEN CHOOSE i \in 1..Len(l.prjs) :
                       l.prjs[i].on /\ \A j \in 1..Len(l.prjs) : l.prjs[j].on => i <= j
              ELSE 1
\* pickProject: the right cursor's with the keyboard there, else the first enabled.
PickIn(L, li, j) ==
    IF L[li].prjs = <<>> THEN 0
    ELSE IF zone = "right" /\ j <= Len(L[li].prjs) THEN j ELSE FirstOn(L[li])
PickProject(li) == PickIn(locs, li, right)
RowAt(li, pi) == At(locs[li].dir, locs[li].prjs[pi].prj)
TargetIn(L, i, j) ==
    LET li == CurrentLoc(L, q, i) IN
    IF li = 0 THEN Nobody
    ELSE IF PickIn(L, li, j) = 0 THEN Nobody ELSE At(L[li].dir, L[li].prjs[PickIn(L, li, j)].prj)
CurrentTarget == TargetIn(locs, left, right)

\* find: the row a reply is about, by directory and name.
FoundByName(L, t) ==
    {ij \in (1..Len(L)) \X (1..4) : ij[2] <= Len(L[ij[1]].prjs) /\ L[ij[1]].prjs[ij[2]].prj = t.prj}
FoundRows(L, t) ==
    {ij \in (1..Len(L)) \X (1..4) : /\ L[ij[1]].dir = t.dir /\ ij[2] <= Len(L[ij[1]].prjs)
                                    /\ L[ij[1]].prjs[ij[2]].prj = t.prj}

ClosesMenu(m) == NoMenu
FailAt(L, li, pi) ==
    /\ failed' = [loc |-> li, prj |-> pi]
    /\ failedOf' = At(L[li].dir, L[li].prjs[pi].prj) /\ moved' = FALSE
    /\ IF Here = li THEN /\ zone' = "right" /\ menu' = ClosesMenu(menu)
                         /\ Shows(L, q, left, pi)
       ELSE locs' = L /\ UNCHANGED <<q, zone, menu, left, right>>

----------------------------------------------------------------------------
(* The spinner and the calls.                                               *)

AnyStarting(L) == \E i \in 1..Len(L) : \E j \in 1..Len(L[i].prjs) : L[i].prjs[j].starting

StartTicking ==
    IF ticking THEN UNCHANGED <<ticking, tickers>> ELSE ticking' = TRUE /\ tickers' = tickers + 1

Tick ==
    /\ tickers > 0 /\ ~AnyStarting(locs)
    /\ ticking' = FALSE /\ tickers' = tickers - 1
    /\ UNCHANGED <<launchRows, launchInput, armed, resolving, question, downs, calls, over, pressed>>

FreeCalls == {i \in 1..LaunchActs : calls[i] = NoCall}
Flips == {"start", "launch", "muxdown", "down"}
Calls(verb, ts) ==
    /\ Len(ts) <= Cardinality(FreeCalls)
    /\ calls' = [i \in 1..LaunchActs |->
           LET k == Cardinality({j \in FreeCalls : j <= i}) IN
           IF i \in FreeCalls /\ k <= Len(ts) THEN [verb |-> verb, of |-> ts[k], st |-> "working"]
           ELSE calls[i]]
    /\ crossed' = crossed \cup
           {t \in Range(ts) : verb \in Flips /\ \E i \in 1..LaunchActs :
                                  calls[i].of = t /\ calls[i].verb \in Flips}

LaunchInit ==
    /\ locs = <<>> /\ listing = "asked" /\ listed = <<>>
    /\ q = "" /\ zone = "input" /\ menu = NoMenu /\ left = 1 /\ right = 1
    /\ failed = NotFailed /\ failedOf = Nobody /\ moved = FALSE /\ badDir = FALSE
    /\ armed = FALSE /\ resolving = [d \in OnDisk |-> NoLook] /\ question = Nobody /\ downs = {}
    /\ ticking = FALSE /\ tickers = 0 /\ calls = [i \in 1..LaunchActs |-> NoCall]
    /\ history = <<At("h", "p1"), At("h", "p2")>> /\ upped = {} /\ crossed = {} /\ partly = {}
    /\ over = FALSE /\ pressed = 0

----------------------------------------------------------------------------
(* Keys.                                                                    *)

LaunchKey == ~over /\ pressed < LaunchKeys /\ pressed' = pressed + 1 /\ over' = FALSE
Unasked == LaunchKey /\ question = Nobody
\* A key that only moves the keyboard or asks is not counted.
Steps == ~over /\ question = Nobody /\ UNCHANGED <<over, pressed>>
SameFailure == UNCHANGED <<failed, failedOf, moved>>
\* armResolve, when the key changed the query.
Rearms(w) ==
    /\ armed' = (armed \/ w # q) /\ badDir' = (badDir /\ w = q)
    /\ UNCHANGED <<resolving, question, downs, ticking, tickers, calls>>
SameRows == UNCHANGED <<listing, listed, history, upped, crossed, partly>>

Extended(w) == CASE w = "" -> {"w", "/t", "/tt"} [] w = "/t" -> {"/tt"} [] w = "/tt" -> {"/ttx"} [] OTHER -> {}
Erased(w) == IF w = "/tt" THEN "/t" ELSE IF w = "/ttx" THEN "/tt"
             ELSE IF TypedDir(w) # "none" THEN PathOf(TypedDir(w)) ELSE ""

TypeKey(w) ==
    /\ Unasked /\ zone = "input" /\ w \in Extended(q)
    /\ failed' = NotFailed /\ failedOf' = Nobody /\ moved' = FALSE
    /\ menu' = NoMenu /\ Shows(locs, w, left, right) /\ Rearms(w)
    /\ SameRows /\ UNCHANGED zone

EraseKey ==
    /\ Unasked /\ zone = "input" /\ q # ""
    /\ LET w == IF q = "/h" THEN "" ELSE Erased(q)
       IN menu' = NoMenu /\ Shows(locs, w, left, right) /\ Rearms(w)
    /\ SameRows /\ SameFailure /\ UNCHANGED zone

ClearKey ==
    /\ Unasked /\ zone' = "input" /\ menu' = NoMenu
    /\ Shows(locs, "", left, right) /\ Rearms("")
    /\ SameRows /\ SameFailure

\* complete: what the input can still become.
Candidates ==
    CASE q \in {"/t", "/tt"} -> <<"t", "x">>
      [] q = "/ttx" -> <<"x">>
      [] q = "/h" -> <<"h">>
      [] q = "w" /\ Matched(locs, "w") # <<>> -> <<locs[Matched(locs, "w")[1]].dir>>
      [] OTHER -> <<>>

TabKey ==
    /\ Unasked /\ zone = "input" /\ q # ""
    /\ LET n == Len(menu.cands)
           s == (menu.sel % n) + 1
       IN \/ /\ n > 0 /\ menu' = [menu EXCEPT !.sel = s]
             /\ Shows(locs, WithSep(menu.cands[s]), left, right) /\ Rearms(WithSep(menu.cands[s]))
          \/ /\ n = 0 /\ Len(Candidates) = 1 /\ UNCHANGED menu
             /\ LET w == IF q = "w" THEN PathOf(Candidates[1]) ELSE WithSep(Candidates[1])
                IN Shows(locs, w, left, right) /\ Rearms(w)
          \/ /\ n = 0 /\ q = "/t"
             /\ menu' = [cands |-> Candidates, sel |-> 0, base |-> "/tt"]
             /\ Shows(locs, "/tt", left, right) /\ Rearms("/tt")
          \/ /\ n = 0 /\ q = "/tt"
             /\ menu' = [cands |-> Candidates, sel |-> 1, base |-> "/tt"]
             /\ Shows(locs, WithSep("t"), left, right) /\ Rearms(WithSep("t"))
    /\ SameRows /\ SameFailure /\ UNCHANGED zone

BackTabKey ==
    /\ Unasked /\ zone = "input" /\ menu.cands # <<>>
    /\ LET n == Len(menu.cands)
           s == IF menu.sel <= 1 THEN n ELSE menu.sel - 1
       IN /\ menu' = [menu EXCEPT !.sel = s]
          /\ Shows(locs, WithSep(menu.cands[s]), left, right) /\ Rearms(WithSep(menu.cands[s]))
    /\ SameRows /\ SameFailure /\ UNCHANGED zone

Closes ==
    /\ over' = TRUE /\ locs' = <<>> /\ listing' = "done" /\ listed' = <<>>
    /\ q' = "" /\ zone' = "input" /\ menu' = NoMenu /\ left' = 1 /\ right' = 1
    /\ failed' = NotFailed /\ failedOf' = Nobody /\ moved' = FALSE /\ badDir' = FALSE
    /\ armed' = FALSE /\ resolving' = [d \in OnDisk |-> NoLook] /\ question' = Nobody /\ downs' = {}
    /\ ticking' = FALSE /\ tickers' = 0 /\ calls' = [i \in 1..LaunchActs |-> NoCall]
    /\ history' = <<>> /\ upped' = {} /\ crossed' = {} /\ partly' = {}
    /\ pressed' = LaunchKeys

\* One step at a time: the menu, the panes, the query, the launcher.
EscKey ==
    \/ /\ Unasked /\ zone = "input" /\ menu.cands # <<>>
       /\ menu' = NoMenu /\ Shows(locs, menu.base, left, right) /\ Rearms(menu.base)
       /\ SameRows /\ SameFailure /\ UNCHANGED zone
    \/ /\ Unasked /\ zone # "input"
       /\ zone' = (IF zone = "right" THEN "left" ELSE "input")
       /\ SameRows /\ SameFailure /\ Rearms(q) /\ UNCHANGED <<locs, q, menu, left, right>>
    \/ /\ Unasked /\ zone = "input" /\ menu.cands = <<>> /\ q # ""
       /\ Shows(locs, "", left, right) /\ Rearms("")
       /\ SameRows /\ SameFailure /\ UNCHANGED <<zone, menu>>
    \/ ~over /\ pressed < LaunchKeys /\ question = Nobody /\ zone = "input" /\ menu.cands = <<>>
       /\ q = "" /\ Closes

EnterKey ==
    /\ Steps /\ zone # "right"
    /\ zone' = (IF zone = "left" THEN "right" ELSE IF menu.cands # <<>> /\ menu.sel > 0 THEN "input" ELSE "left")
    /\ menu' = (IF zone = "input" THEN NoMenu ELSE menu)
    /\ Shows(locs, q, left, right) /\ Rearms(q)
    /\ SameRows /\ SameFailure

MoveCursor(d) ==
    LET n == Len(Matched(locs, q))
        m == IF Here = 0 THEN 0 ELSE Len(locs[Here].prjs)
    IN /\ Unasked
       /\ IF zone = "right" THEN m > 1 /\ right' = ((right - 1 + d + m) % m) + 1 /\ UNCHANGED left
          ELSE /\ n > 1 /\ left' = ((left - 1 + d + n) % n) + 1
               /\ right' = ClampRight(locs, q, left', 1)
       /\ Rearms(q) /\ SameRows /\ SameFailure /\ UNCHANGED <<locs, q, zone, menu>>

Toggled(li, pi) == [locs EXCEPT ![li].prjs[pi].on = ~@]
\* A click takes a standing question back, and the menu with the left or right pane.
ClickAt(z, i) ==
    /\ LaunchKey /\ question' = Nobody /\ zone' = z
    /\ \/ z = "input" /\ UNCHANGED <<locs, q, menu, left, right>>
       \/ /\ z = "left" /\ i <= Len(Matched(locs, q)) /\ menu' = NoMenu
          /\ Shows(locs, q, i, IF i = left THEN right ELSE 1)
       \/ /\ z = "right" /\ Here # 0 /\ i <= Len(locs[Here].prjs) /\ menu' = NoMenu
          /\ Shows(Toggled(Here, i), q, left, i)
    /\ SameRows /\ SameFailure
    /\ UNCHANGED <<badDir, armed, resolving, downs, ticking, tickers, calls>>

ToggleRow ==
    /\ Unasked /\ zone = "right" /\ Here # 0 /\ right <= Len(locs[Here].prjs)
    /\ locs' = Toggled(Here, right)
    /\ Rearms(q) /\ SameRows /\ SameFailure /\ UNCHANGED <<q, zone, menu, left, right>>

SlashKey ==
    /\ Steps /\ zone # "input" /\ zone' = "input"
    /\ Rearms(q) /\ SameRows /\ SameFailure /\ UNCHANGED <<locs, q, menu, left, right>>
----------------------------------------------------------------------------
(* What acts on a project.                                                  *)

OnList == Unasked /\ zone # "input" /\ Here # 0
Untouched == UNCHANGED <<listing, listed, history, upped, partly, armed, resolving, badDir>>

\* startEnabled: every enabled row that is not up or starting; a row that
\* cannot be brought up is pointed at and the others still start.
Startable(li) ==
    {j \in 1..Len(locs[li].prjs) : LET r == locs[li].prjs[j] IN
         r.on /\ ~GoneFile(r.prj) /\ ~r.running /\ ~r.starting}
StartKey ==
    LET li  == Here
        js  == SetToSortSeq(Startable(li), <)
        L   == [locs EXCEPT ![li].prjs = [j \in 1..Len(@) |->
                    IF j \in Startable(li) THEN [@[j] EXCEPT !.starting = TRUE] ELSE @[j]]]
        bad == {j \in 1..Len(locs[li].prjs) : locs[li].prjs[j].on /\ GoneFile(locs[li].prjs[j].prj)}
    IN /\ OnList /\ (js # <<>> \/ bad # {})
       /\ Calls("start", [k \in 1..Len(js) |-> RowAt(li, js[k])])
       /\ IF js # <<>> THEN StartTicking ELSE UNCHANGED <<ticking, tickers>>
       /\ IF bad # {} THEN FailAt(L, li, CHOOSE j \in bad : \A k \in bad : j <= k)
          ELSE locs' = L /\ SameFailure /\ UNCHANGED <<q, zone, menu, left, right>>
       /\ Untouched /\ UNCHANGED <<question, downs>>

LaunchSelected ==
    LET li == Here
        pi == PickProject(li)
    IN /\ OnList /\ pi # 0
       /\ IF GoneFile(locs[li].prjs[pi].prj)
          THEN FailAt(locs, li, pi) /\ UNCHANGED <<calls, crossed, ticking, tickers>>
          ELSE /\ Calls("launch", <<RowAt(li, pi)>>) /\ StartTicking
               /\ locs' = [locs EXCEPT ![li].prjs[pi].starting = TRUE]
               /\ SameFailure /\ UNCHANGED <<q, zone, menu, left, right>>
       /\ Untouched /\ UNCHANGED <<question, downs>>

ActsOn(verb, t) ==
    /\ Calls(verb, <<t>>) /\ Untouched /\ SameFailure
    /\ UNCHANGED <<locs, q, zone, menu, left, right, downs, ticking, tickers>>

MuxDownSelected == OnList /\ CurrentTarget # Nobody /\ ActsOn("muxdown", CurrentTarget) /\ UNCHANGED question

\* A teardown under way is not asked about again.
ConfirmDown ==
    /\ Steps /\ zone # "input" /\ Here # 0 /\ CurrentTarget \notin downs \cup {Nobody}
    /\ question' = CurrentTarget
    /\ UNCHANGED <<launchRows, launchInput, armed, resolving, downs, ticking, tickers, calls>>

DownsQuestion == question
AnswerDown(yes) ==
    /\ LaunchKey /\ question # Nobody /\ question' = Nobody
    /\ IF yes THEN ActsOn("down", DownsQuestion)
       ELSE UNCHANGED <<launchRows, launchInput, armed, resolving, downs, ticking, tickers, calls>>

DropKey ==
    /\ Unasked /\ Here # 0 /\ right <= Len(locs[Here].prjs) /\ GoneFile(locs[Here].prjs[right].prj)
    /\ ActsOn("forget", RowAt(Here, right)) /\ UNCHANGED question
----------------------------------------------------------------------------
(* Replies.                                                                 *)

SameKeys == ~over /\ UNCHANGED <<over, pressed>>

ListRead ==
    /\ SameKeys /\ listing = "asked"
    /\ \/ listing' = "read" /\ listed' = ListTargets
       \/ listing' = "done" /\ UNCHANGED listed
    /\ UNCHANGED <<locs, history, upped, crossed, partly, launchInput, launchAsync>>

ArmResolve == TRUE
TargetsLoaded ==
    /\ SameKeys /\ listing = "read" /\ listing' = "done" /\ listed' = <<>>
    /\ Shows(listed, q, left, right)
    /\ LET t == TargetIn(listed, left', right') IN
       IF t = Nobody THEN UNCHANGED <<calls, crossed>> ELSE Calls("look", <<t>>)
    /\ armed' = ArmResolve /\ badDir' = FALSE /\ moved' = (failed # NotFailed)
    /\ UNCHANGED <<history, upped, partly, zone, menu, failed, failedOf, resolving, question, downs,
                   ticking, tickers>>

\* A tick of an older resolveGen does nothing and is not kept.
ResolveTyped ==
    /\ SameKeys /\ armed /\ armed' = FALSE
    /\ LET d == TypedDir(q) IN
       resolving' = IF d \notin OnDisk \/ HasDir(locs, d) THEN resolving
                    ELSE [resolving EXCEPT ![d].asked = @ + 1]
    /\ UNCHANGED <<launchRows, launchInput, question, downs, ticking, tickers, calls>>

KnownDir(L, d) == HasDir(L, d)
PutLast(L, l) == Append(L, l)

\* resolveLaunchDirCmd reads the history and the windows off the Update loop.
LookupReads(d) ==
    /\ SameKeys /\ resolving[d].asked > 0
    /\ \E l \in {ResolveDir(d), NoLoc} :
          resolving' = [resolving EXCEPT ![d] = [asked |-> @.asked - 1, read |-> @.read \cup {l}]]
    /\ UNCHANGED <<launchRows, launchInput, armed, question, downs, ticking, tickers, calls>>

Resolved(d, l) ==
    /\ SameKeys /\ resolving' = [resolving EXCEPT ![d].read = @ \ {l}]
    /\ badDir' = (badDir \/ (TypedDir(q) = d /\ l = NoLoc))
    /\ IF TypedDir(q) # d \/ l = NoLoc \/ KnownDir(locs, d) THEN UNCHANGED <<locs, q, left, right>>
       ELSE Shows(PutLast(locs, l), q, left, right)
    /\ SameRows /\ SameFailure
    /\ UNCHANGED <<zone, menu, armed, question, downs, ticking, tickers, calls>>

Recorded(t) == <<t>> \o SelectSeq(history, LAMBDA e : e # t)

\* What a call leaves up.  A bring-up can fail once the project is up (MuxUp,
\* MuxLand), a teardown halfway.
UppedBy(c, st) ==
    LET done == IF c.verb \in {"start", "launch"} THEN upped \cup {c.of}
                ELSE IF c.verb \in {"muxdown", "down"} THEN upped \ {c.of} ELSE upped
    IN IF st = "ok" THEN {done} ELSE {done, upped}

\* The backend is done with a call; its reply is on the way.  A bring-up is
\* recorded as it creates the commands, and the record may fail.
Finish(i) ==
    LET c == calls[i] IN
    /\ SameKeys /\ c.st = "working" /\ c.verb # "look"
    /\ \E st \in {"ok", "err"} :
       /\ calls' = [calls EXCEPT ![i].st = st]
       /\ upped' \in UppedBy(c, st)
       /\ partly' = (IF st = "ok" THEN partly \ (IF c.verb \in Flips THEN {c.of} ELSE {})
                     ELSE IF upped' # upped THEN partly \cup {c.of} ELSE partly)
       /\ \/ c.verb \in {"start", "launch"} /\ history' \in {history, Recorded(c.of)}
          \/ c.verb = "forget" /\ st = "ok" /\ history' = SelectSeq(history, LAMBDA e : e # c.of)
          \/ c.verb \notin {"start", "launch"} /\ (c.verb = "forget" => st = "err") /\ history' = history
    /\ crossed' = IF listing = "read" \/ (c.of.dir \in OnDisk /\ resolving[c.of.dir].read # {})
                  THEN crossed \cup {c.of} ELSE crossed
    /\ UNCHANGED <<locs, listing, listed, launchInput, armed, resolving, question, downs,
                   ticking, tickers>>

Delivers(i, st) == SameKeys /\ calls[i].st = st /\ calls' = [calls EXCEPT ![i] = NoCall]
SetRow(L, ij, starting, running) ==
    [L EXCEPT ![ij[1]].prjs[ij[2]] = [@ EXCEPT !.starting = starting, !.running = running]]

\* onStarted and onLanded: the row by identity, promoted or failed.
BroughtUp(i) ==
    LET found == FoundRows(locs, calls[i].of)
        ij    == CHOOSE p \in found : TRUE
    IN /\ calls[i].verb \in {"start", "launch"}
       /\ \/ /\ Delivers(i, "ok")
             /\ locs' = IF found = {} THEN locs ELSE SetRow(locs, ij, FALSE, TRUE)
             /\ SameFailure /\ UNCHANGED <<q, zone, menu, left, right>>
          \/ /\ Delivers(i, "err")
             /\ IF found = {} THEN SameFailure /\ UNCHANGED <<locs, q, zone, menu, left, right>>
                ELSE FailAt(SetRow(locs, ij, FALSE, locs[ij[1]].prjs[ij[2]].running), ij[1], ij[2])
       /\ SameRows /\ UNCHANGED <<badDir, armed, resolving, question, downs, ticking, tickers>>

\* A landing with nothing more to say closes the launcher, as the end of the
\* attach it asked for does.
Landed(i) == ~over /\ calls[i].verb = "launch" /\ calls[i].st = "ok" /\ Closes

Forgot(i) ==
    LET found == FoundRows(locs, calls[i].of)
        ij    == CHOOSE p \in found : TRUE
        L     == [locs EXCEPT ![ij[1]].prjs = RemoveAt(@, ij[2])]
    IN /\ calls[i].verb = "forget"
       /\ \/ /\ Delivers(i, "ok") /\ found # {}
             /\ locs' = L /\ right' = ClampRight(L, q, left, right)
             /\ failed' = NotFailed /\ failedOf' = Nobody /\ moved' = FALSE
             /\ UNCHANGED <<q, zone, menu, left>>
          \/ Delivers(i, "err") /\ found # {} /\ FailAt(locs, ij[1], ij[2])
          \/ /\ \E st \in {"ok", "err"} : Delivers(i, st)
             /\ found = {} /\ SameFailure /\ UNCHANGED <<locs, q, zone, menu, left, right>>
       /\ SameRows /\ UNCHANGED <<badDir, armed, resolving, question, downs, ticking, tickers>>

ClearRunning(L, t) ==
    LET found == FoundRows(L, t) IN
    IF found = {} THEN L ELSE SetRow(L, CHOOSE p \in found : TRUE, FALSE, FALSE)

TornDown(i) ==
    /\ calls[i].verb \in {"muxdown", "down"}
    /\ \/ Delivers(i, "ok") /\ locs' = ClearRunning(locs, calls[i].of)
       \/ Delivers(i, "err") /\ UNCHANGED locs
    /\ downs' = IF calls[i].verb = "down" THEN downs \ {calls[i].of} ELSE downs
    /\ SameRows /\ SameFailure
    /\ UNCHANGED <<q, zone, menu, left, right, badDir, armed, resolving, question, ticking, tickers>>

DownProgress(i) ==
    /\ SameKeys /\ calls[i].verb = "down" /\ calls[i].st = "working" /\ calls[i].of \notin downs
    /\ downs' = downs \cup {calls[i].of}
    /\ UNCHANGED <<launchRows, launchInput, armed, resolving, question, ticking, tickers, calls>>

\* The last teardown of the project: none, one over by then, or one to follow.
LastDown(i) ==
    /\ SameKeys /\ calls[i].verb = "look"
    /\ \/ calls' = [calls EXCEPT ![i] = NoCall] /\ downs' \in {downs, downs \ {calls[i].of}}
          /\ UNCHANGED crossed
       \/ /\ calls' = [calls EXCEPT ![i].verb = "down"] /\ UNCHANGED downs
          /\ crossed' = crossed \cup {calls[i].of}
    /\ UNCHANGED <<locs, listing, listed, history, upped, partly, launchInput, armed, resolving, question,
                   ticking, tickers>>

LaunchNext ==
    \/ \E w \in {"w", "/t", "/tt", "/ttx"} : TypeKey(w)
    \/ EraseKey \/ ClearKey \/ TabKey \/ BackTabKey \/ EscKey \/ EnterKey
    \/ \E d \in {-1, 1} : MoveCursor(d)
    \/ \E z \in {"input", "left", "right"}, i \in 1..3 : ClickAt(z, i)
    \/ ToggleRow \/ SlashKey \/ StartKey \/ LaunchSelected \/ MuxDownSelected \/ ConfirmDown
    \/ \E yes \in BOOLEAN : AnswerDown(yes)
    \/ DropKey \/ (~over /\ Tick) \/ ListRead \/ TargetsLoaded \/ ResolveTyped
    \/ \E d \in OnDisk : LookupReads(d) \/ \E l \in resolving[d].read : Resolved(d, l)
    \/ \E i \in 1..LaunchActs : \/ Finish(i) \/ BroughtUp(i) \/ Landed(i) \/ Forgot(i)
                                \/ TornDown(i) \/ DownProgress(i) \/ LastDown(i)

LaunchSpec == LaunchInit /\ [][LaunchNext]_launchVars
----------------------------------------------------------------------------
(* Properties.                                                              *)

LaunchTypeOK ==
    /\ zone \in {"input", "left", "right"} /\ listing \in {"asked", "read", "done"}
    /\ left \in Nat \ {0} /\ right \in Nat \ {0} /\ menu.sel \in 0..Len(menu.cands)
    /\ \A d \in OnDisk : resolving[d].asked \in Nat
    /\ question \in [dir : OnDisk \cup {"none"}, prj : {"none", "p1", "p2", "p3", "p4"}]

\* A row that spins has a bring-up under way ("spinning against no bring-up
\* at all", startEnabled), whatever replies and listings came in between.
SpinMeansWork == \A i \in 1..Len(locs) : \A j \in 1..Len(locs[i].prjs) :
    locs[i].prjs[j].starting =>
        \E k \in 1..LaunchActs : /\ calls[k].of = At(locs[i].dir, locs[i].prjs[j].prj)
                                 /\ calls[k].verb \in {"start", "launch"}

\* A directory is one row, though two lookups of it can be under way.
RowsDistinct == \A i, j \in 1..Len(locs) : locs[i].dir = locs[j].dir => i = j

\* A failure stays on its own row ("a row put anywhere but the end would move
\* a failure off its own row", onResolved), unless the listing replaced them.
FailureOnRow ==
    failed # NotFailed /\ ~moved =>
        /\ failed.loc <= Len(locs) /\ failed.prj <= Len(locs[failed.loc].prjs)
        /\ RowAt(failed.loc, failed.prj) = failedOf

\* Once the typing has settled, a typed directory that exists is a row, is
\* being looked up, or its lookup failed: the listing did not lose it.
TypedListed ==
    TypedDir(q) \in OnDisk /\ ~armed /\ ~badDir /\ resolving[TypedDir(q)] = NoLook =>
        HasDir(locs, TypedDir(q))

\* What the y tears down is what D asked about, wherever replies moved the
\* rows and the cursor since.
DownsAsked ==
    \A i \in 1..LaunchActs : calls[i] = NoCall /\ calls'[i].verb = "down" =>
           calls'[i].of = question

\* With nothing under way a row is marked running just when its project was
\* brought up since its last teardown, so that `s` skips only what is up;
\* unless a bring-up overlapped a teardown or the read of a listing, or the
\* last action failed halfway: up but with no dashboard to land in, or not all
\* of it torn down.
RunningAgrees == \A i \in 1..Len(locs) : \A j \in 1..Len(locs[i].prjs) :
    LET t == At(locs[i].dir, locs[i].prjs[j].prj) IN
    t \notin crossed \cup partly /\ (\A k \in 1..LaunchActs : calls[k].of # t) =>
        (locs[i].prjs[j].running <=> t \in upped)
=============================================================================
