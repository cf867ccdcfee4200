----------------------------- MODULE TuiProofs -----------------------------
(***************************************************************************)
(* Theorems about the parts of Tui: the list and its streams, for any set  *)
(* of commands, any number of changes, loads, streams and faults, and a    *)
(* merged channel of any size; the preview, for any commands, moves and    *)
(* lines; the keys, for any number of keys, actions and ups; an attach,    *)
(* for any detach keys that DetachKeysAssumption allows and any read       *)
(* buffer; and what no late reply may do to a selection or a question, in  *)
(* the keys and the widgets.                                               *)
(***************************************************************************)
EXTENDS Tui, FiniteSetTheorems, FunctionTheorems, SequenceTheorems, WellFoundedInduction, TLAPS

-----------------------------------------------------------------------------
(* The list: its inductive invariant, part by part.                        *)

Counts == 0 .. (MaxChanges + 1)
LoadType == [read : {"no", "asked", "yes"}, at : 0 .. MaxChanges, snap : [Cmds -> States],
             torn : BOOLEAN]
PumpType == [cmd : Cmds \cup {"none"}, run : Counts, pushes : {0, 1}, stopped : BOOLEAN,
             pc : {"recv", "send", "ended", "drop", "last", "over"}]
UpdateType == [cmd : Cmds, closed : BOOLEAN, run : Counts]

WatchType ==
    /\ life \in [Cmds -> States] /\ run \in [Cmds -> Counts]
    /\ next \in [Cmds -> States \cup {"none"}] /\ changes \in 0 .. MaxChanges
    /\ signal \in {"none", "change", "error"}
    /\ events \in {"asked", "opened", "waiting", "off"}
    /\ gen \in 0 .. MaxChanges /\ ticks \subseteq 1 .. MaxChanges
    /\ loads \in [1 .. MaxLoads -> LoadType]
    /\ rows \in [Cmds -> States] /\ words \in [Cmds -> Counts] /\ cache = words
    /\ shown \in 0 .. changes
    /\ subs \in [Cmds -> 0 .. MaxSubs] /\ pump \in [SubIds -> PumpType]
    /\ updates \in Seq(UpdateType) /\ Len(updates) <= ChanCap
    /\ watcher \in {"open", "closing", "closed"}
    /\ wfaults \in Nat

\* A run, and a signal, stand for a change of their own.
CountInv ==
    /\ \A c \in Cmds : run[c] <= changes + 1 /\ (next[c] = "up" => run[c] <= changes)
    /\ IF signal = "change" THEN gen < changes ELSE gen <= changes

\* A stream that is not over is of a command, and of a run it has had; the run
\* of one that has ended is over.
PumpOf(s) ==
    /\ pump[s].cmd \in Cmds /\ pump[s].run <= run[pump[s].cmd]
    /\ pump[s].pc \in {"ended", "drop", "last"} => Ended(s)
    /\ pump[s].pc \in {"drop", "last"} => pump[s].stopped
    /\ pump[s].stopped \/ subs[pump[s].cmd] = s
PumpInv == \A s \in SubIds : Over(s) \/ PumpOf(s)

\* A stream that is held is its command's, of a row shown live, and goes on
\* unless it has ended.
HeldSub(c, s) ==
    /\ pump[s].cmd = c /\ rows[c] = "up"
    /\ pump[s].pc \in {"recv", "send", "ended", "drop"}
    /\ pump[s].stopped => pump[s].pc = "drop"
SubsInv ==
    /\ \A c \in Cmds : subs[c] # 0 => HeldSub(c, subs[c])
    /\ watcher # "open" => \A c \in Cmds : subs[c] = 0
    /\ NoSendAfterClose

\* What a row's stream has said, the row shows, or is on its way there.
Sent(c, r) == \E k \in 1 .. Len(updates) : updates[k] = [cmd |-> c, closed |-> FALSE, run |-> r]
SaidOf(c, p) == p.pc = "send" \/ (p.pc = "recv" /\ p.pushes = 1) \/ Sent(c, p.run) \/ words[c] >= p.run
WordsInv ==
    /\ \A c \in Cmds : words[c] <= run[c] /\ (words[c] # 0 => rows[c] = "up")
    /\ \A k \in 1 .. Len(updates) : updates[k].run <= run[updates[k].cmd]
    /\ "late" \notin excuse => \A c \in Cmds : subs[c] # 0 => SaidOf(c, pump[subs[c]])

\* A list that knows of all changes shows the commands as they are.
Calm == \A c \in Cmds : next[c] = "none"
LoadOf(l) == l.read = "yes" => l.at <= changes /\ (l.at = changes /\ ~l.torn => Calm /\ l.snap = life)
LoadsInv == \A i \in 1 .. MaxLoads : LoadOf(loads[i])

\* Unless there is an excuse, the list on screen is as the commands are, with a
\* stream for each that is up, or a newer one is on its way.
Unheard == {"early", "swallowed", "deaf", "failed", "stale", "quit"}
Streamed(c) == subs[c] # 0 /\ pump[subs[c]].run = run[c]
Fresh ==
    /\ shown = changes /\ Calm /\ rows = life
    /\ "missed" \notin excuse => \A c \in Cmds : life[c] = "up" => Streamed(c)
Coming ==
    \/ signal = "change"
    \/ gen \in ticks
    \/ \E i \in 1 .. MaxLoads : loads[i].read = "asked"
    \/ \E i \in 1 .. MaxLoads : loads[i].read = "yes" /\ loads[i].at = changes
FreshInv ==
    /\ events = "off" => "deaf" \in excuse
    /\ watcher # "open" => "quit" \in excuse
    /\ excuse \cap Unheard = {} => Fresh \/ Coming

WatchInv ==
    WatchType /\ CountInv /\ PumpInv /\ SubsInv /\ WordsInv /\ LoadsInv /\ FreshInv

-----------------------------------------------------------------------------
(* The list: its steps.                                                    *)

\* A set of numbers has a least one.
LEMMA LeastNumber ==
    ASSUME NEW T, T \subseteq Nat, T # {}
    PROVE  \E x \in T : \A y \in T : x <= y
<1> DEFINE Below == {1 .. n : n \in T}
           R == StrictSubsetOrdering(Nat)
<1>1. Below \subseteq FiniteSubsetsOf(Nat) /\ Below # {}
  <2>1. \A n \in T : IsFiniteSet(1 .. n) /\ 1 .. n \subseteq Nat
    BY FS_Interval
  <2> QED BY <2>1 DEF FiniteSubsetsOf
<1>2. PICK X \in Below : \A Y \in Below : ~ (<<Y, X>> \in R)
  <2>1. IsWellFoundedOn(R, FiniteSubsetsOf(Nat))
    BY FS_StrictSubsetOrderingWellFounded
  <2> HIDE DEF R, Below
  <2> QED BY <1>1, <2>1, WFMin
<1>3. PICK x \in T : X = 1 .. x
  BY <1>2
<1>4. ASSUME NEW y \in T, y < x PROVE FALSE
  <2>1. 1 .. y \in Below /\ 1 .. y \subseteq 1 .. x /\ 1 .. y # 1 .. x
    <3>1. x \in 1 .. x /\ x \notin 1 .. y
      BY <1>4
    <3> QED BY <1>4, <3>1
  <2>2. <<1 .. y, X>> \in R
    BY <1>1, <1>2, <1>3, <2>1 DEF StrictSubsetOrdering
  <2> QED BY <1>2, <2>1, <2>2
<1> QED BY <1>4

LEMMA NumberedFits ==
    ASSUME NEW D, D \subseteq Cmds, Cardinality(D) <= Cardinality(FreeSubs)
    PROVE  /\ Numbered(D) \in [D -> FreeSubs]
           /\ \A c, d \in D : Numbered(D)[c] = Numbered(D)[d] => c = d
<1> DEFINE F == FreeSubs
           n == Cardinality(D)
           m == Cardinality(F)
<1>1. IsFiniteSet(D) /\ IsFiniteSet(F)
  <2>1. IsFiniteSet(SubIds)
    BY FS_Interval, WatchAssumption DEF SubIds
  <2>2. F \subseteq SubIds
    BY DEF FreeSubs
  <2> QED BY <2>1, <2>2, FS_Subset, WatchAssumption
<1>2. n \in Nat /\ m \in Nat /\ ExistsBijection(1 .. n, D) /\ ExistsBijection(1 .. m, F)
  BY <1>1, FS_CardinalityType
<1>3. ExistsInjection(1 .. n, 1 .. m)
  BY <1>2, Fun_NatInjLeq
<1>4. ExistsInjection(D, 1 .. n)
  BY <1>2, Fun_ExistsBijSymmetric, Fun_ExistsBijEquiv
<1>5. ExistsInjection(1 .. m, F)
  BY <1>2, Fun_ExistsBijEquiv
<1>6. ExistsInjection(D, F)
  <2>1. ExistsInjection(D, 1 .. m)
    BY <1>3, <1>4, Fun_ExistsInjTransitive
  <2> QED BY <2>1, <1>5, Fun_ExistsInjTransitive
<1>7. PICK f \in [D -> F] : \A c, d \in D : f[c] = f[d] => c = d
  BY <1>6 DEF ExistsInjection, Injection, IsInjective
<1> QED BY <1>7 DEF Numbered

LEMMA ListInit == WatchInit => WatchInv
<1> SUFFICES ASSUME WatchInit PROVE WatchInv
  OBVIOUS
<1>0. 1 \in 1 .. MaxLoads /\ 0 \in Counts /\ 1 \in Counts
  BY WatchAssumption DEF Counts
<1>1. WatchType
  <2>1. NoLoad \in LoadType /\ Asked \in LoadType
    <3>1. [c \in Cmds |-> "gone"] \in [Cmds -> States]
      BY DEF States
    <3>2. 0 \in 0 .. MaxChanges
      BY WatchAssumption
    <3> QED BY <3>1, <3>2 DEF NoLoad, Asked, LoadType
  <2>2. NoPump \in PumpType
    BY <1>0 DEF NoPump, PumpType
  <2>3. updates \in Seq(UpdateType) /\ Len(updates) = 0
    BY DEF WatchInit
  <2> QED BY <1>0, <2>1, <2>2, <2>3, WatchAssumption DEF WatchInit, WatchType, States
<1>2. PumpInv
  BY DEF WatchInit, PumpInv, Over, NoPump
<1>3. CountInv /\ SubsInv /\ WordsInv
  BY <1>0 DEF WatchInit, CountInv, SubsInv, WordsInv, NoSendAfterClose
<1>4. LoadsInv
  BY DEF WatchInit, LoadsInv, LoadOf, Asked, NoLoad
<1>5. FreshInv
  <2>1. loads[1].read = "asked"
    BY <1>0 DEF WatchInit, Asked, NoLoad
  <2> QED BY <1>0, <2>1 DEF WatchInit, FreshInv, Coming
<1> QED BY <1>1, <1>2, <1>3, <1>4, <1>5 DEF WatchInv

\* What a step that leaves the streams, the runs and the screen alone keeps.
LEMMA StreamsStay ==
    ASSUME PumpInv, SubsInv, WordsInv, UNCHANGED <<life, run, rows, words, subs, pump, updates, watcher>>,
           excuse \subseteq excuse'
    PROVE  PumpInv' /\ SubsInv' /\ WordsInv'
<1>1. PumpInv'
  BY DEF PumpInv, PumpOf, Over, Ended
<1>2. SubsInv'
  BY DEF SubsInv, HeldSub, NoSendAfterClose, Over
<1>3. WordsInv'
  BY DEF WordsInv, SaidOf, Sent
<1> QED BY <1>1, <1>2, <1>3

LEMMA UpdateTyped ==
    ASSUME WatchType
    PROVE  \A k \in 1 .. Len(updates) :
               updates[k] \in UpdateType /\ updates[k].cmd \in Cmds /\ updates[k].run \in Int
<1> SUFFICES ASSUME NEW k \in 1 .. Len(updates)
             PROVE  updates[k] \in UpdateType /\ updates[k].cmd \in Cmds /\ updates[k].run \in Int
  OBVIOUS
<1>1. updates[k] \in UpdateType
  BY DEF WatchType
<1> QED BY <1>1, WatchAssumption DEF UpdateType, Counts

LEMMA AnnounceStep ==
    ASSUME WatchInv, NEW c \in Cmds, NEW st \in {"gone", "down", "up"}, Announce(c, st)
    PROVE  WatchInv'
<1> USE DEF WatchInv
<1>1. WatchType'
  BY WatchAssumption DEF WatchType, Announce, Signalled, screen, streams, States
<1>2. CountInv'
  BY DEF CountInv, WatchType, Announce, Signalled, screen, Counts, Follows
<1>3. PumpInv' /\ SubsInv' /\ WordsInv'
  BY StreamsStay DEF Announce, screen, streams
<1>4. LoadsInv'
  <2>1. \A i \in 1 .. MaxLoads : loads[i].at \in Int /\ changes' = changes + 1 /\ changes \in Int
    BY WatchAssumption DEF WatchType, LoadType, Announce
  <2> QED BY <2>1 DEF LoadsInv, LoadOf, Announce
<1>5. FreshInv'
  BY DEF FreshInv, Coming, Announce, Signalled, Unheard, WatchType, streams
<1> QED BY <1>1, <1>2, <1>3, <1>4, <1>5

LEMMA SettleStep ==
    ASSUME WatchInv, NEW c \in Cmds, Settle(c)
    PROVE  WatchInv'
<1> USE DEF WatchInv
<1>a. next[c] \in States /\ ~Calm
  BY DEF WatchType, Settle, Calm
<1>b. UNCHANGED <<changes, signal, events, gen, ticks, loads, rows, words, cache, shown, subs, pump, updates,
                  watcher, excuse, wfaults>>
  BY DEF Settle, feed, screen, streams
<1>c. \A d \in Cmds : /\ run'[d] = IF d = c /\ next[c] = "up" THEN run[d] + 1 ELSE run[d]
                      /\ life'[d] = IF d = c THEN next[c] ELSE life[d]
                      /\ next'[d] = IF d = c THEN "none" ELSE next[d]
  BY DEF Settle, WatchType
<1>d. run' \in [Cmds -> Counts] /\ life' \in [Cmds -> States] /\ next' \in [Cmds -> States \cup {"none"}]
  BY <1>a, WatchAssumption, SMTT(20) DEF Settle, WatchType, CountInv, Counts
<1>1. WatchType'
  BY <1>b, <1>d DEF WatchType
<1>2. CountInv'
  <2>1. \A d \in Cmds : run[d] \in Int /\ changes \in Int
    BY WatchAssumption DEF WatchType, Counts
  <2> QED BY <1>b, <1>c, <2>1 DEF CountInv
<1>3. PumpInv'
  <2> SUFFICES ASSUME NEW s \in SubIds, ~Over(s) PROVE PumpOf(s)'
    BY <1>b DEF PumpInv, Over
  <2>1. PumpOf(s) /\ pump[s].run \in Counts /\ pump[s].cmd \in Cmds /\ run[pump[s].cmd] \in Counts
    BY DEF PumpInv, PumpOf, WatchType, PumpType
  <2>2. pump[s].run <= run'[pump[s].cmd]
    BY <1>c, <2>1 DEF PumpOf, Counts
  <2>3. Ended(s) => Ended(s)'
    BY <1>b, <1>c, <2>1 DEF PumpOf, Counts, Ended
  <2> QED BY <1>b, <2>1, <2>2, <2>3 DEF PumpOf
<1>4. SubsInv'
  BY <1>b DEF SubsInv, HeldSub, NoSendAfterClose, Over
<1>5. WordsInv'
  <2>1. \A d \in Cmds : words[d] <= run'[d]
    <3>1. \A d \in Cmds : run[d] \in Int /\ words[d] \in Int
      BY WatchAssumption DEF WatchType, Counts
    <3> QED BY <1>c, <3>1 DEF WordsInv
  <2>2. \A k \in 1 .. Len(updates) : updates[k].cmd \in Cmds /\ updates[k].run \in Int
    BY UpdateTyped
  <2>3. \A k \in 1 .. Len(updates) : updates[k].run <= run'[updates[k].cmd]
    <3>1. \A d \in Cmds : run[d] \in Int
      BY WatchAssumption DEF WatchType, Counts
    <3> QED BY <1>c, <2>2, <3>1 DEF WordsInv
  <2> QED BY <1>b, <2>1, <2>3 DEF WordsInv, SaidOf, Sent
<1>6. LoadsInv'
  BY <1>a, <1>b DEF LoadsInv, LoadOf, Calm
<1>7. FreshInv'
  BY <1>a, <1>b DEF FreshInv, Fresh, Coming
<1> QED BY <1>1, <1>2, <1>3, <1>4, <1>5, <1>6, <1>7

\* Signals, ticks and loads, ahead of what a load brings.
Feeding ==
    \/ RecordFails \/ EventsOpen \/ EventsSubscribed \/ EventsFail \/ EventSignal
    \/ \E g \in ticks : ReloadTick(g)
    \/ \E i \in 1 .. MaxLoads : ReadList(i) \/ LoadFails(i)

LEMMA LowestFree ==
    ASSUME FreeLoads # {}
    PROVE  Lowest(FreeLoads) \in FreeLoads
<1>1. FreeLoads \subseteq Nat
  BY DEF FreeLoads
<1>2. \E i \in FreeLoads : \A j \in FreeLoads : i <= j
  BY <1>1, LeastNumber
<1> QED BY <1>2 DEF Lowest

LEMMA FeedStep ==
    ASSUME WatchInv, Feeding
    PROVE  WatchInv'
<1> USE DEF WatchInv
<1>a. UNCHANGED <<life, run, next, changes, rows, words, cache, shown, subs, pump, updates, watcher>>
  BY DEF Feeding, RecordFails, EventsOpen, EventsSubscribed, EventsFail, EventSignal, ReloadTick, ReadList,
         LoadFails, world, screen, streams
<1>b. excuse \subseteq excuse'
  BY DEF Feeding, RecordFails, EventsOpen, EventsSubscribed, EventsFail, EventSignal, ReloadTick, ReadList,
         LoadFails
<1>c. changes \in 0 .. MaxChanges /\ gen \in 0 .. MaxChanges /\ ticks \subseteq 1 .. MaxChanges
  BY DEF WatchType
<1>d. wfaults' \in Nat
  BY DEF Feeding, RecordFails, EventsOpen, EventsSubscribed, EventsFail, EventSignal, ReloadTick, ReadList,
         LoadFails, Fault, WatchType
<1>e. NoLoad \in LoadType /\ Asked \in LoadType /\ NoLoad.read = "no" /\ Asked.read = "asked"
  <2>1. [c \in Cmds |-> "gone"] \in [Cmds -> States]
    BY DEF States
  <2>2. 0 \in 0 .. MaxChanges
    BY WatchAssumption
  <2> QED BY <2>1, <2>2 DEF NoLoad, Asked, LoadType
<1>f. PumpInv' /\ SubsInv' /\ WordsInv'
  BY <1>a, <1>b, StreamsStay
<1>g. loads \in [1 .. MaxLoads -> LoadType]
  BY DEF WatchType
<1>1. CASE RecordFails \/ EventsOpen \/ EventsSubscribed \/ EventsFail
  <2>1. UNCHANGED <<gen, ticks, loads>> /\ (signal = "change" <=> signal' = "change")
        /\ signal' \in {"none", "change", "error"} /\ events' \in {"asked", "opened", "waiting", "off"}
    BY <1>1 DEF RecordFails, EventsOpen, EventsSubscribed, EventsFail, WatchType
  <2>2. WatchType' /\ CountInv'
    BY <1>a, <1>d, <2>1 DEF WatchType, CountInv
  <2>3. LoadsInv'
    BY <1>a, <2>1 DEF LoadsInv, LoadOf, Calm
  <2>4. Fresh => Fresh'
    BY <1>a, <1>b DEF Fresh, Calm, Streamed
  <2>5. Coming => Coming'
    BY <1>a, <2>1 DEF Coming
  <2>6. events' = "off" => "deaf" \in excuse'
    BY <1>1, <1>b DEF RecordFails, EventsOpen, EventsSubscribed, EventsFail, FreshInv
  <2>7. FreshInv'
    BY <1>a, <1>b, <2>4, <2>5, <2>6 DEF FreshInv
  <2> QED BY <1>f, <2>2, <2>3, <2>7
<1>2. CASE EventSignal
  <2>1. /\ signal' = "none" /\ loads' = loads /\ events' = events /\ excuse' = excuse
        /\ IF signal = "change" THEN gen' = gen + 1 /\ ticks' = ticks \cup {gen + 1}
                                ELSE gen' = gen /\ ticks' = ticks
    BY <1>2 DEF EventSignal
  <2>2. CountInv'
    BY <1>a, <1>c, <2>1 DEF CountInv
  <2>3. gen' \in 0 .. MaxChanges /\ ticks' \subseteq 1 .. MaxChanges
    <3>1. signal = "change" => gen + 1 \in 1 .. MaxChanges
      BY <1>c, WatchAssumption DEF CountInv
    <3>2. gen' \in 0 .. MaxChanges
      BY <1>c, <2>1, <3>1, WatchAssumption
    <3> QED BY <1>c, <2>1, <3>1, <3>2
  <2>4. WatchType'
    BY <1>a, <1>d, <2>1, <2>3 DEF WatchType
  <2>5. LoadsInv'
    BY <1>a, <2>1 DEF LoadsInv, LoadOf, Calm
  <2>6. Fresh => Fresh'
    BY <1>a, <2>1 DEF Fresh, Calm, Streamed
  <2>7. Coming => Coming'
    BY <1>a, <2>1 DEF Coming
  <2>8. FreshInv'
    BY <1>a, <2>1, <2>6, <2>7 DEF FreshInv
  <2> QED BY <1>f, <2>2, <2>4, <2>5, <2>8
<1>3. ASSUME NEW g \in ticks, ReloadTick(g) PROVE WatchInv'
  <2>1. UNCHANGED <<signal, events, gen, excuse>> /\ ticks' = ticks \ {g}
    BY <1>3 DEF ReloadTick
  <2>2. CountInv'
    BY <1>a, <2>1 DEF CountInv
  <2>3. Fresh => Fresh'
    BY <1>a, <2>1 DEF Fresh, Calm, Streamed
  <2>4. CASE g # gen
    <3>1. loads' = loads
      BY <1>3, <2>4 DEF ReloadTick, StaleTick
    <3>2. WatchType'
      BY <1>a, <1>c, <1>d, <2>1, <3>1 DEF WatchType
    <3>3. LoadsInv'
      BY <1>a, <3>1 DEF LoadsInv, LoadOf, Calm
    <3>4. Coming => Coming'
      BY <1>a, <2>1, <2>4, <3>1 DEF Coming
    <3> QED BY <1>a, <1>f, <2>1, <2>2, <2>3, <3>2, <3>3, <3>4 DEF FreshInv
  <2>5. CASE g = gen
    <3>1. PICK i \in 1 .. MaxLoads : loads' = [loads EXCEPT ![i] = Asked]
      BY <1>3, <2>5, LowestFree DEF ReloadTick, StaleTick, FreeLoads
    <3>2. loads' \in [1 .. MaxLoads -> LoadType] /\ loads'[i].read = "asked"
      BY <1>e, <1>g, <3>1
    <3>3. WatchType'
      BY <1>a, <1>c, <1>d, <2>1, <3>2 DEF WatchType
    <3>4. LoadsInv'
      BY <1>a, <1>e, <1>g, <3>1 DEF LoadsInv, LoadOf, Calm
    <3>5. Coming'
      BY <3>2 DEF Coming
    <3> QED BY <1>a, <1>f, <2>1, <2>2, <3>3, <3>4, <3>5 DEF FreshInv
  <2> QED BY <2>4, <2>5
<1>4. ASSUME NEW i \in 1 .. MaxLoads, ReadList(i) PROVE WatchInv'
  <2> DEFINE l == [read |-> "yes", at |-> changes, snap |-> life, torn |-> \E c \in Cmds : next[c] # "none"]
  <2>1. UNCHANGED <<signal, events, gen, ticks, excuse>> /\ loads' = [loads EXCEPT ![i] = l]
    BY <1>4 DEF ReadList, feed
  <2>2. l \in LoadType
    BY <1>c DEF LoadType, WatchType
  <2>3. WatchType'
    BY <1>a, <1>c, <1>d, <1>g, <2>1, <2>2 DEF WatchType
  <2>4. CountInv'
    BY <1>a, <2>1 DEF CountInv
  <2>5. LoadsInv'
    <3>1. changes <= changes
      BY <1>c
    <3> QED BY <1>a, <1>g, <2>1, <3>1 DEF LoadsInv, LoadOf, Calm
  <2>6. Fresh => Fresh'
    BY <1>a, <2>1 DEF Fresh, Calm, Streamed
  <2>7. Coming'
    <3>1. loads'[i] = l
      BY <1>g, <2>1
    <3> QED BY <1>a, <3>1 DEF Coming
  <2> QED BY <1>a, <1>f, <2>1, <2>3, <2>4, <2>5, <2>7 DEF FreshInv
<1>5. ASSUME NEW i \in 1 .. MaxLoads, LoadFails(i) PROVE WatchInv'
  <2>1. UNCHANGED <<signal, events, gen, ticks>> /\ loads' = [loads EXCEPT ![i] = NoLoad] /\ "failed" \in excuse'
    BY <1>5 DEF LoadFails, feed
  <2>2. WatchType'
    BY <1>a, <1>c, <1>d, <1>e, <1>g, <2>1 DEF WatchType
  <2>3. CountInv'
    BY <1>a, <2>1 DEF CountInv
  <2>4. LoadsInv'
    BY <1>a, <1>e, <1>g, <2>1 DEF LoadsInv, LoadOf, Calm
  <2> QED BY <1>a, <1>b, <1>f, <2>1, <2>2, <2>3, <2>4 DEF FreshInv, Unheard
<1> QED BY <1>1, <1>2, <1>3, <1>4, <1>5 DEF Feeding

\* What a step that leaves the commands, the loads and the list alone keeps.
LEMMA ListStays ==
    ASSUME WatchInv, UNCHANGED <<life, run, next, changes, signal, events, gen, ticks, loads, rows, shown, watcher>>,
           excuse \subseteq excuse', \A c \in Cmds : Streamed(c) /\ life[c] = "up" => Streamed(c)'
    PROVE  CountInv' /\ LoadsInv' /\ FreshInv'
<1> USE DEF WatchInv
<1>1. CountInv' /\ LoadsInv'
  BY DEF CountInv, LoadsInv, LoadOf, Calm
<1>2. Fresh => Fresh'
  BY DEF Fresh, Calm
<1>3. Coming => Coming'
  BY DEF Coming
<1> QED BY <1>1, <1>2, <1>3 DEF FreshInv

LEMMA PumpStep ==
    ASSUME WatchInv, NEW s \in SubIds, PumpNext(s)
    PROVE  WatchInv'
<1> USE DEF WatchInv
<1>a. UNCHANGED <<life, run, next, changes, signal, events, gen, ticks, loads, rows, words, cache, shown, watcher,
                  excuse, wfaults>>
  BY DEF PumpNext, PumpReceives, PumpCancelled, PumpSends, PumpEnds, PumpDrops, world, feed, screen
<1>b. pump \in [SubIds -> PumpType] /\ subs \in [Cmds -> 0 .. MaxSubs] /\ 0 \notin SubIds
  BY DEF WatchType, SubIds
<1>c. ~Over(s) /\ PumpOf(s) /\ pump[s] \in PumpType
  BY <1>b DEF PumpNext, PumpReceives, PumpCancelled, PumpSends, PumpEnds, PumpDrops, PumpInv, Over, PumpType
<1>d. watcher # "closed"
  BY <1>c DEF SubsInv, NoSendAfterClose
<1>e. \A c \in Cmds : subs[c] # 0 => subs[c] \in SubIds
  BY <1>b, WatchAssumption DEF SubIds
<1>n. NoPump \in PumpType /\ NoPump.pc = "over"
  BY WatchAssumption DEF NoPump, PumpType, Counts
<1>1. CASE subs' = subs /\ updates' = updates
           /\ \E p \in PumpType : /\ pump' = [pump EXCEPT ![s] = p]
                                  /\ p.cmd = pump[s].cmd /\ p.run = pump[s].run
                                  /\ \/ /\ pump[s].pc = "recv" /\ p.stopped = pump[s].stopped
                                        /\ \/ pump[s].pushes > 0 /\ p.pc = "send"
                                           \/ pump[s].pushes = 0 /\ p.pc = "ended" /\ Ended(s)
                                     \/ pump[s].pc = "ended" /\ p.pc = "drop" /\ p.stopped
  <2>1. PICK p \in PumpType : /\ pump' = [pump EXCEPT ![s] = p]
                              /\ p.cmd = pump[s].cmd /\ p.run = pump[s].run
                              /\ \/ /\ pump[s].pc = "recv" /\ p.stopped = pump[s].stopped
                                    /\ \/ pump[s].pushes > 0 /\ p.pc = "send"
                                       \/ pump[s].pushes = 0 /\ p.pc = "ended" /\ Ended(s)
                                 \/ pump[s].pc = "ended" /\ p.pc = "drop" /\ p.stopped
    BY <1>1
  <2>2. /\ pump' \in [SubIds -> PumpType] /\ pump'[s] = p
        /\ \A t \in SubIds \ {s} : pump'[t] = pump[t]
    BY <1>b, <2>1
  <2>3. WatchType'
    BY <1>1, <1>a, <2>2 DEF WatchType
  <2>4. Ended(s) => Ended(s)'
    BY <1>a, <2>1, <2>2 DEF Ended
  <2>5. PumpOf(s)'
    BY <1>1, <1>a, <1>c, <2>1, <2>2, <2>4 DEF PumpOf, PumpType
  <2>6. PumpInv'
    BY <1>1, <1>a, <2>2, <2>5 DEF PumpInv, PumpOf, Over, Ended
  <2>7. SubsInv'
    <3>1. \A c \in Cmds : subs[c] # 0 => HeldSub(c, subs[c])'
      <4> SUFFICES ASSUME NEW c \in Cmds, subs[c] # 0 PROVE HeldSub(c, subs[c])'
        OBVIOUS
      <4>1. HeldSub(c, subs[c]) /\ subs[c] \in SubIds
        BY <1>e DEF SubsInv
      <4> QED BY <1>1, <1>a, <2>1, <2>2, <4>1 DEF HeldSub
    <3> QED BY <1>1, <1>a, <1>d, <3>1 DEF SubsInv, NoSendAfterClose
  <2>8. WordsInv'
    <3>1. ASSUME NEW c \in Cmds, subs[c] # 0, SaidOf(c, pump[subs[c]]) PROVE SaidOf(c, pump[subs[c]])'
      <4>1. HeldSub(c, subs[c]) /\ subs[c] \in SubIds
        BY <1>e, <3>1 DEF SubsInv
      <4>2. CASE subs[c] = s
        <5>1. pump[subs[c]]' = p
          BY <1>1, <2>2, <4>2
        <5>2. p.pc = "send" \/ Sent(c, p.run) \/ words[c] >= p.run
          BY <2>1, <3>1, <4>2 DEF SaidOf
        <5>3. Sent(c, p.run) => Sent(c, pump[subs[c]].run)'
          BY <1>1, <5>1 DEF Sent
        <5> QED BY <1>a, <5>1, <5>2, <5>3 DEF SaidOf
      <4>3. CASE subs[c] # s
        BY <1>1, <1>a, <2>2, <3>1, <4>1, <4>3, ZenonT(40) DEF SaidOf, Sent
      <4> QED BY <4>2, <4>3
    <3> QED BY <1>1, <1>a, <3>1 DEF WordsInv
  <2>9. \A c \in Cmds : Streamed(c) => Streamed(c)'
    BY <1>1, <1>a, <1>e, <2>1, <2>2 DEF Streamed
  <2> QED BY <1>a, <2>3, <2>6, <2>7, <2>8, <2>9, ListStays
<1>2. CASE PumpCancelled(s)
  <2>1. /\ subs' = subs /\ updates' = updates /\ pump' = [pump EXCEPT ![s] = NoPump]
        /\ \A c \in Cmds : subs[c] # s
    BY <1>2, <1>b, <1>e DEF PumpCancelled, SubsInv, HeldSub
  <2>2. /\ pump' \in [SubIds -> PumpType] /\ pump'[s].pc = "over"
        /\ \A t \in SubIds \ {s} : pump'[t] = pump[t]
    BY <1>b, <1>n, <2>1
  <2>3. WatchType'
    BY <1>a, <2>1, <2>2 DEF WatchType
  <2>4. PumpInv'
    BY <1>a, <2>1, <2>2 DEF PumpInv, PumpOf, Over, Ended
  <2>5. \A c \in Cmds : subs[c] # 0 => subs[c] \in SubIds \ {s}
    BY <1>e, <2>1
  <2>6. SubsInv'
    BY <1>a, <1>d, <2>1, <2>2, <2>5 DEF SubsInv, HeldSub, NoSendAfterClose
  <2>7. WordsInv'
    BY <1>a, <2>1, <2>2, <2>5 DEF WordsInv, SaidOf, Sent
  <2>8. \A c \in Cmds : Streamed(c) => Streamed(c)'
    BY <1>a, <2>1, <2>2, <2>5 DEF Streamed
  <2> QED BY <1>a, <2>3, <2>4, <2>6, <2>7, <2>8, ListStays
<1>3. CASE PumpSends(s)
  <2> DEFINE u == [cmd |-> pump[s].cmd, closed |-> pump[s].pc = "last", run |-> pump[s].run]
             p == IF pump[s].pc = "last" THEN NoPump ELSE [pump[s] EXCEPT !.pc = "recv"]
  <2>1. /\ pump[s].pc \in {"send", "last"} /\ Len(updates) < ChanCap
        /\ subs' = subs /\ updates' = Append(updates, u) /\ pump' = [pump EXCEPT ![s] = p]
    BY <1>3, <1>b DEF PumpSends
  <2>2. p \in PumpType /\ (pump[s].pc = "send" => /\ p.pc = "recv" /\ p.cmd = pump[s].cmd /\ p.run = pump[s].run
                                                  /\ p.stopped = pump[s].stopped)
    BY <1>c, <1>n DEF PumpType
  <2>3. /\ pump' \in [SubIds -> PumpType] /\ pump'[s] = p
        /\ \A t \in SubIds \ {s} : pump'[t] = pump[t]
    BY <1>b, <2>1, <2>2
  <2>4. u \in UpdateType /\ u.run <= run[u.cmd] /\ u.cmd \in Cmds
    BY <1>c DEF PumpOf, PumpType, UpdateType
  <2>5. /\ updates' \in Seq(UpdateType) /\ Len(updates') = Len(updates) + 1 /\ Len(updates) \in Nat
        /\ updates'[Len(updates) + 1] = u /\ \A k \in 1 .. Len(updates) : updates'[k] = updates[k]
    <3>1. updates \in Seq(UpdateType)
      BY DEF WatchType
    <3> HIDE DEF u
    <3> QED BY <2>1, <2>4, <3>1
  <2>6. WatchType'
    <3>1. Len(updates') <= ChanCap
      BY <2>1, <2>5, WatchAssumption
    <3> QED BY <1>a, <2>1, <2>3, <2>5, <3>1 DEF WatchType
  <2>7. PumpInv'
    <3>1. Over(s)' \/ PumpOf(s)'
      BY <1>a, <1>c, <1>n, <2>1, <2>2, <2>3 DEF PumpOf, Over
    <3> HIDE DEF p
    <3> QED BY <1>a, <2>1, <2>3, <3>1 DEF PumpInv, PumpOf, Over, Ended
  <2>8. SubsInv'
    <3>1. \A c \in Cmds : subs[c] # 0 => HeldSub(c, subs[c])'
      <4> SUFFICES ASSUME NEW c \in Cmds, subs[c] # 0 PROVE HeldSub(c, subs[c])'
        OBVIOUS
      <4>1. HeldSub(c, subs[c]) /\ subs[c] \in SubIds
        BY <1>e DEF SubsInv
      <4>2. CASE subs[c] = s
        <5>1. pump[s].pc = "send"
          BY <2>1, <4>1, <4>2 DEF HeldSub
        <5> HIDE DEF p
        <5> QED BY <1>a, <2>1, <2>2, <2>3, <4>1, <4>2, <5>1 DEF HeldSub
      <4>3. CASE subs[c] # s
        BY <1>a, <2>1, <2>3, <4>1, <4>3 DEF HeldSub
      <4> QED BY <4>2, <4>3
    <3> QED BY <1>a, <1>d, <2>1, <3>1 DEF SubsInv, NoSendAfterClose
  <2>9. WordsInv'
    <3>2. \A k \in 1 .. Len(updates') : updates'[k].run <= run[updates'[k].cmd]
      <4> HIDE DEF u
      <4> QED BY <2>4, <2>5 DEF WordsInv
    <3>3. ASSUME NEW c \in Cmds, subs[c] # 0, SaidOf(c, pump[subs[c]]) PROVE SaidOf(c, pump[subs[c]])'
      <4>1. HeldSub(c, subs[c]) /\ subs[c] \in SubIds /\ pump[subs[c]].run \in Int
        BY <1>b, <1>e, <3>3, WatchAssumption DEF SubsInv, PumpType, Counts
      <4>2. CASE subs[c] = s
        <5>1. pump[s].pc = "send" /\ pump[s].cmd = c
          BY <2>1, <4>1, <4>2 DEF HeldSub
        <5>2. (pump[s].pc = "last") = FALSE /\ p.run = pump[s].run
          BY <2>2, <5>1
        <5>3. u = [cmd |-> c, closed |-> FALSE, run |-> p.run]
          BY <5>1, <5>2
        <5> HIDE DEF u, p
        <5>4. p = pump[subs[c]]'
          BY <2>1, <2>3, <4>2
        <5>5. Len(updates) + 1 \in 1 .. Len(updates') /\ updates'[Len(updates) + 1] = [cmd |-> c, closed |-> FALSE, run |-> pump[subs[c]].run]'
          BY <2>5, <5>3, <5>4
        <5>6. Sent(c, pump[subs[c]].run)'
          BY <5>5 DEF Sent
        <5> QED BY <5>6 DEF SaidOf
      <4>3. CASE subs[c] # s
        <5>1. pump'[subs[c]] = pump[subs[c]]
          BY <2>3, <4>1, <4>3
        <5>2. pump[subs[c]]' = pump[subs[c]]
          BY <2>1, <5>1
        <5>3. Sent(c, pump[subs[c]].run) => Sent(c, pump[subs[c]].run)'
          <6> HIDE DEF u
          <6> QED BY <2>5, <5>2 DEF Sent
        <5> QED BY <1>a, <3>3, <5>2, <5>3 DEF SaidOf
      <4> QED BY <4>2, <4>3
    <3> QED BY <1>a, <2>1, <3>2, <3>3 DEF WordsInv
  <2>10. \A c \in Cmds : Streamed(c) => Streamed(c)'
    <3> SUFFICES ASSUME NEW c \in Cmds, Streamed(c) PROVE Streamed(c)'
      OBVIOUS
    <3>1. HeldSub(c, subs[c]) /\ subs[c] \in SubIds
      BY <1>e DEF SubsInv, Streamed
    <3>2. subs[c] = s => pump[s].pc = "send"
      BY <2>1, <3>1 DEF HeldSub
    <3> HIDE DEF p
    <3> QED BY <1>a, <2>1, <2>2, <2>3, <3>1, <3>2 DEF Streamed
  <2> QED BY <1>a, <2>6, <2>7, <2>8, <2>9, <2>10, ListStays
<1>4. CASE PumpDrops(s)
  <2> DEFINE p == [pump[s] EXCEPT !.pc = "last"]
  <2>1. pump[s].pc = "drop" /\ pump' = [pump EXCEPT ![s] = p] /\ updates' = updates
        /\ \A c \in Cmds : subs'[c] = IF subs[c] = s THEN 0 ELSE subs[c]
    BY <1>4, <1>b DEF PumpDrops, DropEnded
  <2>2. p \in PumpType /\ p.pc = "last" /\ p.cmd = pump[s].cmd /\ p.run = pump[s].run /\ p.stopped = pump[s].stopped
    BY <1>c DEF PumpType
  <2>3. /\ pump' \in [SubIds -> PumpType] /\ pump'[s] = p
        /\ \A t \in SubIds \ {s} : pump'[t] = pump[t]
    BY <1>b, <2>1, <2>2
  <2> HIDE DEF p
  <2>4. subs' \in [Cmds -> 0 .. MaxSubs]
    BY <1>4, <1>b, WatchAssumption DEF PumpDrops, DropEnded
  <2>5. WatchType'
    BY <1>a, <2>1, <2>3, <2>4 DEF WatchType
  <2>6. \A c \in Cmds : subs'[c] # 0 => subs'[c] = subs[c] /\ subs[c] \in SubIds \ {s}
    BY <1>e, <2>1
  <2>7. PumpInv'
    <3>1. PumpOf(s)'
      BY <1>a, <1>c, <2>1, <2>2, <2>3 DEF PumpOf, Ended
    <3>2. ASSUME NEW t \in SubIds \ {s}, ~Over(t) PROVE PumpOf(t)'
      <4>1. PumpOf(t)
        BY <3>2 DEF PumpInv
      <4>2. subs[pump[t].cmd] = t => subs'[pump[t].cmd] = t
        BY <2>1, <4>1 DEF PumpOf
      <4> QED BY <1>a, <2>3, <4>1, <4>2 DEF PumpOf, Ended
    <3> QED BY <2>3, <3>1, <3>2 DEF PumpInv, Over
  <2>8. SubsInv'
    <3>1. \A c \in Cmds : subs'[c] # 0 => HeldSub(c, subs[c])'
      BY <1>a, <2>3, <2>6 DEF SubsInv, HeldSub
    <3> QED BY <1>a, <1>d, <2>1, <2>6, <3>1 DEF SubsInv, NoSendAfterClose
  <2>9. WordsInv'
    BY <1>a, <2>1, <2>3, <2>6 DEF WordsInv, SaidOf, Sent
  <2>10. \A c \in Cmds : Streamed(c) /\ life[c] = "up" => Streamed(c)'
    <3> SUFFICES ASSUME NEW c \in Cmds, Streamed(c), life[c] = "up" PROVE Streamed(c)'
      OBVIOUS
    <3>1. HeldSub(c, subs[c]) /\ subs[c] \in SubIds
      BY <1>e DEF SubsInv, Streamed
    <3>2. subs[c] # s
      BY <1>c, <2>1, <3>1 DEF PumpOf, Ended, HeldSub, Streamed
    <3> QED BY <1>a, <2>1, <2>3, <3>1, <3>2 DEF Streamed
  <2> QED BY <1>a, <2>5, <2>7, <2>8, <2>9, <2>10, ListStays
<1>5. CASE PumpReceives(s)
  <2>1. CASE pump[s].pushes > 0
    <3> DEFINE p == [pump[s] EXCEPT !.pushes = @ - 1, !.pc = "send"]
    <3>1. p \in PumpType /\ pump' = [pump EXCEPT ![s] = p]
      BY <1>5, <1>b, <1>c, <2>1 DEF PumpReceives, PumpType
    <3> QED BY <1>1, <1>5, <1>c, <2>1, <3>1 DEF PumpReceives, PumpType
  <2>2. CASE pump[s].pushes = 0
    <3> DEFINE p == [pump[s] EXCEPT !.pc = "ended"]
    <3>1. p \in PumpType /\ pump' = [pump EXCEPT ![s] = p]
      BY <1>5, <1>b, <1>c, <2>2 DEF PumpReceives, PumpType
    <3>2. pump[s].pc = "recv" /\ Ended(s) /\ subs' = subs /\ updates' = updates
      BY <1>5, <2>2 DEF PumpReceives
    <3>3. p.cmd = pump[s].cmd /\ p.run = pump[s].run /\ p.stopped = pump[s].stopped /\ p.pc = "ended"
      BY <1>c DEF PumpType
    <3> HIDE DEF p
    <3> QED BY <1>1, <2>2, <3>1, <3>2, <3>3
  <2> QED BY <1>c, <2>1, <2>2 DEF PumpType
<1>6. CASE PumpEnds(s)
  <2> DEFINE p == [pump[s] EXCEPT !.pc = "drop", !.stopped = TRUE]
  <2>1. p \in PumpType /\ pump' = [pump EXCEPT ![s] = p]
    BY <1>6, <1>b, <1>c DEF PumpEnds, StopsItself, PumpType
  <2> QED BY <1>1, <1>6, <1>c, <2>1 DEF PumpEnds, PumpType
<1> QED BY <1>2, <1>3, <1>4, <1>5, <1>6 DEF PumpNext

LEMMA UpdateStep ==
    ASSUME WatchInv, RuntimeUpdate
    PROVE  WatchInv'
<1> USE DEF WatchInv
<1> DEFINE u == Head(updates)
<1>a. UNCHANGED <<life, run, next, changes, signal, events, gen, ticks, loads, rows, shown, subs, pump, watcher, wfaults>>
  BY DEF RuntimeUpdate, world, feed
<1>b. /\ updates \in Seq(UpdateType) /\ updates # <<>> /\ updates' = Tail(updates)
  BY DEF RuntimeUpdate, WatchType
<1>c. /\ Len(updates) \in Nat \ {0} /\ u = updates[1] /\ updates' \in Seq(UpdateType)
      /\ Len(updates') = Len(updates) - 1 /\ \A k \in 1 .. Len(updates') : updates'[k] = updates[k + 1]
  BY <1>b
<1>d. u \in UpdateType /\ u.cmd \in Cmds /\ u.run \in Counts /\ u.run \in Int /\ u.run <= run[u.cmd]
  BY <1>c, UpdateTyped DEF WordsInv, UpdateType
<1> HIDE DEF u
<1>e. words \in [Cmds -> Counts] /\ \A c \in Cmds : words[c] \in Int
  BY WatchAssumption DEF WatchType, Counts
<1>1. excuse \subseteq excuse' /\ (excuse' = excuse \/ excuse' = excuse \cup {"late"})
  BY DEF RuntimeUpdate, u
<1>2. \/ /\ ~u.closed /\ rows[u.cmd] = "up" /\ words' = [words EXCEPT ![u.cmd] = u.run]
         /\ u.run < words[u.cmd] => "late" \in excuse'
      \/ (u.closed \/ rows[u.cmd] # "up") /\ words' = words
  BY DEF RuntimeUpdate, LiveRow, u
<1>3. cache' = words'
  BY DEF RuntimeUpdate, WatchType
<1>4. words' \in [Cmds -> Counts]
  BY <1>2, <1>d, <1>e
<1>5. WatchType'
  <2>1. Len(updates') <= ChanCap
    BY <1>c, WatchAssumption DEF WatchType
  <2> QED BY <1>a, <1>c, <1>3, <1>4, <2>1 DEF WatchType
<1>6. PumpInv' /\ SubsInv'
  BY <1>a DEF PumpInv, PumpOf, Over, Ended, SubsInv, HeldSub, NoSendAfterClose
<1>7. WordsInv'
  <2>1. \A c \in Cmds : words'[c] <= run'[c] /\ (words'[c] # 0 => rows'[c] = "up")
    BY <1>a, <1>2, <1>d, <1>e DEF WordsInv
  <2>2. \A k \in 1 .. Len(updates') : updates'[k].run <= run'[updates'[k].cmd]
    BY <1>a, <1>c DEF WordsInv
  <2>3. ASSUME "late" \notin excuse', NEW c \in Cmds, subs[c] # 0 PROVE SaidOf(c, pump[subs[c]])'
    <3>1. SaidOf(c, pump[subs[c]]) /\ rows[c] = "up"
      BY <1>1, <2>3 DEF WordsInv, SubsInv, HeldSub
    <3>2. PICK r \in Int : r = pump[subs[c]].run
      <4>1. subs[c] \in SubIds
        BY <2>3, WatchAssumption DEF WatchType, SubIds
      <4> QED BY <4>1, WatchAssumption DEF WatchType, PumpType, Counts
    <3>3. words'[c] \in Int /\ words'[c] >= words[c]
      BY <1>2, <1>d, <1>e, <2>3
    <3>4. words[c] >= r => words'[c] >= r
      BY <1>e, <3>2, <3>3
    <3>5. Sent(c, r) => Sent(c, r)' \/ words'[c] >= r
      <4> SUFFICES ASSUME NEW k \in 1 .. Len(updates), updates[k] = [cmd |-> c, closed |-> FALSE, run |-> r]
                   PROVE  Sent(c, r)' \/ words'[c] >= r
        BY DEF Sent
      <4>1. CASE k = 1
        <5>1. u = [cmd |-> c, closed |-> FALSE, run |-> r]
          BY <1>c, <4>1
        <5>2. u.cmd = c /\ ~u.closed /\ u.run = r
          BY <5>1
        <5>3. words'[c] = r
          BY <1>2, <1>e, <3>1, <5>2
        <5> QED BY <3>2, <5>3
      <4>2. CASE k # 1
        <5>1. k - 1 \in 1 .. Len(updates') /\ updates'[k - 1] = [cmd |-> c, closed |-> FALSE, run |-> r]
          BY <1>c, <4>2
        <5> QED BY <5>1 DEF Sent
      <4> QED BY <4>1, <4>2
    <3> QED BY <1>a, <3>1, <3>2, <3>4, <3>5 DEF SaidOf, Sent
  <2> QED BY <1>a, <2>1, <2>2, <2>3 DEF WordsInv
<1>8. CountInv' /\ LoadsInv' /\ FreshInv'
  BY <1>a, <1>1, ListStays DEF Streamed
<1> QED BY <1>5, <1>6, <1>7, <1>8

LEMMA StoppedPumps ==
    ASSUME WatchType, NEW S
    PROVE  /\ Stopped(pump, S) \in [SubIds -> PumpType]
           /\ \A s \in SubIds : /\ Stopped(pump, S)[s].stopped = (pump[s].stopped \/ s \in S)
                                /\ Stopped(pump, S)[s].cmd = pump[s].cmd /\ Stopped(pump, S)[s].run = pump[s].run
                                /\ Stopped(pump, S)[s].pc = pump[s].pc
                                /\ Stopped(pump, S)[s].pushes = pump[s].pushes
BY ZenonT(40) DEF Stopped, WatchType, PumpType

LEMMA CloseStep ==
    ASSUME WatchInv, Quit \/ CloseReturns
    PROVE  WatchInv'
<1> USE DEF WatchInv
<1>a. UNCHANGED <<life, run, next, changes, signal, events, gen, ticks, loads, rows, words, cache, shown, updates, wfaults>>
  BY DEF Quit, CloseReturns, world, feed, screen
<1>1. CASE CloseReturns
  <2>1. UNCHANGED <<subs, pump, excuse>> /\ watcher = "closing" /\ watcher' = "closed" /\ \A s \in SubIds : Over(s)
    BY <1>1 DEF CloseReturns, PumpsOver
  <2>2. WatchType' /\ CountInv'
    BY <1>a, <2>1 DEF WatchType, CountInv
  <2>3. PumpInv' /\ SubsInv' /\ WordsInv'
    BY <1>a, <2>1 DEF PumpInv, Over, SubsInv, HeldSub, NoSendAfterClose, WordsInv, SaidOf, Sent
  <2>4. LoadsInv' /\ FreshInv'
    BY <1>a, <2>1 DEF LoadsInv, LoadOf, Calm, FreshInv, Unheard
  <2> QED BY <2>2, <2>3, <2>4
<1>2. CASE Quit
  <2> DEFINE S == {subs[c] : c \in Cmds}
  <2>1. /\ watcher = "open" /\ watcher' = "closing" /\ pump' = Stopped(pump, S)
        /\ subs' = [c \in Cmds |-> 0] /\ excuse' = excuse \cup {"quit"}
    BY <1>2 DEF Quit, Running
  <2>2. WatchType'
    BY <1>a, <2>1, StoppedPumps, WatchAssumption DEF WatchType
  <2>3. PumpInv'
    <3> SUFFICES ASSUME NEW s \in SubIds, ~Over(s)' PROVE PumpOf(s)'
      BY DEF PumpInv
    <3>1. /\ pump'[s].stopped = (pump[s].stopped \/ s \in S) /\ pump'[s].cmd = pump[s].cmd
          /\ pump'[s].run = pump[s].run /\ pump'[s].pc = pump[s].pc
      BY <2>1, StoppedPumps
    <3>2. PumpOf(s)
      BY <3>1 DEF PumpInv, Over
    <3>3. pump'[s].stopped
      BY <3>1, <3>2 DEF PumpOf
    <3> QED BY <1>a, <3>1, <3>2, <3>3 DEF PumpOf, Ended
  <2>4. SubsInv' /\ WordsInv'
    BY <1>a, <2>1 DEF SubsInv, NoSendAfterClose, WordsInv
  <2>5. CountInv' /\ LoadsInv' /\ FreshInv'
    BY <1>a, <2>1 DEF CountInv, LoadsInv, LoadOf, Calm, FreshInv, Unheard
  <2> QED BY <2>2, <2>3, <2>4, <2>5
<1> QED BY <1>1, <1>2

\* What Reconcile does to the streams: it dials D, drops those not shown live,
\* and leaves the others alone.
NewPump(c) == [cmd |-> c, run |-> run[c], pushes |-> 1, stopped |-> FALSE, pc |-> "recv"]
SamePump(s) ==
    /\ pump'[s].cmd = pump[s].cmd /\ pump'[s].run = pump[s].run /\ pump'[s].pc = pump[s].pc
    /\ pump'[s].pushes = pump[s].pushes
LEMMA ReconcileEffect ==
    ASSUME WatchInv, NEW snap \in [Cmds -> States], NEW failing \in SUBSET Dialled(snap), Reconcile(snap, failing)
    PROVE  LET D == Dialled(snap) \ failing
           IN  /\ subs' \in [Cmds -> 0 .. MaxSubs] /\ pump' \in [SubIds -> PumpType]
               /\ \A c \in D : /\ subs'[c] \in SubIds /\ Over(subs'[c])
                               /\ pump'[subs'[c]] = NewPump(c)
               /\ \A c \in Cmds \ D : subs'[c] = IF c \in Dropped(snap) THEN 0 ELSE subs[c]
               /\ \A s \in SubIds :
                     \/ \E c \in D : subs'[c] = s
                     \/ /\ SamePump(s) /\ pump'[s].stopped = (pump[s].stopped \/ \E c \in Dropped(snap) : subs[c] = s)
<1> USE DEF WatchInv
<1> DEFINE D == Dialled(snap) \ failing
           nr == Numbered(D)
           S == {subs[c] : c \in Dropped(snap)}
           np == Stopped(pump, S)
<1>1. D \subseteq Cmds /\ Dropped(snap) \subseteq Cmds /\ \A c \in D : subs[c] = 0
  BY DEF Dialled, Dropped
<1>2. Cardinality(D) <= Cardinality(FreeSubs)
  BY DEF Reconcile
<1>3. nr \in [D -> FreeSubs] /\ \A c, d \in D : nr[c] = nr[d] => c = d
  BY <1>1, <1>2, NumberedFits
<1>4. \A c \in D : nr[c] \in SubIds /\ Over(nr[c])
  BY <1>3 DEF FreeSubs
<1>5. /\ subs' = [c \in Cmds |-> IF c \in D THEN nr[c] ELSE IF c \in Dropped(snap) THEN 0 ELSE subs[c]]
      /\ pump' = [s \in SubIds |-> IF \E c \in D : nr[c] = s THEN NewPump(CHOOSE c \in D : nr[c] = s) ELSE np[s]]
  BY DEF Reconcile, NewPump
<1> HIDE DEF D, nr
<1>6. \A c \in D : (CHOOSE d \in D : nr[d] = nr[c]) = c
  BY <1>3
<1>7. \A c \in D : subs'[c] = nr[c] /\ pump'[nr[c]] = NewPump(c)
  <2> SUFFICES ASSUME NEW c \in D PROVE subs'[c] = nr[c] /\ pump'[nr[c]] = NewPump(c)
    OBVIOUS
  <2>1. subs'[c] = nr[c]
    BY <1>1, <1>5
  <2>2. pump'[nr[c]] = NewPump(CHOOSE d \in D : nr[d] = nr[c])
    BY <1>4, <1>5
  <2> QED BY <1>6, <2>1, <2>2
<1>8. np \in [SubIds -> PumpType]
  BY StoppedPumps
<1>9. \A c \in D : NewPump(c) \in PumpType
  BY <1>1 DEF NewPump, PumpType, WatchType
<1>10. pump' \in [SubIds -> PumpType]
  <2> SUFFICES ASSUME NEW s \in SubIds PROVE pump'[s] \in PumpType
    BY <1>5
  <2>1. CASE \E c \in D : nr[c] = s
    BY <1>7, <1>9, <2>1
  <2>2. CASE ~\E c \in D : nr[c] = s
    BY <1>5, <1>8, <2>2
  <2> QED BY <2>1, <2>2
<1>11. subs' \in [Cmds -> 0 .. MaxSubs]
  <2>1. \A c \in D : nr[c] \in 0 .. MaxSubs
    BY <1>4, WatchAssumption DEF SubIds
  <2> QED BY <1>5, <2>1, WatchAssumption DEF WatchType
<1>12. \A c \in Cmds \ D : subs'[c] = IF c \in Dropped(snap) THEN 0 ELSE subs[c]
  BY <1>5
<1>13. ASSUME NEW s \in SubIds, ~\E c \in D : subs'[c] = s
       PROVE  SamePump(s) /\ pump'[s].stopped = (pump[s].stopped \/ \E c \in Dropped(snap) : subs[c] = s)
  <2>1. pump'[s] = np[s]
    BY <1>5, <1>7, <1>13
  <2>2. /\ np[s].stopped = (pump[s].stopped \/ s \in S) /\ np[s].cmd = pump[s].cmd /\ np[s].run = pump[s].run
        /\ np[s].pc = pump[s].pc /\ np[s].pushes = pump[s].pushes
    BY StoppedPumps
  <2>3. s \in S <=> \E c \in Dropped(snap) : subs[c] = s
    OBVIOUS
  <2> HIDE DEF np, S
  <2> QED BY <2>1, <2>2, <2>3 DEF SamePump
<1> QED BY <1>4, <1>7, <1>10, <1>11, <1>12, <1>13 DEF D

LEMMA LoadedStep ==
    ASSUME WatchInv, NEW i \in 1 .. MaxLoads, CommandsLoaded(i)
    PROVE  WatchInv'
<1> USE DEF WatchInv
<1>a. UNCHANGED <<life, run, next, changes, signal, events, gen, ticks, updates, watcher>> /\ watcher = "open"
  BY DEF CommandsLoaded, world, feed, Running
<1>l. loads \in [1 .. MaxLoads -> LoadType] /\ loads[i] \in LoadType /\ loads[i].read = "yes"
  BY DEF WatchType, CommandsLoaded
<1>1. PICK l \in LoadType : l = loads[i] /\ l.read = "yes"
  BY <1>l
<1>2. l.snap \in [Cmds -> States] /\ l.at \in 0 .. MaxChanges /\ l.at \in Int
  BY DEF LoadType
<1>3. PICK failing \in SUBSET Dialled(l.snap) :
          /\ IF failing = {} THEN UNCHANGED wfaults ELSE Fault
          /\ Reconcile(l.snap, failing)
          /\ rows' = l.snap
          /\ cache' = SweptCache(l.snap)
          /\ words' = [c \in Cmds |-> IF l.snap[c] = "up" THEN cache[c] ELSE 0]
          /\ shown' = l.at
          /\ excuse' = (excuse \ (IF l.at < changes THEN {"missed"} ELSE
                            {"stale", "missed", "early", "swallowed", "failed"}))
                       \cup (IF l.torn \/ l.at < shown THEN {"stale"} ELSE {})
                       \cup (IF Missed(l.snap, failing) THEN {"missed"} ELSE {})
  BY <1>1, Zenon DEF CommandsLoaded
<1>w. wfaults' \in Nat
  BY <1>3 DEF Fault, WatchType
<1>4. loads' = [loads EXCEPT ![i] = NoLoad] /\ NoLoad \in LoadType /\ NoLoad.read = "no"
  <2>1. [c \in Cmds |-> "gone"] \in [Cmds -> States]
    BY DEF States
  <2>2. 0 \in 0 .. MaxChanges
    BY WatchAssumption
  <2> QED BY <2>1, <2>2 DEF NoLoad, LoadType, CommandsLoaded
<1>5. PICK D \in SUBSET Cmds : D = Dialled(l.snap) \ failing
  BY DEF Dialled
<1>6. /\ subs' \in [Cmds -> 0 .. MaxSubs] /\ pump' \in [SubIds -> PumpType]
      /\ \A c \in D : /\ subs'[c] \in SubIds /\ Over(subs'[c])
                      /\ pump'[subs'[c]] = NewPump(c)
      /\ \A c \in Cmds \ D : subs'[c] = IF c \in Dropped(l.snap) THEN 0 ELSE subs[c]
      /\ \A s \in SubIds :
            \/ \E c \in D : subs'[c] = s
            \/ /\ SamePump(s) /\ pump'[s].stopped = (pump[s].stopped \/ \E c \in Dropped(l.snap) : subs[c] = s)
  BY <1>2, <1>3, <1>5, ReconcileEffect
<1>7. \A c \in D : l.snap[c] = "up" /\ life[c] = "up" /\ subs[c] = 0
  BY <1>5 DEF Dialled
<1>8. \A c \in Cmds : subs[c] # 0 => subs[c] \in SubIds /\ ~Over(subs[c]) /\ HeldSub(c, subs[c])
  BY WatchAssumption DEF WatchType, SubIds, SubsInv, HeldSub, Over
\* A stream that is kept.
<1>9. ASSUME NEW c \in Cmds \ D, subs'[c] # 0
      PROVE  /\ subs'[c] = subs[c] /\ subs[c] # 0 /\ l.snap[c] = "up" /\ subs[c] \in SubIds
             /\ SamePump(subs[c]) /\ pump'[subs[c]].stopped = pump[subs[c]].stopped
  <2>1. c \notin Dropped(l.snap) /\ subs'[c] = subs[c] /\ subs[c] # 0 /\ l.snap[c] = "up"
    BY <1>6, <1>9 DEF Dropped
  <2>2. \A d \in D : subs'[d] # subs[c]
    BY <1>6, <1>8, <2>1
  <2>3. \A d \in Dropped(l.snap) : subs[d] # subs[c]
    <3> SUFFICES ASSUME NEW d \in Dropped(l.snap), subs[d] = subs[c] PROVE FALSE
      OBVIOUS
    <3>1. d \in Cmds /\ d # c /\ subs[d] # 0
      BY <2>1 DEF Dropped
    <3> QED BY <1>8, <2>1, <3>1 DEF HeldSub
  <2>4. SamePump(subs[c]) /\ pump'[subs[c]].stopped = (pump[subs[c]].stopped \/ \E d \in Dropped(l.snap) : subs[d] = subs[c])
    BY <1>6, <1>8, <2>1, <2>2
  <2>5. pump[subs[c]].stopped \in BOOLEAN
    BY <1>8, <2>1 DEF WatchType, PumpType
  <2> QED BY <1>8, <2>1, <2>3, <2>4, <2>5
<1>10. words' \in [Cmds -> Counts] /\ cache' = words'
  BY <1>3, WatchAssumption DEF WatchType, Counts, SweptCache
<1>11. l.at <= changes
  BY <1>1 DEF LoadsInv, LoadOf
<1>12. WatchType'
  <2>1. loads' \in [1 .. MaxLoads -> LoadType]
    BY <1>l, <1>4
  <2>2. shown' \in 0 .. changes
    BY <1>2, <1>3, <1>11 DEF WatchType
  <2> QED BY <1>a, <1>2, <1>3, <1>w, <1>6, <1>10, <2>1, <2>2 DEF WatchType
<1>13. CountInv'
  BY <1>a DEF CountInv
<1>14. PumpInv'
  <2> SUFFICES ASSUME NEW s \in SubIds PROVE Over(s)' \/ PumpOf(s)'
    BY DEF PumpInv
  <2>1. CASE \E c \in D : subs'[c] = s
    <3>1. PICK c \in D : subs'[c] = s
      BY <2>1
    <3>2. pump'[s] = NewPump(c)
      BY <1>6, <3>1
    <3>3. /\ pump'[s].cmd = c /\ pump'[s].run = run[c] /\ pump'[s].pc = "recv"
      BY <3>2 DEF NewPump
    <3>4. run[c] <= run[c]
      BY WatchAssumption DEF WatchType, Counts
    <3> QED BY <1>a, <3>1, <3>3, <3>4 DEF PumpOf
  <2>2. CASE ~\E c \in D : subs'[c] = s
    <3> SUFFICES ASSUME ~Over(s)' PROVE PumpOf(s)'
      OBVIOUS
    <3>1. SamePump(s) /\ pump'[s].stopped = (pump[s].stopped \/ \E c \in Dropped(l.snap) : subs[c] = s)
      BY <1>6, <2>2
    <3>2. PumpOf(s)
      BY <3>1 DEF PumpInv, Over, SamePump
    <3>3. pump[s].cmd \in Cmds /\ subs[pump[s].cmd] = s => pump'[s].stopped \/ subs'[pump[s].cmd] = s
      <4> SUFFICES ASSUME pump[s].cmd \in Cmds, subs[pump[s].cmd] = s
                   PROVE  pump'[s].stopped \/ subs'[pump[s].cmd] = s
        OBVIOUS
      <4>1. s # 0
        BY DEF SubIds
      <4> QED BY <1>6, <1>7, <3>1, <4>1
    <3> QED BY <1>a, <3>1, <3>2, <3>3 DEF PumpOf, SamePump, Ended
  <2> QED BY <2>1, <2>2
<1>15. SubsInv'
  <2>1. ASSUME NEW c \in D PROVE HeldSub(c, subs[c])'
    <3>1. pump'[subs'[c]] = NewPump(c)
      BY <1>6
    <3> QED BY <1>3, <1>7, <3>1 DEF HeldSub, NewPump
  <2>2. ASSUME NEW c \in Cmds \ D, subs'[c] # 0 PROVE HeldSub(c, subs[c])'
    BY <1>3, <1>8, <1>9, <2>2 DEF HeldSub, SamePump
  <2> QED BY <1>a, <2>1, <2>2 DEF SubsInv, NoSendAfterClose
<1>16. WordsInv'
  <2>1. \A c \in Cmds : words'[c] <= run'[c] /\ (words'[c] # 0 => rows'[c] = "up")
    BY <1>a, <1>3, WatchAssumption DEF WordsInv, WatchType, Counts
  <2>2. \A k \in 1 .. Len(updates') : updates'[k].run <= run'[updates'[k].cmd]
    BY <1>a DEF WordsInv
  <2>3. "late" \in excuse <=> "late" \in excuse'
    BY <1>3
  <2>4. ASSUME NEW c \in D PROVE SaidOf(c, pump[subs[c]])'
    <3>1. pump'[subs'[c]] = NewPump(c)
      BY <1>6
    <3> QED BY <3>1 DEF SaidOf, NewPump
  <2>5. ASSUME NEW c \in Cmds \ D, subs'[c] # 0, "late" \notin excuse PROVE SaidOf(c, pump[subs[c]])'
    <3>1. SaidOf(c, pump[subs[c]]) /\ subs'[c] = subs[c]
      BY <1>9, <2>5 DEF WordsInv
    <3>2. words'[c] = words[c]
      BY <1>3, <1>9, <2>5 DEF WatchType
    <3>3. SamePump(subs[c])
      BY <1>9, <2>5
    <3> QED BY <1>a, <3>1, <3>2, <3>3 DEF SaidOf, SamePump, Sent
  <2> QED BY <2>1, <2>2, <2>3, <2>4, <2>5 DEF WordsInv
<1>17. LoadsInv'
  BY <1>a, <1>l, <1>4 DEF LoadsInv, LoadOf, Calm
<1>18. FreshInv'
  <2>1. events' = "off" => "deaf" \in excuse'
    BY <1>a, <1>3 DEF FreshInv
  <2>2. ASSUME excuse' \cap Unheard = {} PROVE Fresh' \/ Coming'
    <3>1. "stale" \notin excuse' /\ ~l.torn /\ ~(l.at < shown)
      BY <1>3, <2>2 DEF Unheard
    <3>2. CASE l.at = changes
      <4>1. Calm /\ l.snap = life
        BY <1>1, <3>1, <3>2 DEF LoadsInv, LoadOf
      <4>2. ASSUME "missed" \notin excuse', NEW c \in Cmds, life[c] = "up" PROVE Streamed(c)'
        <5>1. ~Missed(l.snap, failing)
          BY <1>3, <4>2
        <5>2. CASE c \in D
          <6>1. pump'[subs'[c]] = NewPump(c) /\ subs'[c] # 0
            BY <1>6, <5>2 DEF SubIds
          <6> QED BY <1>a, <6>1 DEF Streamed, NewPump
        <5>3. CASE c \notin D
          <6>1. subs[c] # 0 /\ pump[subs[c]].run = run[c]
            BY <1>5, <4>1, <4>2, <5>1, <5>3 DEF Missed, Dialled
          <6>2. subs'[c] = subs[c]
            BY <1>6, <4>1, <4>2, <5>3 DEF Dropped
          <6>3. pump'[subs'[c]].run = run[c]
            BY <1>9, <5>3, <6>1, <6>2 DEF SamePump
          <6> QED BY <1>a, <6>1, <6>2, <6>3 DEF Streamed
        <5> QED BY <5>2, <5>3
      <4>3. Fresh'
        BY <1>a, <1>3, <3>2, <4>1, <4>2 DEF Fresh, Calm
      <4> QED BY <4>3
    <3>3. CASE l.at # changes
      <4>1. l.at < changes /\ shown # changes
        BY <1>2, <1>11, <3>1, <3>3 DEF WatchType
      <4>2. excuse \cap Unheard = {}
        BY <1>3, <2>2, <4>1 DEF Unheard
      <4>3. Coming
        BY <4>1, <4>2 DEF FreshInv, Fresh
      <4>4. \A j \in 1 .. MaxLoads : (loads[j].read = "asked" \/ (loads[j].read = "yes" /\ loads[j].at = changes)) =>
                loads'[j] = loads[j]
        BY <1>1, <1>4, <1>l, <3>3
      <4> QED BY <1>a, <4>3, <4>4 DEF Coming
    <3> QED BY <3>2, <3>3
  <2> QED BY <1>a, <2>1, <2>2 DEF FreshInv
<1> QED BY <1>12, <1>13, <1>14, <1>15, <1>16, <1>17, <1>18

LEMMA ListStep ==
    ASSUME WatchInv, WatchNext \/ UNCHANGED watchVars
    PROVE  WatchInv'
<1>1. CASE UNCHANGED watchVars
  <2>1. UNCHANGED <<life, run, next, changes, signal, events, gen, ticks, loads, rows, words, cache, shown, subs, pump,
                    updates, watcher, excuse, wfaults>>
    BY <1>1 DEF watchVars
  <2>2. WatchType'
    BY <2>1 DEF WatchInv, WatchType
  <2>3. PumpInv' /\ SubsInv' /\ WordsInv'
    BY <2>1, StreamsStay DEF WatchInv
  <2>4. CountInv' /\ LoadsInv' /\ FreshInv'
    BY <2>1, ListStays DEF Streamed
  <2> QED BY <2>2, <2>3, <2>4 DEF WatchInv
<1>2. CASE WatchNext
  <2>1. ASSUME NEW c \in Cmds, NEW st \in States, Announce(c, st) PROVE WatchInv'
    BY <2>1, AnnounceStep DEF States
  <2> QED BY <1>2, <2>1, SettleStep, FeedStep, PumpStep, UpdateStep, CloseStep, LoadedStep
          DEF WatchNext, LoopNext, Feeding
<1> QED BY <1>1, <1>2

LEMMA ListSafe ==
    ASSUME WatchInv
    PROVE  WatchTypeOK /\ NoSendAfterClose /\ PumpsHeld /\ CacheFollowsList /\ ListSettles
<1> USE DEF WatchInv
<1>1. WatchTypeOK
  BY DEF WatchType, WatchTypeOK, Counts, PumpType
<1>2. NoSendAfterClose /\ PumpsHeld
  BY DEF SubsInv, PumpsHeld, PumpInv, PumpOf
<1>3. CacheFollowsList
  BY DEF CacheFollowsList, WatchType, WordsInv
<1>4. ASSUME Quiet, excuse = {} PROVE Faithful
  <2>1. Fresh
    <3>1. ~Coming
      BY <1>4 DEF Quiet, Coming
    <3> QED BY <1>4, <3>1 DEF FreshInv
  <2>2. ASSUME NEW c \in Cmds, life[c] = "up" PROVE words[c] = run[c]
    <3>1. subs[c] # 0 /\ pump[subs[c]].run = run[c] /\ subs[c] \in SubIds
      BY <1>4, <2>1, <2>2, WatchAssumption DEF Fresh, Streamed, WatchType, SubIds
    <3>2. pump[subs[c]].pc = "recv" /\ pump[subs[c]].pushes = 0
      BY <1>4, <3>1 DEF Quiet, SubsInv, HeldSub, Over
    <3>3. ~Sent(c, run[c])
      BY <1>4 DEF Quiet, Sent
    <3>4. words[c] >= run[c] /\ words[c] <= run[c]
      BY <1>4, <3>1, <3>2, <3>3 DEF WordsInv, SaidOf
    <3> QED BY <3>4, WatchAssumption DEF WatchType, Counts
  <2> QED BY <2>1, <2>2 DEF Faithful, Fresh
<1> QED BY <1>1, <1>2, <1>3, <1>4 DEF ListSettles

\* The inductive invariant of the list and its streams, through announced and
\* settled changes, dropped signals, debounced, failing and overtaken loads,
\* streams that end, are dropped or dialled again, and the quit.
THEOREM ListInvariant == TuiSpec => []WatchInv
<1>1. TuiInit => WatchInv
  BY ListInit DEF TuiInit
<1>2. WatchInv /\ [TuiNext]_tuiVars => WatchInv'
  <2> SUFFICES ASSUME WatchInv, [TuiNext]_tuiVars PROVE WatchInv'
    OBVIOUS
  <2>1. WatchNext \/ UNCHANGED watchVars
    BY DEF TuiNext, tuiVars, ListSteps
  <2> QED BY <2>1, ListStep
<1> QED BY <1>1, <1>2, PTL DEF TuiSpec

\* No pump outlives the program or sends on a closed channel
\* (RuntimeWatcher.Close), the runtime cache follows the list, and once all is
\* quiet the list shows the commands as they are, with the words of their own
\* run, unless one of the named excuses holds: for any number of commands,
\* changes, loads and streams.
THEOREM ListHolds == TuiSpec => []ListSafety
<1>1. WatchInv => ListSafety
  BY ListSafe DEF ListSafety
<1> QED BY <1>1, ListInvariant, PTL

-----------------------------------------------------------------------------
(* The preview: its inductive invariant, part by part, of a preview p and  *)
(* the streams s it has asked for, with g generations given out.           *)

PaneType == [cmd : PCmds \cup {"none"}, status : {"empty", "loading", "ok", "error", "nostore"},
             terminal : BOOLEAN, log : Ids \cup {0}, raw : Ids \cup {0}, streaming : BOOLEAN, gen : Nat]
StreamType == [cmd : PCmds \cup {"none"}, raw : BOOLEAN, st : {"unused", "opening", "msg", "failed", "open"},
               closed : BOOLEAN, left : Nat, reads : Nat, lines : Nat, drain : BOOLEAN, tick : BOOLEAN,
               gen : Nat]

\* Only an open stream is read, and only a stream that was asked for is anybody's.
Asking(r) ==
    /\ r.st = "unused" <=> r.cmd = "none"
    /\ r.reads + r.lines > 0 \/ r.tick => r.st = "open"
    /\ r.tick => r.gen # 0
PaneInv(p, s) ==
    /\ p \in PaneType /\ s \in [Ids -> StreamType]
    /\ \A i \in Ids : Asking(s[i])
    /\ p.log # 0 => s[p.log].st = "open"

\* The conjuncts of PreviewSafety, of p and s.
Kept(p, s) == \A i \in Ids : s[i].st = "open" => s[i].closed \/ i \in {p.log, p.raw}
Answered(p, s) ==
    p.status = "loading" =>
        p.log # 0 \/ \E i \in Ids : s[i].cmd = p.cmd /\ s[i].st \in {"opening", "msg", "failed"}

\* A generation is one stream's.
GensInv(s, g) ==
    /\ g \in Nat /\ \A i \in Ids : s[i].gen <= g
    /\ \A i, j \in Ids : s[i].gen # 0 /\ s[i].gen = s[j].gen => i = j

\* A preview that did not come back too early reads one stream, once an open of
\* its own has been answered.
Busy(p, r) == r.cmd = p.cmd /\ r.reads + r.lines > 0
Pending(p, r) == r.cmd = p.cmd /\ r.st \in {"opening", "msg"}
SingleInv(p, s) ==
    /\ \A i \in Ids : Busy(p, s[i]) => i = p.log /\ s[i].reads + s[i].lines = 1
    /\ \A i, j \in Ids : Pending(p, s[i]) => ~Busy(p, s[j]) /\ (Pending(p, s[j]) => i = j)

StreamInv(p, s, g, b) ==
    PaneInv(p, s) /\ Kept(p, s) /\ Answered(p, s) /\ GensInv(s, g) /\ (~b => SingleInv(p, s))
PreviewInv ==
    /\ kind \in [PCmds -> {"raw", "log", "none", "gone"}]
    /\ sel \in PCmds \cup {"header"} /\ tab \in {"commands", "compose"}
    /\ disabled \in BOOLEAN /\ bounced \in BOOLEAN /\ crashed \in BOOLEAN
    /\ StreamInv(preview, stream, lastGen, bounced)
    /\ DisabledForGood /\ CrashAfterReturn

-----------------------------------------------------------------------------
(* The preview: its steps.                                                 *)

LEMMA EmptyPane == Empty \in PaneType /\ Empty.cmd = "none" /\ Empty.status = "empty" /\ Empty.log = 0
                   /\ Empty.raw = 0 /\ ~Empty.terminal
BY DEF Empty, PaneType

LEMMA IdsTyped == Ids \subseteq Nat \ {0}
BY PreviewAssumption DEF Ids

LEMMA NextFree ==
    ASSUME Free # {}
    PROVE  NextId \in Ids /\ stream[NextId].st = "unused"
<1>1. Free \subseteq Nat
  BY IdsTyped DEF Free
<1>2. \E i \in Free : \A j \in Free : i <= j
  BY <1>1, LeastNumber
<1>3. NextId \in Free
  BY <1>2 DEF NextId
<1> QED BY <1>3 DEF Free

\* stopPreview closes what the preview holds and changes nothing else.
SameBut(r, f) ==
    /\ f \in StreamType /\ f.cmd = r.cmd /\ f.raw = r.raw /\ f.st = r.st /\ f.reads = r.reads /\ f.lines = r.lines
    /\ f.gen = r.gen /\ f.left = r.left /\ (f.tick => r.tick) /\ (r.closed => f.closed)
LEMMA StopCloses ==
    ASSUME NEW p \in PaneType, NEW s \in [Ids -> StreamType]
    PROVE  /\ StopPreview(p, s) \in [Ids -> StreamType]
           /\ \A i \in Ids : SameBut(s[i], StopPreview(p, s)[i])
           /\ \A i \in Ids : i \in {p.log, p.raw} => StopPreview(p, s)[i].closed
<1>1. \A i \in Ids : i # 0
  BY IdsTyped
<1>2. ASSUME NEW i \in Ids
      PROVE  /\ StopPreview(p, s)[i] \in StreamType /\ SameBut(s[i], StopPreview(p, s)[i])
             /\ i \in {p.log, p.raw} => StopPreview(p, s)[i].closed
  <2>1. s[i] \in StreamType
    OBVIOUS
  <2>2. CASE i \in {p.log, p.raw}
    <3>1. StopPreview(p, s)[i] = [s[i] EXCEPT !.closed = TRUE]
      BY <1>1, <2>2 DEF StopPreview
    <3> QED BY <2>1, <3>1 DEF SameBut, StreamType
  <2>3. CASE i \notin {p.log, p.raw}
    <3>1. StopPreview(p, s)[i] = s[i]
      BY <1>1, <2>3 DEF StopPreview
    <3> QED BY <2>1, <2>3, <3>1 DEF SameBut, StreamType
  <2> QED BY <2>2, <2>3
<1>3. StopPreview(p, s) = [i \in Ids |-> StopPreview(p, s)[i]]
  BY DEF StopPreview
<1> QED BY <1>2, <1>3

\* What is left of the invariant when a preview that holds nothing takes over.
LEMMA TakesOver ==
    ASSUME NEW p \in PaneType, NEW s \in [Ids -> StreamType], NEW f \in PaneType, NEW z \in [Ids -> StreamType],
           NEW g \in Nat, PaneInv(p, s), Kept(p, s), GensInv(s, g),
           \A i \in Ids : SameBut(s[i], z[i]),
           \A i \in Ids : i \in {p.log, p.raw} => z[i].closed,
           f.log = 0, f.raw = 0
    PROVE  PaneInv(f, z) /\ Kept(f, z) /\ GensInv(z, g)
<1>1. PaneInv(f, z)
  BY DEF PaneInv, Asking, SameBut
<1>2. Kept(f, z)
  BY DEF Kept, SameBut
<1>3. GensInv(z, g)
  BY DEF GensInv, SameBut
<1> QED BY <1>1, <1>2, <1>3

LEMMA ReconciledKeeps ==
    ASSUME NEW p, NEW s, NEW c \in PCmds \cup {"header"}, NEW k, NEW t, NEW off \in BOOLEAN, NEW g \in Nat,
           bounced \in BOOLEAN,
           StreamInv(p, s, g, bounced), \A i \in Ids : SameBut(stream[i], s[i]),
           Reconciled(p, c, k, t, off, s)
    PROVE  /\ StreamInv(preview', stream', g, bounced')
           /\ bounced' \in BOOLEAN /\ (bounced => bounced')
           /\ off /\ ~p.terminal => ~preview'.terminal
<1> DEFINE z == StopPreview(p, s)
<1>a. p \in PaneType /\ s \in [Ids -> StreamType] /\ PaneInv(p, s) /\ Kept(p, s) /\ GensInv(s, g)
  BY DEF StreamInv, PaneInv
<1>b. /\ z \in [Ids -> StreamType] /\ \A i \in Ids : SameBut(s[i], z[i])
      /\ \A i \in Ids : i \in {p.log, p.raw} => z[i].closed
  BY <1>a, StopCloses
<1> HIDE DEF z
<1>1. CASE t # "commands" \/ (c # "header" /\ p.cmd = c)
  BY <1>1 DEF Reconciled
<1>2. CASE ~(t # "commands" \/ (c # "header" /\ p.cmd = c)) /\ c = "header"
  <2>1. preview' = Empty /\ stream' = z /\ bounced' = bounced
    BY <1>2 DEF Reconciled, z
  <2>2. PaneInv(Empty, z) /\ Kept(Empty, z) /\ GensInv(z, g)
    BY <1>a, <1>b, EmptyPane, TakesOver
  <2>3. Answered(Empty, z) /\ SingleInv(Empty, z)
    <3>1. \A i \in Ids : z[i].cmd = "none" => z[i].st = "unused" /\ ~(z[i].reads + z[i].lines > 0)
      BY <2>2 DEF PaneInv, Asking
    <3> QED BY <3>1, EmptyPane DEF Answered, SingleInv, Busy, Pending
  <2> QED BY <2>1, <2>2, <2>3, EmptyPane DEF StreamInv
<1>3. CASE ~(t # "commands" \/ (c # "header" /\ p.cmd = c)) /\ c # "header"
  <2> DEFINE term == TerminalView(c, k, off)
             f == [Empty EXCEPT !.cmd = c, !.status = "nostore"]
             o == [Empty EXCEPT !.cmd = c, !.status = "loading", !.terminal = term]
             n == [Unused EXCEPT !.cmd = c, !.raw = term, !.st = "opening", !.left = MaxLines]
  <2>1. /\ bounced' = (bounced \/ Unfinished(c))
        /\ IF ~term /\ k[c] = "none"
           THEN preview' = f /\ stream' = z
           ELSE Free # {} /\ preview' = o /\ stream' = [z EXCEPT ![NextId] = n]
    BY <1>3 DEF Reconciled, z
  <2>2. term \in BOOLEAN /\ (off => ~term) /\ c \in PCmds
    BY <1>3 DEF TerminalView
  <2>3. /\ f \in PaneType /\ f.cmd = c /\ f.status = "nostore" /\ f.log = 0 /\ f.raw = 0 /\ ~f.terminal
        /\ o \in PaneType /\ o.cmd = c /\ o.status = "loading" /\ o.log = 0 /\ o.raw = 0 /\ o.terminal = term
    BY <2>2 DEF Empty, PaneType
  <2>4. /\ n \in StreamType /\ n.cmd = c /\ n.st = "opening" /\ n.reads = 0 /\ n.lines = 0 /\ n.gen = 0 /\ ~n.tick
    BY <2>2, PreviewAssumption DEF Unused, StreamType
  <2>5. bounced' \in BOOLEAN
    BY <2>1 DEF Unfinished
  <2>6. ~bounced' => \A i \in Ids : z[i].cmd = c => z[i].st \notin {"opening", "msg"} /\ ~(z[i].reads + z[i].lines > 0)
    <3> SUFFICES ASSUME ~bounced', NEW i \in Ids, z[i].cmd = c
                 PROVE  z[i].st \notin {"opening", "msg"} /\ ~(z[i].reads + z[i].lines > 0)
      OBVIOUS
    <3>1. z[i].cmd = stream[i].cmd /\ z[i].st = stream[i].st /\ z[i].reads = stream[i].reads /\ z[i].lines = stream[i].lines
      BY <1>b DEF SameBut
    <3>2. ~Unfinished(c)
      BY <2>1
    <3> QED BY <3>1, <3>2 DEF Unfinished
  <2> HIDE DEF f, o, n, term
  <2>7. CASE ~term /\ k[c] = "none"
    <3>1. PaneInv(f, z) /\ Kept(f, z) /\ GensInv(z, g)
      BY <1>a, <1>b, <2>3, TakesOver
    <3>2. Answered(f, z) /\ (~bounced' => SingleInv(f, z))
      BY <2>3, <2>6 DEF Answered, SingleInv, Busy, Pending
    <3> QED BY <2>1, <2>3, <2>5, <2>7, <3>1, <3>2 DEF StreamInv
  <2>8. CASE ~(~term /\ k[c] = "none")
    <3>1. NextId \in Ids /\ stream[NextId].st = "unused"
      BY <2>1, <2>8, NextFree
    <3>2. z[NextId].st = "unused"
      BY <1>b, <3>1 DEF SameBut
    <3>3. PICK y \in [Ids -> StreamType] :
              y = [z EXCEPT ![NextId] = n] /\ y[NextId] = n /\ \A i \in Ids \ {NextId} : y[i] = z[i]
      <4>1. [z EXCEPT ![NextId] = n] \in [Ids -> StreamType]
        BY <1>b, <2>4
      <4> QED BY <1>b, <3>1, <4>1
    <3>4. PaneInv(o, z) /\ Kept(o, z) /\ GensInv(z, g)
      BY <1>a, <1>b, <2>3, TakesOver
    <3>5. PaneInv(o, y)
      BY <1>3, <2>2, <2>3, <2>4, <3>3, <3>4, PreviewAssumption DEF PaneInv, Asking
    <3>6. Kept(o, y)
      BY <2>4, <3>3, <3>4 DEF Kept
    <3>7. GensInv(y, g)
      BY <2>4, <3>3, <3>4 DEF GensInv
    <3>8. Answered(o, y)
      BY <2>3, <2>4, <3>1, <3>3 DEF Answered
    <3>9. ~bounced' => SingleInv(o, y)
      BY <2>3, <2>4, <2>6, <3>3 DEF SingleInv, Busy, Pending
    <3> QED BY <2>1, <2>2, <2>3, <2>5, <2>8, <3>3, <3>5, <3>6, <3>7, <3>8, <3>9 DEF StreamInv
  <2> QED BY <2>7, <2>8
<1> QED BY <1>1, <1>2, <1>3

LEMMA SameSame == \A r \in StreamType : SameBut(r, r)
BY DEF SameBut, StreamType

LEMMA PaneInit == PreviewInit => PreviewInv
<1> SUFFICES ASSUME PreviewInit PROVE PreviewInv
  OBVIOUS
<1>1. /\ preview = Empty /\ lastGen = 0 /\ ~bounced /\ ~crashed /\ ~disabled /\ stream = [i \in Ids |-> Unused]
      /\ bounced \in BOOLEAN /\ crashed \in BOOLEAN /\ disabled \in BOOLEAN
  BY DEF PreviewInit
<1>2. Unused \in StreamType /\ Unused.st = "unused" /\ Unused.cmd = "none" /\ Unused.reads = 0 /\ Unused.lines = 0
      /\ ~Unused.tick /\ Unused.gen = 0
  BY DEF Unused, StreamType
<1>3. PaneInv(preview, stream)
  BY <1>1, <1>2, EmptyPane DEF PaneInv, Asking
<1>4. Kept(preview, stream) /\ Answered(preview, stream) /\ GensInv(stream, lastGen) /\ SingleInv(preview, stream)
  BY <1>1, <1>2, EmptyPane DEF Kept, Answered, GensInv, SingleInv, Busy, Pending
<1> QED BY <1>1, <1>3, <1>4 DEF PreviewInit, PreviewInv, StreamInv, DisabledForGood, CrashAfterReturn

\* Keys and list loads.
LEMMA MoveKeeps ==
    ASSUME PreviewInv, NEW c \in PCmds \cup {"header"}, NEW k, NEW t,
           Reconciled(preview, c, k, t, disabled, stream), sel' \in PCmds \cup {"header"},
           tab' \in {"commands", "compose"}, kind' \in [PCmds -> {"raw", "log", "none", "gone"}],
           UNCHANGED <<disabled, lastGen, crashed>>
    PROVE  PreviewInv'
<1> USE DEF PreviewInv
<1>1. \A i \in Ids : SameBut(stream[i], stream[i])
  BY SameSame DEF StreamInv, PaneInv
<1>2. lastGen \in Nat
  BY DEF StreamInv, GensInv
<1>3. /\ StreamInv(preview', stream', lastGen, bounced')
      /\ bounced' \in BOOLEAN /\ (bounced => bounced')
      /\ disabled /\ ~preview.terminal => ~preview'.terminal
  BY <1>1, <1>2, ReconciledKeeps
<1> QED BY <1>3 DEF DisabledForGood, CrashAfterReturn

LEMMA MovesKeep ==
    ASSUME PreviewInv, \/ \E c \in PCmds \cup {"header"} : Select(c)
                       \/ SwitchTab
                       \/ \E c \in PCmds, k \in {"raw", "log", "gone"} : ListLoaded(c, k)
    PROVE  PreviewInv'
<1>a. sel \in PCmds \cup {"header"} /\ tab \in {"commands", "compose"}
      /\ kind \in [PCmds -> {"raw", "log", "none", "gone"}]
  BY DEF PreviewInv
<1>1. ASSUME NEW c \in PCmds \cup {"header"}, Select(c) PROVE PreviewInv'
  <2>1. /\ Reconciled(preview, c, kind, tab, disabled, stream) /\ sel' = c /\ tab' = tab /\ kind' = kind
        /\ UNCHANGED <<disabled, lastGen, crashed>>
    BY <1>1 DEF Select
  <2> QED BY <1>a, <2>1, MoveKeeps
<1>2. CASE SwitchTab
  <2>1. /\ Reconciled(preview, sel, kind, tab', disabled, stream) /\ sel' = sel /\ kind' = kind
        /\ tab' \in {"commands", "compose"} /\ UNCHANGED <<disabled, lastGen, crashed>>
    BY <1>2 DEF SwitchTab
  <2> QED BY <1>a, <2>1, MoveKeeps
<1>3. ASSUME NEW c \in PCmds, NEW k \in {"raw", "log", "gone"}, ListLoaded(c, k) PROVE PreviewInv'
  <2>1. /\ Reconciled(preview, sel', [kind EXCEPT ![c] = k], tab, disabled, stream) /\ tab' = tab
        /\ kind' = [kind EXCEPT ![c] = k] /\ UNCHANGED <<disabled, lastGen, crashed>>
    BY <1>3 DEF ListLoaded
  <2>2. sel' \in PCmds \cup {"header"}
    <3>1. sel' \in IF sel \in Listed([kind EXCEPT ![c] = k]) THEN {sel} ELSE Listed([kind EXCEPT ![c] = k])
      BY <1>3 DEF ListLoaded
    <3> QED BY <1>a, <3>1 DEF Listed
  <2>3. kind' \in [PCmds -> {"raw", "log", "none", "gone"}]
    BY <1>a, <2>1
  <2> QED BY <1>a, <2>1, <2>2, <2>3, MoveKeeps
<1> QED BY <1>1, <1>2, <1>3

LEMMA PaneHolds ==
    ASSUME PreviewInv
    PROVE  /\ preview \in PaneType /\ stream \in [Ids -> StreamType] /\ lastGen \in Nat
           /\ PaneInv(preview, stream) /\ Kept(preview, stream) /\ Answered(preview, stream)
           /\ GensInv(stream, lastGen) /\ (~bounced => SingleInv(preview, stream))
BY DEF PreviewInv, StreamInv, PaneInv, GensInv

\* What a step on one stream has to see to.
LEMMA OneStream ==
    ASSUME PreviewInv, NEW i \in Ids, NEW r \in StreamType, NEW z, z = [stream EXCEPT ![i] = r],
           r.cmd = stream[i].cmd, r.gen = stream[i].gen, r.tick => stream[i].tick, Asking(r),
           r.reads + r.lines <= stream[i].reads + stream[i].lines,
           stream[i].st = "open" => r.st = "open" /\ r.closed = stream[i].closed,
           r.st = "open" => stream[i].st = "open" \/ r.closed,
           r.st \in {"opening", "msg"} => stream[i].st \in {"opening", "msg"},
           preview.cmd = r.cmd /\ stream[i].st # "open" => r.st # "open"
    PROVE  StreamInv(preview, z, lastGen, bounced)
<1>a. /\ z \in [Ids -> StreamType] /\ z[i] = r /\ \A j \in Ids \ {i} : z[j] = stream[j]
  BY PaneHolds
<1>b. stream[i] \in StreamType
  BY PaneHolds
<1>1. PaneInv(preview, z)
  BY <1>a, PaneHolds DEF PaneInv
<1>2. Kept(preview, z)
  BY <1>a, PaneHolds DEF Kept
<1>3. Answered(preview, z)
  BY <1>a, <1>b, PaneHolds DEF Answered, StreamType, PaneInv, Asking
<1>4. GensInv(z, lastGen)
  BY <1>a, PaneHolds DEF GensInv
<1>5. ~bounced => SingleInv(preview, z)
  <2> SUFFICES ASSUME ~bounced PROVE SingleInv(preview, z)
    OBVIOUS
  <2>1. SingleInv(preview, stream)
    BY PaneHolds
  <2>2. \A j \in Ids : /\ Busy(preview, z[j]) => Busy(preview, stream[j])
                       /\ Pending(preview, z[j]) => Pending(preview, stream[j])
    BY <1>a, <1>b DEF Busy, Pending, StreamType
  <2>3. Busy(preview, z[i]) => i = preview.log /\ z[i].reads + z[i].lines = 1
    BY <1>a, <1>b, <2>1, <2>2 DEF SingleInv, Busy, StreamType
  <2> QED BY <1>a, <2>1, <2>2, <2>3 DEF SingleInv
<1> QED BY <1>1, <1>2, <1>3, <1>4, <1>5 DEF StreamInv

LEMMA StreamKeeps ==
    ASSUME PreviewInv, NEW i \in Ids, NEW r \in StreamType, stream' = [stream EXCEPT ![i] = r],
           UNCHANGED <<kind, sel, tab, disabled, lastGen, bounced, crashed, preview>>,
           r.cmd = stream[i].cmd, r.gen = stream[i].gen, r.tick => stream[i].tick, Asking(r),
           r.reads + r.lines <= stream[i].reads + stream[i].lines,
           stream[i].st = "open" => r.st = "open" /\ r.closed = stream[i].closed,
           r.st = "open" => stream[i].st = "open" \/ r.closed,
           r.st \in {"opening", "msg"} => stream[i].st \in {"opening", "msg"},
           preview.cmd = r.cmd /\ stream[i].st # "open" => r.st # "open"
    PROVE  PreviewInv'
<1>1. StreamInv(preview, stream', lastGen, bounced)
  BY OneStream
<1> QED BY <1>1 DEF PreviewInv, DisabledForGood, CrashAfterReturn

\* The preview says something else of what it shows.
LEMMA PaneSays ==
    ASSUME NEW p, NEW s, NEW g, NEW b, StreamInv(p, s, g, b), NEW f \in PaneType,
           f.cmd = p.cmd, f.log = p.log, f.raw = p.raw, f.status = "loading" => p.status = "loading"
    PROVE  StreamInv(f, s, g, b)
<1>1. PaneInv(f, s) /\ Kept(f, s) /\ Answered(f, s)
  BY DEF StreamInv, PaneInv, Kept, Answered
<1>2. SingleInv(p, s) => SingleInv(f, s)
  BY DEF SingleInv, Busy, Pending
<1> QED BY <1>1, <1>2 DEF StreamInv

\* An open that returns, a line or the end of a stream that is read, and the
\* messages for a command that is not shown any more.
LEMMA OpenReturnsKeeps ==
    ASSUME PreviewInv, NEW i \in Ids, NEW st \in {"msg", "failed"}, OpenReturns(i, st)
    PROVE  PreviewInv'
<1>1. stream[i] \in StreamType /\ Asking(stream[i]) /\ stream[i].st = "opening"
  BY PaneHolds DEF PaneInv, OpenReturns
<1> DEFINE r == [stream[i] EXCEPT !.st = st]
<1>2. /\ r \in StreamType /\ r.st = st /\ r.cmd = stream[i].cmd /\ r.gen = stream[i].gen /\ r.tick = stream[i].tick
      /\ r.reads = stream[i].reads /\ r.lines = stream[i].lines /\ r.closed = stream[i].closed
  BY <1>1 DEF StreamType
<1>3. stream' = [stream EXCEPT ![i] = r]
  BY DEF OpenReturns
<1>4. UNCHANGED <<kind, sel, tab, disabled, lastGen, bounced, crashed, preview>>
  BY DEF OpenReturns
<1> HIDE DEF r
<1>5. Asking(r) /\ r.reads + r.lines <= stream[i].reads + stream[i].lines
  BY <1>1, <1>2 DEF Asking, StreamType
<1> QED BY <1>1, <1>2, <1>3, <1>4, <1>5, StreamKeeps

LEMMA ReadsKeep ==
    ASSUME PreviewInv, NEW i \in Ids, LineRead(i) \/ ReadEnds(i)
    PROVE  PreviewInv'
<1>1. stream[i] \in StreamType /\ Asking(stream[i]) /\ stream[i].reads \in Nat /\ stream[i].lines \in Nat
      /\ stream[i].left \in Nat
  BY PaneHolds DEF PaneInv, StreamType
<1>2. stream[i].reads > 0 /\ stream[i].st = "open"
  BY <1>1 DEF Asking, LineRead, ReadEnds
<1>3. UNCHANGED <<kind, sel, tab, disabled, lastGen, bounced, crashed, preview>>
  BY DEF LineRead, ReadEnds, Rest
<1>4. PICK r \in StreamType :
         /\ stream' = [stream EXCEPT ![i] = r] /\ r.reads + r.lines <= stream[i].reads + stream[i].lines
         /\ r.st = stream[i].st /\ r.cmd = stream[i].cmd /\ r.gen = stream[i].gen /\ r.tick = stream[i].tick
         /\ r.closed = stream[i].closed
  <2>1. CASE LineRead(i)
    <3> DEFINE r == [stream[i] EXCEPT !.reads = @ - 1, !.lines = @ + 1, !.left = @ - 1]
    <3>1. stream[i].left > 0
      BY <2>1 DEF LineRead
    <3>2. stream[i].reads - 1 \in Nat /\ stream[i].lines + 1 \in Nat /\ stream[i].left - 1 \in Nat
      BY <1>1, <1>2, <3>1
    <3>3. r \in StreamType
      BY <1>1, <3>2 DEF StreamType
    <3>4. /\ r.reads = stream[i].reads - 1 /\ r.lines = stream[i].lines + 1
          /\ r.st = stream[i].st /\ r.cmd = stream[i].cmd /\ r.gen = stream[i].gen /\ r.tick = stream[i].tick
          /\ r.closed = stream[i].closed
      BY <1>1 DEF StreamType
    <3>5. stream' = [stream EXCEPT ![i] = r]
      BY <2>1, PaneHolds DEF LineRead
    <3> HIDE DEF r
    <3>6. r.reads + r.lines <= stream[i].reads + stream[i].lines
      BY <1>1, <3>4
    <3> WITNESS r \in StreamType
    <3> QED BY <3>4, <3>5, <3>6
  <2>2. CASE ReadEnds(i)
    <3> DEFINE r == [stream[i] EXCEPT !.reads = @ - 1]
    <3>1. /\ r \in StreamType /\ r.reads = stream[i].reads - 1 /\ r.lines = stream[i].lines
          /\ r.st = stream[i].st /\ r.cmd = stream[i].cmd /\ r.gen = stream[i].gen /\ r.tick = stream[i].tick
          /\ r.closed = stream[i].closed
      BY <1>1, <1>2 DEF StreamType
    <3>2. stream' = [stream EXCEPT ![i] = r]
      BY <2>2, PaneHolds DEF ReadEnds
    <3> HIDE DEF r
    <3>3. r \in StreamType
      BY <3>1
    <3>4. r.reads + r.lines <= stream[i].reads + stream[i].lines
      BY <1>1, <3>1
    <3> WITNESS r \in StreamType
    <3> QED BY <3>1, <3>2, <3>4
  <2> QED BY <2>1, <2>2
<1>5. Asking(r)
  BY <1>1, <1>2, <1>4 DEF Asking
<1> QED BY <1>1, <1>2, <1>3, <1>4, <1>5, StreamKeeps

LEMMA DiscardKeeps ==
    ASSUME PreviewInv, NEW i \in Ids, stream' = Discarded(i), stream[i].st \in {"msg", "failed"},
           stream[i].cmd # preview.cmd,
           UNCHANGED <<kind, sel, tab, disabled, lastGen, bounced, crashed, preview>>
    PROVE  PreviewInv'
<1>1. stream[i] \in StreamType /\ Asking(stream[i]) /\ stream[i].reads \in Nat /\ stream[i].lines \in Nat
  BY PaneHolds DEF PaneInv, StreamType
<1> DEFINE r == [stream[i] EXCEPT !.st = "open", !.closed = TRUE]
<1>2. /\ r \in StreamType /\ r.st = "open" /\ r.cmd = stream[i].cmd /\ r.gen = stream[i].gen /\ r.tick = stream[i].tick
      /\ r.reads = stream[i].reads /\ r.lines = stream[i].lines /\ r.closed
  BY <1>1 DEF StreamType
<1>3. stream' = [stream EXCEPT ![i] = r]
  BY PaneHolds DEF Discarded
<1> HIDE DEF r
<1>4. Asking(r) /\ r.reads + r.lines <= stream[i].reads + stream[i].lines
  BY <1>1, <1>2 DEF Asking
<1> QED BY <1>1, <1>2, <1>3, <1>4, StreamKeeps

\* A tick or the end of a drain: the stream is told apart by that alone.
LEMMA QuietKeeps ==
    ASSUME PreviewInv, NEW i \in Ids, NEW r \in StreamType, SameBut(stream[i], r), r.closed = stream[i].closed,
           stream' = [stream EXCEPT ![i] = r],
           UNCHANGED <<kind, sel, tab, disabled, lastGen, bounced, crashed, preview>>
    PROVE  PreviewInv'
<1>1. stream[i] \in StreamType /\ Asking(stream[i])
  BY PaneHolds DEF PaneInv
<1>2. Asking(r) /\ r.reads + r.lines <= stream[i].reads + stream[i].lines
  BY <1>1 DEF Asking, SameBut, StreamType
<1>3. /\ r.cmd = stream[i].cmd /\ r.gen = stream[i].gen /\ (r.tick => stream[i].tick) /\ r.st = stream[i].st
  BY DEF SameBut
<1> QED BY <1>1, <1>2, <1>3, StreamKeeps

\* The answers to the opens of the command that is shown.
LEMMA OpenFailedKeeps ==
    ASSUME PreviewInv, NEW i \in Ids, stream' = Discarded(i), preview' = OpenFailed, stream[i].st = "failed",
           UNCHANGED <<kind, sel, tab, disabled, lastGen, bounced, crashed>>
    PROVE  PreviewInv'
<1>1. /\ stream \in [Ids -> StreamType] /\ stream[i] \in StreamType /\ preview \in PaneType
      /\ PaneInv(preview, stream) /\ Kept(preview, stream) /\ GensInv(stream, lastGen)
  BY PaneHolds
<1> DEFINE r == [stream[i] EXCEPT !.st = "open", !.closed = TRUE]
<1>2. /\ r \in StreamType /\ r.st = "open" /\ r.cmd = stream[i].cmd /\ r.gen = stream[i].gen /\ r.tick = stream[i].tick
      /\ r.reads = stream[i].reads /\ r.lines = stream[i].lines /\ r.closed
  BY <1>1 DEF StreamType
<1>3. stream' = [stream EXCEPT ![i] = r]
  BY <1>1 DEF Discarded
<1> HIDE DEF r
<1>4. stream' \in [Ids -> StreamType] /\ stream'[i] = r /\ \A j \in Ids \ {i} : stream'[j] = stream[j]
  BY <1>1, <1>2, <1>3
<1>5. /\ preview' \in PaneType /\ preview'.status = "error" /\ preview'.log = preview.log /\ preview'.raw = preview.raw
      /\ preview'.cmd = preview.cmd /\ preview'.terminal = preview.terminal
  BY <1>1 DEF OpenFailed, PaneType
<1>6. PaneInv(preview', stream')
  <2>1. \A j \in Ids : Asking(stream[j])
    BY <1>1 DEF PaneInv
  <2>2. Asking(r)
    BY <1>1, <1>2, <2>1 DEF Asking
  <2>3. preview.log # 0 => stream[preview.log].st = "open" /\ preview.log \in Ids
    BY <1>1 DEF PaneInv, PaneType
  <2>4. preview'.log # 0 => stream'[preview'.log].st = "open"
    BY <1>2, <1>4, <1>5, <2>3
  <2>5. \A j \in Ids : Asking(stream'[j])
    BY <1>4, <2>1, <2>2
  <2> QED BY <1>4, <1>5, <2>4, <2>5 DEF PaneInv
<1>7. Kept(preview', stream') /\ Answered(preview', stream')
  BY <1>1, <1>2, <1>4, <1>5 DEF Kept, Answered
<1>8. GensInv(stream', lastGen)
  BY <1>1, <1>2, <1>4 DEF GensInv
<1>9. ~bounced => SingleInv(preview', stream')
  <2> SUFFICES ASSUME ~bounced PROVE SingleInv(preview', stream')
    OBVIOUS
  <2>1. SingleInv(preview, stream)
    BY PaneHolds
  <2>2. \A j \in Ids : /\ Busy(preview', stream'[j]) <=> Busy(preview, stream[j])
                       /\ Pending(preview', stream'[j]) => Pending(preview, stream[j])
                       /\ stream'[j].reads = stream[j].reads /\ stream'[j].lines = stream[j].lines
    BY <1>2, <1>4, <1>5 DEF Busy, Pending
  <2> QED BY <1>5, <2>1, <2>2 DEF SingleInv
<1> QED BY <1>5, <1>6, <1>7, <1>8, <1>9 DEF PreviewInv, StreamInv, DisabledForGood, CrashAfterReturn

LEMMA PreviewOpenedKeeps ==
    ASSUME PreviewInv, NEW i \in Ids, PreviewOpened(i)
    PROVE  PreviewInv'
<1>a. UNCHANGED <<kind, sel, tab, disabled, lastGen, bounced, crashed>> /\ stream[i].st \in {"msg", "failed"}
  BY DEF PreviewOpened, Rest
<1>1. CASE stream[i].cmd # preview.cmd
  BY <1>1, <1>a, DiscardKeeps DEF PreviewOpened
<1>2. CASE stream[i].cmd = preview.cmd /\ stream[i].st = "failed"
  BY <1>2, <1>a, OpenFailedKeeps DEF PreviewOpened
<1>3. CASE stream[i].cmd = preview.cmd /\ stream[i].st # "failed"
  <2>1. /\ stream \in [Ids -> StreamType] /\ stream[i] \in StreamType /\ preview \in PaneType /\ Asking(stream[i])
        /\ PaneInv(preview, stream) /\ Kept(preview, stream) /\ GensInv(stream, lastGen)
    BY PaneHolds DEF PaneInv
  <2>2. /\ preview' = [preview EXCEPT !.log = i] /\ stream[i].st = "msg"
        /\ stream' = [CloseFormer(preview, stream) EXCEPT ![i].st = "open", ![i].reads = 1]
    BY <1>3, <1>a DEF PreviewOpened
  <2>3. preview.log # i
    BY <2>1, <2>2, IdsTyped DEF PaneInv, PaneType
  <2>4. stream[i].reads = 0 /\ stream[i].lines = 0
    BY <2>1, <2>2 DEF Asking, StreamType
  <2> DEFINE r == [stream[i] EXCEPT !.st = "open", !.reads = 1]
             w(j) == [stream[j] EXCEPT !.closed = TRUE]
  <2>5. /\ r \in StreamType /\ r.st = "open" /\ r.cmd = stream[i].cmd /\ r.gen = stream[i].gen
        /\ r.tick = stream[i].tick /\ r.reads = 1 /\ r.lines = 0 /\ r.closed = stream[i].closed
    BY <2>1, <2>4 DEF StreamType
  <2>6. \A j \in Ids : /\ w(j) \in StreamType /\ SameBut(stream[j], w(j)) /\ w(j).closed
                       /\ w(j).tick = stream[j].tick
    BY <2>1 DEF StreamType, SameBut
  <2>7. CloseFormer(preview, stream)[i] = stream[i]
    BY <2>3 DEF CloseFormer
  <2>8. /\ stream'[i] = r
        /\ \A j \in Ids \ {i} : stream'[j] = IF j = preview.log THEN w(j) ELSE stream[j]
        /\ stream' = [j \in Ids |-> stream'[j]]
    BY <2>2, <2>7 DEF CloseFormer
  <2> HIDE DEF r, w
  <2>9. stream' \in [Ids -> StreamType]
    BY <2>1, <2>5, <2>6, <2>8
  <2>10. \A j \in Ids \ {i} : /\ SameBut(stream[j], stream'[j]) /\ (j = preview.log => stream'[j].closed)
                              /\ stream'[j].tick = stream[j].tick
    BY <2>1, <2>6, <2>8, SameSame
  <2>11. /\ preview' \in PaneType /\ preview'.status = preview.status /\ preview'.log = i
         /\ preview'.raw = preview.raw /\ preview'.cmd = preview.cmd /\ preview'.terminal = preview.terminal
    BY <2>1, <2>2 DEF PaneType
  <2>12. PaneInv(preview', stream')
    <3>1. \A j \in Ids : Asking(stream[j])
      BY <2>1 DEF PaneInv
    <3>2. Asking(stream'[i])
      BY <2>1, <2>2, <2>5, <2>8 DEF Asking
    <3>3. \A j \in Ids \ {i} : Asking(stream'[j])
      BY <2>10, <3>1 DEF Asking, SameBut
    <3>4. \A j \in Ids : Asking(stream'[j])
      BY <3>2, <3>3
    <3> QED BY <2>5, <2>8, <2>9, <2>11, <3>4 DEF PaneInv
  <2>13. Kept(preview', stream')
    BY <2>1, <2>5, <2>8, <2>10, <2>11 DEF Kept, SameBut
  <2>14. Answered(preview', stream')
    BY <2>11, IdsTyped DEF Answered
  <2>15. GensInv(stream', lastGen)
    BY <2>1, <2>5, <2>8, <2>10 DEF GensInv, SameBut
  <2>16. ~bounced => SingleInv(preview', stream')
    <3> SUFFICES ASSUME ~bounced PROVE SingleInv(preview', stream')
      OBVIOUS
    <3>1. SingleInv(preview, stream) /\ Pending(preview, stream[i])
      BY <1>3, <2>2, PaneHolds DEF Pending
    <3>2. \A j \in Ids \ {i} : ~Busy(preview', stream'[j]) /\ ~Pending(preview', stream'[j])
      BY <2>10, <2>11, <3>1 DEF SingleInv, Busy, Pending, SameBut
    <3>3. ~Pending(preview', stream'[i]) /\ stream'[i].reads + stream'[i].lines = 1
      BY <2>5, <2>8 DEF Pending
    <3> QED BY <2>11, <3>2, <3>3 DEF SingleInv
  <2> QED BY <1>a, <2>11, <2>12, <2>13, <2>14, <2>15, <2>16
          DEF PreviewInv, StreamInv, DisabledForGood, CrashAfterReturn
<1> QED BY <1>1, <1>2, <1>3

LEMMA PreviewLineKeeps ==
    ASSUME PreviewInv, NEW i \in Ids, PreviewLine(i)
    PROVE  PreviewInv'
<1>1. /\ stream \in [Ids -> StreamType] /\ stream[i] \in StreamType /\ preview \in PaneType /\ Asking(stream[i])
      /\ PaneInv(preview, stream) /\ stream[i].lines \in Nat /\ stream[i].lines > 0 /\ stream[i].reads \in Nat
  BY PaneHolds DEF PaneInv, StreamType, PreviewLine
<1>2. stream[i].st = "open"
  BY <1>1 DEF Asking
<1>3. UNCHANGED <<kind, sel, tab, disabled, lastGen, bounced>>
  BY DEF PreviewLine
<1> DEFINE r == [stream[i] EXCEPT !.lines = @ - 1]
           z == [stream EXCEPT ![i] = r]
           e == [preview EXCEPT !.status = "error"]
           k == [preview EXCEPT !.status = "ok"]
<1>4. stream[i].lines - 1 \in Nat
  BY <1>1
<1>5. r \in StreamType
  BY <1>1, <1>4 DEF StreamType
<1>6. /\ r.st = stream[i].st /\ r.cmd = stream[i].cmd /\ r.gen = stream[i].gen /\ r.tick = stream[i].tick
      /\ r.reads = stream[i].reads /\ r.lines = stream[i].lines - 1 /\ r.closed = stream[i].closed
  BY <1>1 DEF StreamType
<1>7. z = [stream EXCEPT ![i].lines = @ - 1]
  BY <1>1
<1>8. /\ e \in PaneType /\ e.status = "error" /\ e.log = preview.log /\ e.raw = preview.raw
      /\ e.cmd = preview.cmd /\ e.terminal = preview.terminal
      /\ k \in PaneType /\ k.status = "ok" /\ k.log = preview.log /\ k.raw = preview.raw
      /\ k.cmd = preview.cmd /\ k.terminal = preview.terminal
  BY <1>1 DEF PaneType
<1>9. \/ ~OwnLine(i) /\ stream' = z /\ UNCHANGED <<preview, crashed>>
      \/ OwnLine(i) /\ stream' = z /\ preview' = e /\ UNCHANGED crashed
      \/ /\ OwnLine(i) /\ preview' = k
         /\ IF preview.log = 0 THEN crashed' = TRUE /\ stream' = z
            ELSE stream' = [z EXCEPT ![preview.log].reads = @ + 1] /\ UNCHANGED crashed
  BY <1>7 DEF PreviewLine
<1> HIDE DEF r, e, k
<1>10. z \in [Ids -> StreamType] /\ z[i] = r /\ \A j \in Ids \ {i} : z[j] = stream[j]
  BY <1>1, <1>5
<1>11. StreamInv(preview, z, lastGen, bounced)
  <2>1. r.reads + r.lines <= stream[i].reads + stream[i].lines
    BY <1>1, <1>6
  <2>2. Asking(r)
    BY <1>1, <1>2, <1>6 DEF Asking
  <2> QED BY <1>2, <1>5, <1>6, <2>1, <2>2, OneStream
<1> HIDE DEF z
<1>12. StreamInv(e, z, lastGen, bounced) /\ StreamInv(k, z, lastGen, bounced)
  BY <1>8, <1>11, PaneSays
<1>13. CASE stream' = z /\ UNCHANGED <<preview, crashed>>
  BY <1>3, <1>11, <1>13 DEF PreviewInv, DisabledForGood, CrashAfterReturn
<1>14. CASE stream' = z /\ preview' = e /\ UNCHANGED crashed
  BY <1>3, <1>8, <1>12, <1>14 DEF PreviewInv, DisabledForGood, CrashAfterReturn
<1>15. CASE OwnLine(i) /\ preview' = k /\ preview.log = 0 /\ crashed' = TRUE /\ stream' = z
  <2>1. Busy(preview, stream[i])
    BY <1>1, <1>15 DEF OwnLine, Busy
  <2>2. bounced
    BY <1>15, <2>1, PaneHolds, IdsTyped DEF SingleInv
  <2> QED BY <1>3, <1>8, <1>12, <1>15, <2>2 DEF PreviewInv, DisabledForGood, CrashAfterReturn
<1>16. CASE /\ OwnLine(i) /\ preview' = k /\ preview.log # 0
            /\ stream' = [z EXCEPT ![preview.log].reads = @ + 1] /\ UNCHANGED crashed
  <2> DEFINE l == preview.log
             y == [z[l] EXCEPT !.reads = @ + 1]
  <2>1. l \in Ids
    BY <1>1, <1>16 DEF PaneType
  <2>2. PaneInv(k, z) /\ Kept(k, z) /\ Answered(k, z) /\ GensInv(z, lastGen)
    BY <1>12 DEF StreamInv
  <2>3. z[l] \in StreamType /\ Asking(z[l]) /\ z[l].st = "open" /\ z[l].reads \in Nat /\ z[l].lines \in Nat
    BY <1>8, <1>10, <1>16, <2>1, <2>2 DEF PaneInv, StreamType
  <2>4. z[l].reads + 1 \in Nat
    BY <2>3
  <2>5. y \in StreamType
    BY <2>3, <2>4 DEF StreamType
  <2>6. /\ y.st = "open" /\ y.cmd = z[l].cmd /\ y.gen = z[l].gen /\ y.tick = z[l].tick
        /\ y.reads = z[l].reads + 1 /\ y.lines = z[l].lines /\ y.closed = z[l].closed
    BY <2>3 DEF StreamType
  <2>7. stream' = [z EXCEPT ![l] = y]
    BY <1>16
  <2> HIDE DEF y, l
  <2>8. stream' \in [Ids -> StreamType] /\ stream'[l] = y /\ \A j \in Ids \ {l} : stream'[j] = z[j]
    BY <1>10, <2>1, <2>5, <2>7
  <2>9. PaneInv(k, stream')
    <3>1. Asking(y)
      BY <2>3, <2>6 DEF Asking
    <3>2. \A j \in Ids : Asking(stream'[j])
      BY <2>2, <2>8, <3>1 DEF PaneInv
    <3>3. k.log = l
      BY <1>8 DEF l
    <3> QED BY <1>8, <2>6, <2>8, <3>2, <3>3 DEF PaneInv
  <2>10. Kept(k, stream')
    BY <2>2, <2>3, <2>6, <2>8 DEF Kept
  <2>11. Answered(k, stream')
    BY <1>8 DEF Answered
  <2>12. GensInv(stream', lastGen)
    BY <2>2, <2>6, <2>8 DEF GensInv
  <2>13. ~bounced => SingleInv(k, stream')
    <3> SUFFICES ASSUME ~bounced PROVE SingleInv(k, stream')
      OBVIOUS
    <3>1. SingleInv(preview, stream) /\ Busy(preview, stream[i])
      BY <1>1, <1>16, PaneHolds DEF OwnLine, Busy
    <3>2. i = l /\ stream[i].reads + stream[i].lines = 1
      BY <3>1 DEF SingleInv, l
    <3>3. y.reads + y.lines = 1
      <4>1. z[l].reads = stream[i].reads /\ z[l].lines = stream[i].lines - 1
        BY <1>6, <1>10, <3>2
      <4> QED BY <1>1, <2>6, <3>2, <4>1
    <3>4. \A j \in Ids \ {l} : stream'[j] = stream[j]
      BY <1>10, <2>8, <3>2
    <3>5. k.cmd = preview.cmd /\ k.log = l
      BY <1>8 DEF l
    <3>6. \A j \in Ids \ {l} : ~Busy(k, stream'[j]) /\ ~Pending(k, stream'[j])
      BY <3>1, <3>2, <3>4, <3>5 DEF SingleInv, Busy, Pending, l
    <3>7. ~Pending(k, stream'[l])
      BY <2>6, <2>8 DEF Pending
    <3> QED BY <2>8, <3>3, <3>5, <3>6, <3>7 DEF SingleInv
  <2>14. StreamInv(k, stream', lastGen, bounced)
    BY <2>9, <2>10, <2>11, <2>12, <2>13 DEF StreamInv
  <2> QED BY <1>3, <1>8, <1>16, <2>14 DEF PreviewInv, DisabledForGood, CrashAfterReturn
<1> QED BY <1>9, <1>13, <1>14, <1>15, <1>16

LEMMA RawOpenedKeeps ==
    ASSUME PreviewInv, NEW i \in Ids, RawOpened(i)
    PROVE  PreviewInv'
<1>a. UNCHANGED <<kind, sel, tab, disabled, bounced, crashed>> /\ stream[i].st \in {"msg", "failed"}
  BY DEF RawOpened, Rest
<1>1. CASE stream[i].cmd # preview.cmd
  BY <1>1, <1>a, DiscardKeeps DEF RawOpened
<1>2. CASE stream[i].cmd = preview.cmd /\ stream[i].st = "failed"
  BY <1>2, <1>a, OpenFailedKeeps DEF RawOpened
<1>3. CASE stream[i].cmd = preview.cmd /\ stream[i].st # "failed"
  <2>1. /\ stream \in [Ids -> StreamType] /\ stream[i] \in StreamType /\ preview \in PaneType /\ Asking(stream[i])
        /\ PaneInv(preview, stream) /\ Kept(preview, stream) /\ GensInv(stream, lastGen) /\ lastGen \in Nat
    BY PaneHolds DEF PaneInv
  <2> DEFINE r == [stream[i] EXCEPT !.st = "open", !.drain = TRUE, !.tick = TRUE, !.gen = NextGen]
             w(j) == [stream[j] EXCEPT !.closed = TRUE]
  <2>2. /\ preview' = [preview EXCEPT !.raw = i, !.status = "ok", !.streaming = TRUE, !.gen = NextGen]
        /\ stream[i].st = "msg" /\ lastGen' = NextGen
        /\ stream' = [j \in Ids |-> IF j = i THEN r ELSE IF j = preview.raw THEN w(j) ELSE stream[j]]
    BY <1>3, <1>a DEF RawOpened
  <2>3. NextGen \in Nat /\ NextGen > lastGen /\ NextGen # 0
    BY <2>1 DEF NextGen
  <2>4. stream[i].reads = 0 /\ stream[i].lines = 0
    BY <2>1, <2>2 DEF Asking, StreamType
  <2>5. /\ r \in StreamType /\ r.st = "open" /\ r.cmd = stream[i].cmd /\ r.gen = NextGen
        /\ r.reads = 0 /\ r.lines = 0 /\ r.closed = stream[i].closed
    BY <2>1, <2>3, <2>4 DEF StreamType
  <2>6. \A j \in Ids : w(j) \in StreamType /\ SameBut(stream[j], w(j)) /\ w(j).closed
    BY <2>1 DEF StreamType, SameBut
  <2> HIDE DEF r, w
  <2>8. /\ stream'[i] = r
        /\ \A j \in Ids \ {i} : stream'[j] = IF j = preview.raw THEN w(j) ELSE stream[j]
    BY <2>2
  <2>9. stream' \in [Ids -> StreamType]
    BY <2>1, <2>2, <2>5, <2>6
  <2>10. \A j \in Ids \ {i} : SameBut(stream[j], stream'[j]) /\ (j = preview.raw => stream'[j].closed)
    BY <2>1, <2>6, <2>8, SameSame
  <2>11. /\ preview' \in PaneType /\ preview'.status = "ok" /\ preview'.log = preview.log
         /\ preview'.raw = i /\ preview'.cmd = preview.cmd /\ preview'.terminal = preview.terminal
    BY <2>1, <2>2, <2>3 DEF PaneType
  <2>12. PaneInv(preview', stream')
    <3>1. \A j \in Ids : Asking(stream[j])
      BY <2>1 DEF PaneInv
    <3>2. Asking(stream'[i])
      BY <2>1, <2>2, <2>3, <2>5, <2>8 DEF Asking
    <3>3. \A j \in Ids \ {i} : Asking(stream'[j])
      BY <2>10, <3>1 DEF Asking, SameBut
    <3>4. \A j \in Ids : Asking(stream'[j])
      BY <3>2, <3>3
    <3>5. preview.log # 0 => preview.log \in Ids \ {i} /\ stream[preview.log].st = "open"
      BY <2>1, <2>2 DEF PaneInv, PaneType
    <3>6. preview'.log # 0 => stream'[preview'.log].st = "open"
      BY <2>10, <2>11, <3>5 DEF SameBut
    <3> QED BY <2>9, <2>11, <3>4, <3>6 DEF PaneInv
  <2>13. Kept(preview', stream')
    BY <2>1, <2>10, <2>11 DEF Kept, SameBut
  <2>14. Answered(preview', stream')
    BY <2>11 DEF Answered
  <2>15. GensInv(stream', lastGen')
    <3>1. \A j \in Ids \ {i} : stream'[j].gen = stream[j].gen /\ stream[j].gen \in Nat
      BY <2>1, <2>10 DEF SameBut, StreamType
    <3>2. \A j \in Ids : stream[j].gen <= lastGen
      BY <2>1 DEF GensInv
    <3>3. \A j \in Ids \ {i} : stream'[j].gen < NextGen
      BY <2>1, <2>3, <3>1, <3>2
    <3>4. \A j \in Ids : stream'[j].gen <= NextGen
      BY <2>3, <2>5, <2>8, <3>1, <3>3
    <3>5. ASSUME NEW j \in Ids, NEW k \in Ids, stream'[j].gen # 0, stream'[j].gen = stream'[k].gen PROVE j = k
      <4>1. CASE j = i \/ k = i
        BY <2>3, <2>5, <2>8, <3>3, <3>5, <4>1
      <4>2. CASE j # i /\ k # i
        BY <2>1, <3>1, <3>5, <4>2 DEF GensInv
      <4> QED BY <4>1, <4>2
    <3> QED BY <2>2, <2>3, <3>4, <3>5 DEF GensInv
  <2>16. ~bounced => SingleInv(preview', stream')
    <3> SUFFICES ASSUME ~bounced PROVE SingleInv(preview', stream')
      OBVIOUS
    <3>1. SingleInv(preview, stream) /\ Pending(preview, stream[i])
      BY <1>3, <2>2, PaneHolds DEF Pending
    <3>2. \A j \in Ids \ {i} : ~Busy(preview', stream'[j]) /\ ~Pending(preview', stream'[j])
      BY <2>10, <2>11, <3>1 DEF SingleInv, Busy, Pending, SameBut
    <3>3. ~Pending(preview', stream'[i]) /\ ~Busy(preview', stream'[i])
      BY <2>5, <2>8 DEF Pending, Busy
    <3> QED BY <3>2, <3>3 DEF SingleInv
  <2>17. StreamInv(preview', stream', lastGen', bounced)
    BY <2>12, <2>13, <2>14, <2>15, <2>16 DEF StreamInv
  <2> QED BY <1>a, <2>11, <2>17 DEF PreviewInv, DisabledForGood, CrashAfterReturn
<1> QED BY <1>1, <1>2, <1>3

\* The emulator panicked.
LEMMA FallBackKeeps ==
    ASSUME PreviewInv, NEW i \in Ids, NEW r \in StreamType, SameBut(stream[i], r), r.closed = stream[i].closed,
           FallBack([stream EXCEPT ![i] = r]), UNCHANGED <<kind, sel, tab, lastGen, crashed>>
    PROVE  PreviewInv'
<1> DEFINE s == [stream EXCEPT ![i] = r]
           z == StopPreview(preview, s)
<1>1. stream \in [Ids -> StreamType] /\ stream[i] \in StreamType /\ Asking(stream[i]) /\ preview \in PaneType
      /\ lastGen \in Nat /\ sel \in PCmds \cup {"header"} /\ bounced \in BOOLEAN
  BY PaneHolds DEF PaneInv, PreviewInv
<1>2. disabled' = TRUE /\ Reconciled(Empty, sel, kind, tab, TRUE, z)
  BY DEF FallBack
<1>3. s \in [Ids -> StreamType] /\ \A j \in Ids : SameBut(stream[j], s[j])
  BY <1>1, SameSame
<1>4. StreamInv(preview, s, lastGen, bounced)
  <2>1. Asking(r) /\ r.reads + r.lines <= stream[i].reads + stream[i].lines
    BY <1>1 DEF Asking, SameBut, StreamType
  <2>2. /\ r.cmd = stream[i].cmd /\ r.gen = stream[i].gen /\ (r.tick => stream[i].tick) /\ r.st = stream[i].st
    BY DEF SameBut
  <2> QED BY <2>1, <2>2, OneStream
<1> HIDE DEF s
<1>5. /\ z \in [Ids -> StreamType] /\ \A j \in Ids : SameBut(s[j], z[j])
      /\ \A j \in Ids : j \in {preview.log, preview.raw} => z[j].closed
  BY <1>1, <1>3, StopCloses
<1> HIDE DEF z
<1>6. \A j \in Ids : SameBut(stream[j], z[j])
  BY <1>3, <1>5 DEF SameBut
<1>7. PaneInv(preview, s) /\ Kept(preview, s) /\ GensInv(s, lastGen)
  BY <1>4 DEF StreamInv
<1>8. PaneInv(Empty, z) /\ Kept(Empty, z) /\ GensInv(z, lastGen)
  BY <1>1, <1>3, <1>5, <1>7, EmptyPane, TakesOver
<1>9. Answered(Empty, z) /\ SingleInv(Empty, z)
  <2>1. \A j \in Ids : z[j].cmd = "none" => z[j].st = "unused" /\ ~(z[j].reads + z[j].lines > 0)
    BY <1>8 DEF PaneInv, Asking
  <2> QED BY <2>1, EmptyPane DEF Answered, SingleInv, Busy, Pending
<1>10. StreamInv(Empty, z, lastGen, bounced)
  BY <1>8, <1>9 DEF StreamInv
<1>11. /\ StreamInv(preview', stream', lastGen, bounced') /\ bounced' \in BOOLEAN /\ (bounced => bounced')
       /\ ~preview'.terminal
  BY <1>1, <1>2, <1>6, <1>10, EmptyPane, ReconciledKeeps
<1> QED BY <1>2, <1>11 DEF PreviewInv, DisabledForGood, CrashAfterReturn

LEMMA RawTickKeeps ==
    ASSUME PreviewInv, NEW i \in Ids, RawTick(i)
    PROVE  PreviewInv'
<1> DEFINE r == [stream[i] EXCEPT !.tick = FALSE]
<1>1. UNCHANGED <<kind, sel, tab, lastGen, moves, crashed>> /\ stream[i] \in StreamType /\ stream[i].tick
  BY PaneHolds DEF RawTick
<1>2. r \in StreamType /\ SameBut(stream[i], r) /\ r.closed = stream[i].closed
  BY <1>1 DEF SameBut, StreamType
<1>3. [stream EXCEPT ![i].tick = FALSE] = [stream EXCEPT ![i] = r]
  BY PaneHolds
<1>4. \/ stream' = [stream EXCEPT ![i] = r] /\ UNCHANGED <<preview, disabled, bounced>>
      \/ UNCHANGED <<stream, preview, disabled, bounced>>
      \/ FallBack([stream EXCEPT ![i] = r])
  BY <1>3 DEF RawTick
<1> HIDE DEF r
<1>5. CASE stream' = [stream EXCEPT ![i] = r] /\ UNCHANGED <<preview, disabled, bounced>>
  BY <1>1, <1>2, <1>5, QuietKeeps
<1>6. CASE UNCHANGED <<stream, preview, disabled, bounced>>
  BY <1>1, <1>6 DEF PreviewInv, DisabledForGood, CrashAfterReturn
<1>7. CASE FallBack([stream EXCEPT ![i] = r])
  BY <1>1, <1>2, <1>7, FallBackKeeps
<1> QED BY <1>4, <1>5, <1>6, <1>7

LEMMA RawClosedKeeps ==
    ASSUME PreviewInv, NEW i \in Ids, NEW how, RawClosed(i, how)
    PROVE  PreviewInv'
<1> DEFINE r == [stream[i] EXCEPT !.drain = FALSE]
           d == [preview EXCEPT !.streaming = FALSE]
           e == [preview EXCEPT !.status = "error"]
<1>1. UNCHANGED <<kind, sel, tab, lastGen, moves, crashed>> /\ stream[i] \in StreamType /\ preview \in PaneType
      /\ stream \in [Ids -> StreamType] /\ Asking(stream[i])
  BY PaneHolds DEF RawClosed, PaneInv
<1>2. r \in StreamType /\ SameBut(stream[i], r) /\ r.closed = stream[i].closed
  BY <1>1 DEF SameBut, StreamType
<1>3. [stream EXCEPT ![i].drain = FALSE] = [stream EXCEPT ![i] = r]
  BY PaneHolds
<1>4. \/ stream' = [stream EXCEPT ![i] = r] /\ UNCHANGED <<preview, disabled, bounced>>
      \/ stream' = [stream EXCEPT ![i] = r] /\ preview' \in {d, e} /\ UNCHANGED <<disabled, bounced>>
      \/ FallBack([stream EXCEPT ![i] = r])
  BY <1>3 DEF RawClosed
<1>5. \A f \in {d, e} : /\ f \in PaneType /\ f.cmd = preview.cmd /\ f.log = preview.log /\ f.raw = preview.raw
                        /\ (f.status = "loading" => preview.status = "loading") /\ f.terminal = preview.terminal
  BY <1>1 DEF PaneType
<1> HIDE DEF r, d, e
<1>6. CASE stream' = [stream EXCEPT ![i] = r] /\ UNCHANGED <<preview, disabled, bounced>>
  BY <1>1, <1>2, <1>6, QuietKeeps
<1>7. CASE stream' = [stream EXCEPT ![i] = r] /\ preview' \in {d, e} /\ UNCHANGED <<disabled, bounced>>
  <2>1. Asking(r) /\ r.reads + r.lines <= stream[i].reads + stream[i].lines
    BY <1>1, <1>2 DEF Asking, SameBut, StreamType
  <2>2. /\ r.cmd = stream[i].cmd /\ r.gen = stream[i].gen /\ (r.tick => stream[i].tick) /\ r.st = stream[i].st
    BY <1>2 DEF SameBut
  <2>3. StreamInv(preview, stream', lastGen, bounced)
    BY <1>2, <1>7, <2>1, <2>2, OneStream
  <2>4. StreamInv(preview', stream', lastGen, bounced)
    BY <1>5, <1>7, <2>3, PaneSays
  <2> QED BY <1>1, <1>5, <1>7, <2>4 DEF PreviewInv, DisabledForGood, CrashAfterReturn
<1>8. CASE FallBack([stream EXCEPT ![i] = r])
  BY <1>1, <1>2, <1>8, FallBackKeeps
<1> QED BY <1>4, <1>6, <1>7, <1>8

LEMMA PaneStep == PreviewInv /\ (PreviewNext \/ UNCHANGED previewVars) => PreviewInv'
<1> SUFFICES ASSUME PreviewInv, PreviewNext \/ UNCHANGED previewVars PROVE PreviewInv'
  OBVIOUS
<1>1. CASE UNCHANGED previewVars
  BY <1>1 DEF previewVars, PreviewInv, DisabledForGood, CrashAfterReturn
<1>2. CASE \/ \E c \in PCmds \cup {"header"} : Select(c)
           \/ SwitchTab
           \/ \E c \in PCmds, k \in {"raw", "log", "gone"} : ListLoaded(c, k)
  BY <1>2, MovesKeep
<1>3. CASE \E i \in Ids : \/ \E st \in {"msg", "failed"} : OpenReturns(i, st)
                          \/ PreviewOpened(i) \/ LineRead(i) \/ ReadEnds(i) \/ PreviewLine(i)
                          \/ RawOpened(i) \/ RawTick(i)
                          \/ \E how \in {"end", "error", "panic"} : RawClosed(i, how)
  BY <1>3, OpenReturnsKeeps, PreviewOpenedKeeps, ReadsKeep, PreviewLineKeeps, RawOpenedKeeps, RawTickKeeps,
     RawClosedKeeps
<1> QED BY <1>1, <1>2, <1>3 DEF PreviewNext

LEMMA PaneSafe ==
    PreviewInv => /\ PreviewTypeOK /\ NoStreamLeaks /\ LoadingAnswered /\ OneLoop
                  /\ DisabledForGood /\ CrashAfterReturn
<1> SUFFICES ASSUME PreviewInv
             PROVE  /\ PreviewTypeOK /\ NoStreamLeaks /\ LoadingAnswered /\ OneLoop
                    /\ DisabledForGood /\ CrashAfterReturn
  OBVIOUS
<1>1. PreviewTypeOK
  BY PaneHolds DEF PreviewInv, PreviewTypeOK, PaneType, StreamType
<1>2. NoStreamLeaks /\ LoadingAnswered
  BY PaneHolds DEF NoStreamLeaks, LoadingAnswered, Kept, Answered
<1>3. OneLoop
  <2>1. ASSUME NEW i \in Ids, NEW j \in Ids, Painting(i), Painting(j) PROVE i = j
    <3>1. stream[i].gen # 0 /\ stream[i].gen = stream[j].gen
      BY <2>1, PaneHolds DEF Painting, Current, PaneInv, Asking
    <3> QED BY <3>1, PaneHolds DEF GensInv
  <2>2. ASSUME ~bounced, NEW i \in Ids, Reading(i)
        PROVE  i = preview.log /\ stream[i].reads + stream[i].lines = 1
    BY <2>2, PaneHolds DEF SingleInv, Busy, Reading
  <2> QED BY <2>1, <2>2 DEF OneLoop
<1> QED BY <1>1, <1>2, <1>3 DEF PreviewInv

\* The inductive invariant of the preview, through keys and list loads that move
\* it away and back, opens, lines and ticks that come late, and panics of the
\* emulator.
THEOREM PreviewInvariant == TuiSpec => []PreviewInv
<1>1. TuiInit => PreviewInv
  BY PaneInit DEF TuiInit
<1>2. PreviewInv /\ [TuiNext]_tuiVars => PreviewInv'
  <2> SUFFICES ASSUME PreviewInv, [TuiNext]_tuiVars PROVE PreviewInv'
    OBVIOUS
  <2>1. PreviewNext \/ UNCHANGED previewVars
    BY DEF TuiNext, tuiVars, PreviewSteps
  <2> QED BY <2>1, PaneStep
<1> QED BY <1>1, <1>2, PTL DEF TuiSpec

\* No stream the preview opened is left behind, "loading" always has an answer
\* to come, one loop paints the terminal and, unless the preview came back to a
\* command it still had work for, one reads the log; only such a return can
\* panic, and a panic of the emulator turns the terminal view off for good: for
\* any commands, moves and lines.
THEOREM PreviewHolds == TuiSpec => []PreviewSafety
<1>1. PreviewInv => PreviewSafety
  BY PaneSafe DEF PreviewSafety
<1> QED BY <1>1, PreviewInvariant, PTL

-----------------------------------------------------------------------------
(* The keys: their inductive invariant, part by part.                      *)

Marks == {"unseen", "pending", "terminal"}
UpStates == {"unused", "opening", "open", "failed", "done"}
KeysType ==
    /\ real \in [KCmds -> KStates] /\ lists \subseteq [KCmds -> KStates]
    /\ row \in [KCmds -> [st : KStates,
                          pending : {"none", "start", "stop", "restart", "remove"}]]
    /\ fold \in BOOLEAN /\ filter \in {"all"} \cup KCmds /\ at \in 1 .. 3
    /\ popup \in [kind : {"none", "remove", "force", "up"}, target : KCmds \cup Projects \cup {"none"}, yes : BOOLEAN]
    /\ act \in [1 .. MaxActs -> [verb : {"none", "start", "stop", "restart", "remove"},
                                 cmd : KCmds \cup {"none"}, force : BOOLEAN]]
    /\ load \in {"none", "asked"} /\ relisted \subseteq KCmds
    /\ overlay \in [active : BOOLEAN, stream : 0 .. MaxUps, marks : [UpServices -> Marks]]
    /\ up \in [1 .. MaxUps -> [project : Projects \cup {"none"}, st : UpStates, closed : BOOLEAN,
                               reader : Nat, event : Nat, left : Nat]]
    /\ overlap \in BOOLEAN /\ namesake \in BOOLEAN
    /\ def \in [open : BOOLEAN, project : Projects \cup {"none"}, shows : Projects \cup {"none", "loading"}]
    /\ defs \subseteq Projects

\* A popup asks about what was selected as it opened, and an action is some command's.
AskInv ==
    /\ popup.kind \in {"remove", "force"} => popup.target \in KCmds /\ asked = popup.target
    /\ popup.kind = "up" => popup.target \in Projects
    /\ \A i \in 1 .. MaxActs : act[i] = NoAct \/ act[i].cmd \in KCmds

\* A start, stop or restart is alone with its marker, while that has not gone.
Lifecycle(i, c) == act[i].cmd = c /\ act[i].verb # "remove"
LifeInv ==
    \A c \in KCmds \ relisted : \A i \in 1 .. MaxActs :
        Lifecycle(i, c) => row[c].pending # "none" /\ \A j \in 1 .. MaxActs : Lifecycle(j, c) => i = j

\* The ticker turns when the spinner is on, which it is with something in progress.
SpinInv ==
    /\ spin \in [on : BOOLEAN, ticks : {0, 1}]
    /\ spin.on <=> spin.ticks = 1
    /\ InProgress(row, overlay) => spin.on

\* Ups that did not overlap: the one that is open is on the overlay, and is read.
Reads(u) == up[u].reader + up[u].event
AloneInv ==
    /\ \A u, v \in 1 .. MaxUps :
          up[u].st \in {"opening", "open"} /\ up[v].st \in {"opening", "open"} => u = v
    /\ \A u \in 1 .. MaxUps :
          /\ up[u].st = "open" => overlay.active /\ overlay.stream = u /\ Reads(u) = 1
          /\ up[u].st # "open" => Reads(u) = 0
    /\ overlay.active => up[overlay.stream].st = "open"
UpsInv ==
    /\ overlay.active => overlay.stream # 0 /\ up[overlay.stream].st # "unused"
    /\ \A u \in 1 .. MaxUps : up[u].st = "unused" => Reads(u) = 0
    /\ overlay.active => \E u \in 1 .. MaxUps :
           NameOf(up[u].project) = NameOf(up[overlay.stream].project) /\ Reads(u) > 0
    /\ ~overlap => AloneInv

\* A definition of the viewer's name that is loading is the viewer's own.
DefInv ==
    def.open /\ ~namesake =>
        /\ def.shows \in {"loading", def.project}
        /\ \A p \in defs : NameOf(p) = NameOf(def.project) => p = def.project

KeysInv ==
    KeysType /\ SelectionInRange /\ AskInv /\ MarkerMeansWork /\ LifeInv /\ SpinInv /\ UpsInv /\ DefInv

-----------------------------------------------------------------------------
(* The keys: their steps.                                                  *)

LEMMA KeysStart == KeysInit => KeysInv
<1> SUFFICES ASSUME KeysInit PROVE KeysInv
  OBVIOUS
<1> USE DEF KeysInit, NoPopup, NoAct, NoUp, NoLay, NoDef, KCmds, Projects, KStates, Unmarked, Marks
<1>1. KeysType
  <2>1. row \in [KCmds -> [st : KStates, pending : {"none", "start", "stop", "restart", "remove"}]]
    OBVIOUS
  <2>2. overlay \in [active : BOOLEAN, stream : 0 .. MaxUps, marks : [UpServices -> Marks]]
    BY KeysAssumption
  <2>3. up \in [1 .. MaxUps -> [project : Projects \cup {"none"}, st : UpStates, closed : BOOLEAN,
                                reader : Nat, event : Nat, left : Nat]]
    BY DEF UpStates
  <2>4. act \in [1 .. MaxActs -> [verb : {"none", "start", "stop", "restart", "remove"},
                                  cmd : KCmds \cup {"none"}, force : BOOLEAN]]
    OBVIOUS
  <2>5. /\ popup \in [kind : {"none", "remove", "force", "up"}, target : KCmds \cup Projects \cup {"none"}, yes : BOOLEAN]
        /\ def \in [open : BOOLEAN, project : Projects \cup {"none"}, shows : Projects \cup {"none", "loading"}]
    OBVIOUS
  <2>6. fold \in BOOLEAN /\ filter \in {"all"} \cup KCmds
    OBVIOUS
  <2>9. at \in 1 .. 3
    <3>1. at = 1
      OBVIOUS
    <3> QED BY ONLY <3>1
  <2>8. real \in [KCmds -> KStates] /\ lists \subseteq [KCmds -> KStates]
    OBVIOUS
  <2>7. load \in {"none", "asked"} /\ relisted \subseteq KCmds /\ overlap \in BOOLEAN /\ namesake \in BOOLEAN /\ defs \subseteq Projects
    OBVIOUS
  <2> QED BY ONLY <2>1, <2>2, <2>3, <2>4, <2>5, <2>6, <2>7, <2>8, <2>9 DEF KeysType
<1>2. SelectionInRange
  BY DEF SelectionInRange, Visible, VisibleRows, Shown, Matches
<1>3. AskInv /\ MarkerMeansWork /\ LifeInv
  BY DEF AskInv, MarkerMeansWork, LifeInv, Lifecycle
<1>4. SpinInv
  <2>1. InProgress(row, overlay) <=> \E c \in KCmds : real[c] = "starting"
    BY DEF InProgress, AnyPending
  <2>2. spin = IF \E c \in KCmds : real[c] = "starting" THEN [on |-> TRUE, ticks |-> 1] ELSE [on |-> FALSE, ticks |-> 0]
    OBVIOUS
  <2> QED BY ONLY <2>1, <2>2 DEF SpinInv
<1>5. UpsInv
  BY KeysAssumption DEF UpsInv, AloneInv, Reads
<1>6. DefInv
  BY DEF DefInv
<1> QED BY <1>1, <1>2, <1>3, <1>4, <1>5, <1>6 DEF KeysInv

\* Which of its parts a step of the keys leaves alone.
Selecting == \/ \E d \in {-1, 1} : MoveKey(d)
             \/ FoldKey \/ \E f \in {"all"} \cup KCmds : FilterKey(f)
Asks == RemoveKey \/ (\E p \in Projects : ComposeUpKey(p)) \/ ToggleKey \/ CancelKey
Views == DefClose \/ \E p \in Projects : DefKey(p) \/ DefLoaded(p)
Ups == \E u \in 1 .. MaxUps : UpOpened(u) \/ UpRead(u) \/ UpEvent(u) \/ UpDone(u)
Lands == \E l \in lists : CommandsListed(l)
Stirs == ListAsked \/ StoreRead \/ \E c \in KCmds : Elsewhere(c) \/ Advances(c)
Acting == (\E verb \in {"start", "stop", "restart"} : LifecycleKey(verb)) \/ ConfirmRemove

LEMMA KeysCases ==
    ASSUME KeysNext
    PROVE  Selecting \/ Asks \/ Views \/ Ups \/ Acting \/ SpinnerTick \/ ConfirmUp \/ Stirs \/ Lands
           \/ \E i \in 1 .. MaxActs : ActionDone(i)
BY DEF KeysNext, Selecting, Asks, Views, Ups, Acting, Lands, Stirs

LEMMA SelectingLeaves ==
    Selecting => UNCHANGED <<real, row, act, load, lists, relisted, popup, asked, spin, overlay, up, overlap, def, defs, namesake>>
BY DEF Selecting, MoveKey, FoldKey, FilterKey, composes, viewer
LEMMA AsksLeave ==
    Asks => UNCHANGED <<real, row, fold, filter, at, act, load, lists, relisted, spin, overlay, up, overlap, def, defs, namesake>>
BY DEF Asks, RemoveKey, ComposeUpKey, ToggleKey, CancelKey, commands, composes, viewer
LEMMA ViewsLeave ==
    Views => UNCHANGED <<real, row, fold, filter, at, act, load, lists, relisted, popup, asked, spin, overlay, up, overlap>>
BY DEF Views, DefClose, DefKey, DefLoaded, commands, composes
LEMMA UpsLeave ==
    Ups => UNCHANGED <<real, row, fold, filter, at, act, load, lists, relisted, popup, asked, overlap, def, defs, namesake>>
BY DEF Ups, UpOpened, UpRead, UpEvent, UpDone, commands, viewer
LEMMA ActingLeaves ==
    Acting => UNCHANGED <<real, fold, filter, at, load, lists, relisted, asked, overlay, up, overlap, def, defs, namesake>>
BY DEF Acting, LifecycleKey, ConfirmRemove, composes, viewer

LEMMA StirsLeave ==
    Stirs => UNCHANGED <<row, fold, filter, at, act, relisted, popup, asked, spin, overlay, up, overlap, def, defs, namesake>>
BY DEF Stirs, ListAsked, StoreRead, Elsewhere, Advances, composes, viewer
LEMMA LandsLeaves ==
    Lands => UNCHANGED <<real, fold, filter, act, load, popup, asked, overlay, up, overlap, def, defs, namesake>>
BY DEF Lands, CommandsListed, composes, viewer

\* The definition viewer.
LEMMA DefKeeps ==
    ASSUME KeysInv, KeysNext
    PROVE  DefInv' /\ def' \in [open : BOOLEAN, project : Projects \cup {"none"}, shows : Projects \cup {"none", "loading"}]
           /\ defs' \subseteq Projects /\ namesake' \in BOOLEAN
<1>1. /\ def \in [open : BOOLEAN, project : Projects \cup {"none"}, shows : Projects \cup {"none", "loading"}]
      /\ defs \subseteq Projects /\ namesake \in BOOLEAN /\ DefInv
  BY DEF KeysInv, KeysType
<1>2. CASE UNCHANGED <<def, defs, namesake>>
  BY <1>1, <1>2 DEF DefInv
<1>3. CASE Views
  <2>1. CASE DefClose
    BY <1>1, <2>1 DEF DefClose, NoDef, DefInv
  <2>2. ASSUME NEW p \in Projects, DefKey(p)
        PROVE  DefInv' /\ def' \in [open : BOOLEAN, project : Projects \cup {"none"}, shows : Projects \cup {"none", "loading"}]
               /\ defs' \subseteq Projects /\ namesake' \in BOOLEAN
    BY <1>1, <2>2 DEF DefKey, DefInv
  <2>3. ASSUME NEW p \in Projects, DefLoaded(p)
        PROVE  DefInv' /\ def' \in [open : BOOLEAN, project : Projects \cup {"none"}, shows : Projects \cup {"none", "loading"}]
               /\ defs' \subseteq Projects /\ namesake' \in BOOLEAN
    BY <1>1, <2>3 DEF DefLoaded, DefInv, OwnViewer, viewer
  <2> QED BY <1>3, <2>1, <2>2, <2>3 DEF Views
<1>4. SpinnerTick \/ ConfirmUp \/ (\E i \in 1 .. MaxActs : ActionDone(i)) => UNCHANGED <<def, defs, namesake>>
  BY DEF SpinnerTick, ConfirmUp, ActionDone, viewer
<1> QED BY <1>2, <1>3, <1>4, KeysCases, SelectingLeaves, AsksLeave, UpsLeave, ActingLeaves, StirsLeave, LandsLeaves

\* The popup, and the selection over the visible rows.
LEMMA RowsVisible ==
    ASSUME NEW rs, NEW fd, NEW f
    PROVE  VisibleRows(rs, fd, f) \in Seq({"header", "k1", "k2"}) /\ Len(VisibleRows(rs, fd, f)) \in 0 .. 3
<1> DEFINE S == {"header", "k1", "k2"}
           h == IF Shown(rs, f, "k1") THEN <<"header">> ELSE <<>>
           k == IF Shown(rs, f, "k1") /\ (f # "all" \/ ~fd) THEN <<"k1">> ELSE <<>>
           l == IF Shown(rs, f, "k2") THEN <<"k2">> ELSE <<>>
<1>0. /\ <<>> \in Seq(S) /\ Len(<<>>) \in 0 .. 1
      /\ \A e \in S : <<e>> \in Seq(S) /\ Len(<<e>>) \in 0 .. 1
  OBVIOUS
<1>1. h \in Seq(S) /\ Len(h) \in 0 .. 1
  BY <1>0
<1>2. k \in Seq(S) /\ Len(k) \in 0 .. 1
  BY <1>0
<1>3. l \in Seq(S) /\ Len(l) \in 0 .. 1
  BY <1>0
<1>4. VisibleRows(rs, fd, f) = h \o k \o l
  BY DEF VisibleRows
<1> HIDE DEF h, k, l, S
<1>5. h \o k \in Seq(S) /\ Len(h \o k) = Len(h) + Len(k)
  BY <1>1, <1>2
<1>6. (h \o k) \o l \in Seq(S) /\ Len((h \o k) \o l) = Len(h) + Len(k) + Len(l)
  BY <1>1, <1>2, <1>3, <1>5
<1>7. Len(h) + Len(k) + Len(l) \in 0 .. 3
  <2>1. \A a, b, c \in 0 .. 1 : a + b + c \in 0 .. 3
    OBVIOUS
  <2> QED BY <1>1, <1>2, <1>3, <2>1
<1> QED BY <1>4, <1>6, <1>7 DEF S

LEMMA SameVisible ==
    ASSUME NEW rs, NEW rt, NEW fd, NEW f, rs["k1"].st = rt["k1"].st, rs["k2"].st = rt["k2"].st
    PROVE  VisibleRows(rs, fd, f) = VisibleRows(rt, fd, f)
BY DEF VisibleRows, Shown

LEMMA ClampedFits ==
    ASSUME NEW rs, NEW fd, NEW f, NEW i \in 1 .. 3
    PROVE  /\ Clamped(rs, fd, f, i) \in 1 .. 3
           /\ VisibleRows(rs, fd, f) = <<>> \/ Clamped(rs, fd, f, i) <= Len(VisibleRows(rs, fd, f))
BY RowsVisible DEF Clamped

LEMMA SelectionKeeps ==
    ASSUME KeysInv, KeysNext
    PROVE  SelectionInRange' /\ at' \in 1 .. 3 /\ fold' \in BOOLEAN /\ filter' \in {"all"} \cup KCmds
<1>1. SelectionInRange /\ at \in 1 .. 3 /\ fold \in BOOLEAN /\ filter \in {"all"} \cup KCmds
  BY DEF KeysInv, KeysType
<1>2. ASSUME UNCHANGED <<at, fold, filter>>, row'["k1"].st = row["k1"].st, row'["k2"].st = row["k2"].st
      PROVE  SelectionInRange' /\ at' \in 1 .. 3 /\ fold' \in BOOLEAN /\ filter' \in {"all"} \cup KCmds
  <2>1. VisibleRows(row', fold, filter) = VisibleRows(row, fold, filter)
    BY <1>2, SameVisible
  <2> QED BY <1>1, <1>2, <2>1 DEF SelectionInRange, Visible
<1>3. CASE Selecting
  <2>1. row' = row
    BY <1>3, SelectingLeaves
  <2>2. ASSUME NEW d \in {-1, 1}, MoveKey(d)
        PROVE  SelectionInRange' /\ at' \in 1 .. 3 /\ fold' \in BOOLEAN /\ filter' \in {"all"} \cup KCmds
    <3>1. UNCHANGED <<row, fold, filter>> /\ Visible # <<>>
          /\ at' = IF at + d < 1 THEN 1 ELSE IF at + d > Len(Visible) THEN Len(Visible) ELSE at + d
      BY <2>2 DEF MoveKey
    <3>2. Len(Visible) \in 1 .. 3
      BY <3>1, RowsVisible DEF Visible
    <3>3. at' \in 1 .. Len(Visible)
      BY <1>1, <3>1, <3>2
    <3>4. Visible' = Visible
      BY <3>1 DEF Visible
    <3>5. at' <= Len(Visible') /\ at' \in 1 .. 3
      <4> DEFINE n == Len(Visible)
      <4>1. n \in 1 .. 3 /\ at' \in 1 .. n
        BY <3>2, <3>3
      <4> HIDE DEF n
      <4>2. at' <= n /\ at' \in 1 .. 3
        BY <4>1
      <4> QED BY <3>4, <4>2 DEF n
    <3> QED BY <1>1, <3>1, <3>5 DEF SelectionInRange
  <2>3. CASE FoldKey
    <3>1. /\ fold' = ~fold /\ filter' = filter /\ at' = Clamped(row, ~fold, filter, at)
      BY <2>3 DEF FoldKey
    <3> QED BY <1>1, <2>1, <3>1, ClampedFits DEF SelectionInRange, Visible
  <2>4. ASSUME NEW f \in {"all"} \cup KCmds, FilterKey(f)
        PROVE  SelectionInRange' /\ at' \in 1 .. 3 /\ fold' \in BOOLEAN /\ filter' \in {"all"} \cup KCmds
    <3>1. fold' = fold /\ filter' = f /\ at' = Clamped(row, fold, f, at)
      BY <2>4 DEF FilterKey
    <3> QED BY <1>1, <2>1, <3>1, ClampedFits DEF SelectionInRange, Visible
  <2> QED BY <1>3, <2>2, <2>3, <2>4 DEF Selecting
<1>4. CASE Lands
  <2>0. PICK l \in lists : CommandsListed(l)
    BY <1>4 DEF Lands
  <2> DEFINE rs == [c \in KCmds |-> [st |-> l[c], pending |-> "none"]]
             vs == VisibleRows(rs, fold, filter)
  <2>1. UNCHANGED <<fold, filter>> /\ row' = rs /\ at' = Reselected(rs, Selected)
    BY <2>0 DEF CommandsListed
  <2> HIDE DEF rs
  <2>2. CASE Selected \in KCmds /\ \E i \in 1 .. Len(vs) : vs[i] = Selected
    <3>1. at' = IndexOf(vs, Selected)
      BY <2>1, <2>2 DEF Reselected
    <3>2. at' \in 1 .. Len(vs)
      BY <2>2, <3>1 DEF IndexOf
    <3>3. Len(vs) \in 0 .. 3 /\ Visible' = vs
      BY <2>1, RowsVisible DEF Visible
    <3> DEFINE n == Len(vs)
    <3>4. n \in 0 .. 3 /\ at' \in 1 .. n
      BY <3>2, <3>3
    <3> HIDE DEF n
    <3>5. at' <= n /\ at' \in 1 .. 3
      BY ONLY <3>4
    <3>6. at' <= Len(Visible')
      BY <3>3, <3>5 DEF n
    <3> QED BY <1>1, <2>1, <3>5, <3>6 DEF SelectionInRange
  <2>3. CASE ~(Selected \in KCmds /\ \E i \in 1 .. Len(vs) : vs[i] = Selected)
    <3>1. at' = Clamped(rs, fold, filter, at)
      BY <2>1, <2>3 DEF Reselected
    <3> QED BY <1>1, <2>1, <3>1, ClampedFits DEF SelectionInRange, Visible
  <2> QED BY <2>2, <2>3
<1>5. ASSUME Acting \/ (\E i \in 1 .. MaxActs : ActionDone(i))
      PROVE  UNCHANGED <<at, fold, filter>> /\ row'["k1"].st = row["k1"].st /\ row'["k2"].st = row["k2"].st
  <2>1. row \in [KCmds -> [st : KStates, pending : {"none", "start", "stop", "restart", "remove"}]]
    BY DEF KeysInv, KeysType
  <2>2. CASE Acting
    <3>1. UNCHANGED <<at, fold, filter>>
      BY <2>2, ActingLeaves
    <3>2. row' = row \/ \E c \in KCmds, v \in {"start", "stop", "restart", "remove"} : row' = [row EXCEPT ![c].pending = v]
      BY <2>2 DEF Acting, LifecycleKey, ConfirmRemove
    <3> QED BY <2>1, <3>1, <3>2 DEF KCmds
  <2>3. CASE \E i \in 1 .. MaxActs : ActionDone(i)
    BY <2>1, <2>3 DEF ActionDone, KCmds
  <2> QED BY <1>5, <2>2, <2>3
<1>6. SpinnerTick \/ ConfirmUp => UNCHANGED <<row, at, fold, filter>>
  BY DEF SpinnerTick, ConfirmUp, commands
<1> QED BY <1>2, <1>3, <1>4, <1>5, <1>6, KeysCases, AsksLeave, ViewsLeave, UpsLeave, StirsLeave

\* The popup and the rows: their types, what the popup is about, the markers and
\* the actions behind them.
RowType == [st : KStates, pending : {"none", "start", "stop", "restart", "remove"}]
ActType == [verb : {"none", "start", "stop", "restart", "remove"}, cmd : KCmds \cup {"none"}, force : BOOLEAN]

LEMMA ActsHold ==
    ASSUME KeysInv
    PROVE  /\ row \in [KCmds -> RowType] /\ act \in [1 .. MaxActs -> ActType] /\ relisted \subseteq KCmds
           /\ real \in [KCmds -> KStates] /\ lists \subseteq [KCmds -> KStates] /\ load \in {"none", "asked"}
           /\ \A i \in 1 .. MaxActs : act[i] = NoAct \/ act[i].cmd \in KCmds
           /\ MarkerMeansWork /\ LifeInv
BY DEF KeysInv, KeysType, AskInv, RowType, ActType

LEMMA BeginsOne ==
    ASSUME NEW verb, NEW c, NEW force, Begins(verb, c, force)
    PROVE  \E i \in 1 .. MaxActs : act[i] = NoAct /\ act' = [act EXCEPT ![i] = [verb |-> verb, cmd |-> c, force |-> force]]
<1>1. (CHOOSE i \in FreeActs : TRUE) \in FreeActs
  BY DEF Begins
<1> QED BY <1>1 DEF Begins, FreeActs

LEMMA ActingKeeps ==
    ASSUME KeysInv, Acting
    PROVE  /\ row' \in [KCmds -> RowType] /\ act' \in [1 .. MaxActs -> ActType]
           /\ \A i \in 1 .. MaxActs : act'[i] = NoAct \/ act'[i].cmd \in KCmds
           /\ MarkerMeansWork' /\ LifeInv'
<1>1. PICK c \in KCmds, verb \in {"start", "stop", "restart", "remove"}, force \in BOOLEAN :
         /\ row' = [row EXCEPT ![c].pending = verb] /\ Begins(verb, c, force)
         /\ verb # "remove" => row[c].pending = "none"
  <2>1. ASSUME NEW verb \in {"start", "stop", "restart"}, LifecycleKey(verb)
        PROVE  /\ Selected \in KCmds /\ row' = [row EXCEPT ![Selected].pending = verb] /\ Begins(verb, Selected, FALSE)
               /\ row[Selected].pending = "none"
    BY <2>1 DEF LifecycleKey, NotPending
  <2>2. CASE ConfirmRemove
    <3>1. popup.target \in KCmds
      BY <2>2 DEF ConfirmRemove, KeysInv, AskInv
    <3>2. row' = [row EXCEPT ![popup.target].pending = "remove"] /\ Begins("remove", popup.target, popup.kind = "force")
      BY <2>2, <3>1 DEF ConfirmRemove, PopupTarget
    <3> QED BY <3>1, <3>2
  <2> QED BY <2>1, <2>2 DEF Acting
<1>2. PICK i \in 1 .. MaxActs : act[i] = NoAct /\ act' = [act EXCEPT ![i] = [verb |-> verb, cmd |-> c, force |-> force]]
  BY <1>1, BeginsOne
<1>3. /\ row \in [KCmds -> RowType] /\ act \in [1 .. MaxActs -> ActType] /\ MarkerMeansWork /\ LifeInv
      /\ \A j \in 1 .. MaxActs : act[j] = NoAct \/ act[j].cmd \in KCmds
  BY ActsHold
<1>4. /\ act' \in [1 .. MaxActs -> ActType] /\ act'[i].cmd = c /\ act'[i].verb = verb
      /\ \A j \in 1 .. MaxActs \ {i} : act'[j] = act[j]
  BY <1>2, <1>3 DEF ActType
<1>5. /\ row' \in [KCmds -> RowType] /\ row'[c].pending = verb /\ \A e \in KCmds \ {c} : row'[e] = row[e]
  BY <1>1, <1>3 DEF RowType
<1>6. \A j \in 1 .. MaxActs : act'[j] = NoAct \/ act'[j].cmd \in KCmds
  BY <1>3, <1>4
<1>7. MarkerMeansWork'
  <2> SUFFICES ASSUME NEW e \in KCmds, row'[e].pending # "none" PROVE \E j \in 1 .. MaxActs : act'[j].cmd = e
    BY DEF MarkerMeansWork
  <2>1. CASE e = c
    BY <1>4, <2>1
  <2>2. CASE e # c
    <3>1. PICK j \in 1 .. MaxActs : act[j].cmd = e
      BY <1>3, <1>5, <2>2 DEF MarkerMeansWork
    <3>2. j # i
      BY <1>2, <3>1 DEF NoAct, KCmds
    <3> QED BY <1>4, <3>1, <3>2
  <2> QED BY <2>1, <2>2
<1>8. LifeInv'
  <2>1. relisted' = relisted
    BY ActingLeaves
  <2>2. ASSUME NEW e \in KCmds \ relisted, NEW j \in 1 .. MaxActs, act'[j].cmd = e, act'[j].verb # "remove",
               NEW k \in 1 .. MaxActs, act'[k].cmd = e, act'[k].verb # "remove"
        PROVE  row'[e].pending # "none" /\ j = k
    <3>1. CASE e = c /\ (j = i \/ k = i)
      <4>1. row[c].pending = "none"
        BY <1>1, <1>4, <2>2, <3>1
      <4>2. \A n \in 1 .. MaxActs : ~(act[n].cmd = e /\ act[n].verb # "remove")
        BY <1>3, <2>2, <3>1, <4>1 DEF LifeInv, Lifecycle
      <4> QED BY <1>1, <1>4, <1>5, <2>2, <3>1, <4>2
    <3>2. CASE e # c \/ (j # i /\ k # i)
      <4>1. j # i /\ k # i
        BY <1>4, <2>2, <3>2
      <4>2. row[e].pending # "none" /\ j = k
        BY <1>3, <1>4, <2>2, <4>1 DEF LifeInv, Lifecycle
      <4> QED BY <1>1, <1>5, <4>2
    <3> QED BY <3>1, <3>2
  <2> QED BY <2>1, <2>2 DEF LifeInv, Lifecycle
<1> QED BY <1>4, <1>5, <1>6, <1>7, <1>8

LEMMA DoneKeeps ==
    ASSUME KeysInv, NEW i \in 1 .. MaxActs, ActionDone(i)
    PROVE  /\ row' \in [KCmds -> RowType] /\ act' \in [1 .. MaxActs -> ActType]
           /\ \A j \in 1 .. MaxActs : act'[j] = NoAct \/ act'[j].cmd \in KCmds
           /\ real' \in [KCmds -> KStates] /\ relisted' \subseteq KCmds
           /\ MarkerMeansWork' /\ LifeInv'
<1> DEFINE c == act[i].cmd
<1>1. /\ row \in [KCmds -> RowType] /\ act \in [1 .. MaxActs -> ActType] /\ MarkerMeansWork /\ LifeInv
      /\ relisted \subseteq KCmds /\ real \in [KCmds -> KStates]
      /\ \A j \in 1 .. MaxActs : act[j] = NoAct \/ act[j].cmd \in KCmds
  BY ActsHold
<1>2. c \in KCmds
  BY <1>1 DEF ActionDone
<1>3. /\ real' \in {real, [real EXCEPT ![c] = After(act[i])]} /\ act' = [act EXCEPT ![i] = NoAct]
      /\ row' = [e \in KCmds |-> IF e = c THEN [row[e] EXCEPT !.pending = "none"] ELSE row[e]]
      /\ relisted' = IF \E j \in 1 .. MaxActs : j # i /\ act[j].cmd = c THEN relisted \cup {c} ELSE relisted \ {c}
  BY DEF ActionDone, ClearsOwn
<1>4. After(act[i]) \in KStates
  BY <1>1, <1>2 DEF After, KStates
<1>5. real' \in [KCmds -> KStates] /\ relisted' \subseteq KCmds
  BY <1>1, <1>2, <1>3, <1>4
<1>6. NoAct \in ActType /\ NoAct.cmd = "none"
  BY DEF NoAct, ActType
<1>7. act' \in [1 .. MaxActs -> ActType] /\ act'[i] = NoAct /\ \A j \in 1 .. MaxActs \ {i} : act'[j] = act[j]
  BY <1>1, <1>3, <1>6
<1> HIDE DEF c
<1>8. row' \in [KCmds -> RowType] /\ row'[c].pending = "none" /\ \A e \in KCmds \ {c} : row'[e] = row[e]
  BY <1>1, <1>2, <1>3 DEF RowType
<1>9. \A j \in 1 .. MaxActs : act'[j] = NoAct \/ act'[j].cmd \in KCmds
  BY <1>1, <1>7
<1>10. MarkerMeansWork'
  <2> SUFFICES ASSUME NEW e \in KCmds, row'[e].pending # "none" PROVE \E j \in 1 .. MaxActs : act'[j].cmd = e
    BY DEF MarkerMeansWork
  <2>1. e # c
    BY <1>8
  <2>2. PICK j \in 1 .. MaxActs : act[j].cmd = e
    BY <1>1, <1>8, <2>1 DEF MarkerMeansWork
  <2>3. j # i
    BY <2>1, <2>2 DEF c
  <2> QED BY <1>7, <2>2, <2>3
<1>11. LifeInv'
  <2> SUFFICES ASSUME NEW e \in KCmds \ relisted', NEW j \in 1 .. MaxActs, act'[j].cmd = e, act'[j].verb # "remove"
               PROVE  row'[e].pending # "none"
                      /\ \A k \in 1 .. MaxActs : act'[k].cmd = e /\ act'[k].verb # "remove" => j = k
    BY DEF LifeInv, Lifecycle
  <2>1. j # i /\ act[j].cmd = e /\ act[j].verb # "remove"
    BY <1>6, <1>7 DEF KCmds
  <2>2. e # c /\ e \notin relisted
    BY <1>3, <2>1
  <2>3. /\ row[e].pending # "none"
        /\ \A k \in 1 .. MaxActs : act[k].cmd = e /\ act[k].verb # "remove" => j = k
    BY <1>1, <2>1, <2>2 DEF LifeInv, Lifecycle
  <2>4. \A k \in 1 .. MaxActs : act'[k].cmd = e => act'[k] = act[k]
    BY <1>6, <1>7 DEF KCmds
  <2> QED BY <1>8, <2>2, <2>3, <2>4
<1> QED BY <1>5, <1>7, <1>8, <1>9, <1>10, <1>11

LEMMA ListedKeeps ==
    ASSUME KeysInv, NEW l \in lists, CommandsListed(l)
    PROVE  row' \in [KCmds -> RowType] /\ relisted' \subseteq KCmds /\ MarkerMeansWork' /\ LifeInv'
<1>1. /\ row' = [c \in KCmds |-> [st |-> l[c], pending |-> "none"]] /\ act' = act
      /\ relisted' = relisted \cup {c \in KCmds : \E i \in 1 .. MaxActs : act[i].cmd = c}
  BY DEF CommandsListed
<1>2. row' \in [KCmds -> RowType] /\ \A c \in KCmds : row'[c].pending = "none"
  <2>1. l \in [KCmds -> KStates]
    BY ActsHold
  <2> QED BY <1>1, <2>1 DEF RowType
<1> QED BY <1>1, <1>2, ActsHold DEF MarkerMeansWork, LifeInv, Lifecycle

LEMMA StirsKeep ==
    ASSUME KeysInv, Stirs
    PROVE  real' \in [KCmds -> KStates] /\ lists' \subseteq [KCmds -> KStates] /\ load' \in {"none", "asked"}
<1>0. real \in [KCmds -> KStates] /\ lists \subseteq [KCmds -> KStates] /\ load \in {"none", "asked"}
  BY ActsHold
<1>1. CASE ListAsked
  <2>1. UNCHANGED <<real, lists>> /\ load' = "asked"
    BY <1>1 DEF ListAsked
  <2> QED BY <1>0, <2>1
<1>2. CASE StoreRead
  <2>1. real' = real /\ lists' = lists \cup {real} /\ load' = "none"
    BY <1>2 DEF StoreRead
  <2> QED BY <1>0, <2>1
<1>3. ASSUME NEW c \in KCmds, Elsewhere(c) \/ Advances(c)
      PROVE  real' \in [KCmds -> KStates] /\ lists' \subseteq [KCmds -> KStates] /\ load' \in {"none", "asked"}
  <2>1. UNCHANGED <<lists, load>> /\ \E st \in KStates : real' = [real EXCEPT ![c] = st]
    BY <1>3 DEF Elsewhere, Advances, KStates
  <2> QED BY <1>0, <2>1
<1> QED BY <1>1, <1>2, <1>3 DEF Stirs

LEMMA RowsKeep ==
    ASSUME KeysInv, KeysNext
    PROVE  /\ row' \in [KCmds -> RowType] /\ act' \in [1 .. MaxActs -> ActType]
           /\ \A i \in 1 .. MaxActs : act'[i] = NoAct \/ act'[i].cmd \in KCmds
           /\ real' \in [KCmds -> KStates] /\ lists' \subseteq [KCmds -> KStates]
           /\ relisted' \subseteq KCmds /\ load' \in {"none", "asked"}
           /\ MarkerMeansWork' /\ LifeInv'
<1> DEFINE Goal ==
           /\ row' \in [KCmds -> RowType] /\ act' \in [1 .. MaxActs -> ActType]
           /\ \A i \in 1 .. MaxActs : act'[i] = NoAct \/ act'[i].cmd \in KCmds
           /\ real' \in [KCmds -> KStates] /\ lists' \subseteq [KCmds -> KStates]
           /\ relisted' \subseteq KCmds /\ load' \in {"none", "asked"}
           /\ MarkerMeansWork' /\ LifeInv'
<1>1. ASSUME UNCHANGED <<row, act, relisted>>, load' \in {"none", "asked"}, real' \in [KCmds -> KStates],
             lists' \subseteq [KCmds -> KStates]
      PROVE  Goal
  BY <1>1, ActsHold DEF MarkerMeansWork, LifeInv, Lifecycle
<1>2. CASE Acting
  BY <1>2, ActingKeeps, ActingLeaves, ActsHold
<1>3. ASSUME NEW i \in 1 .. MaxActs, ActionDone(i) PROVE Goal
  <2>1. load' \in {"none", "asked"} /\ lists' = lists
    BY <1>3, ActsHold DEF ActionDone
  <2> QED BY <1>3, <2>1, DoneKeeps, ActsHold
<1>4. ASSUME NEW l \in lists, CommandsListed(l) PROVE Goal
  <2>1. UNCHANGED <<act, real, load>> /\ lists' \subseteq lists
    BY <1>4 DEF CommandsListed
  <2> QED BY <1>4, <2>1, ListedKeeps, ActsHold
<1>5. CASE Stirs
  <2>1. UNCHANGED <<row, act, relisted>>
    BY <1>5, StirsLeave
  <2> QED BY <1>1, <1>5, <2>1, StirsKeep
<1>7. SpinnerTick \/ ConfirmUp => UNCHANGED <<row, act, relisted, load, lists, real>>
  BY DEF SpinnerTick, ConfirmUp, commands
<1>8. Selecting \/ Asks \/ Views \/ Ups => UNCHANGED <<row, act, relisted, load, lists, real>>
  BY SelectingLeaves, AsksLeave, ViewsLeave, UpsLeave
<1>9. UNCHANGED <<row, act, relisted, load, lists, real>> => Goal
  BY <1>1, ActsHold
<1> HIDE DEF Goal
<1>11. Goal
  BY <1>2, <1>3, <1>4, <1>5, <1>7, <1>8, <1>9, KeysCases DEF Goal, Lands
<1> QED BY <1>11 DEF Goal

PopupType == [kind : {"none", "remove", "force", "up"}, target : KCmds \cup Projects \cup {"none"}, yes : BOOLEAN]
PopupInv ==
    /\ popup.kind \in {"remove", "force"} => popup.target \in KCmds /\ asked = popup.target
    /\ popup.kind = "up" => popup.target \in Projects

LEMMA PopupKeeps ==
    ASSUME KeysInv, KeysNext
    PROVE  popup' \in PopupType /\ PopupInv'
<1>1. popup \in PopupType /\ PopupInv
  BY DEF KeysInv, KeysType, AskInv, PopupType, PopupInv
<1>2. NoPopup \in PopupType /\ NoPopup.kind = "none"
  BY DEF NoPopup, PopupType
<1>3. CASE UNCHANGED <<popup, asked>>
  BY <1>1, <1>3 DEF PopupInv
<1>4. CASE popup' = NoPopup
  BY <1>2, <1>4 DEF PopupInv
<1>5. CASE RemoveKey
  <2>1. PICK k \in {"remove", "force"} : popup' = [kind |-> k, target |-> Selected, yes |-> FALSE]
    BY <1>5 DEF RemoveKey
  <2>2. asked' = Selected /\ Selected \in KCmds
    BY <1>5 DEF RemoveKey
  <2> QED BY <2>1, <2>2 DEF PopupType, PopupInv
<1>6. ASSUME NEW p \in Projects, ComposeUpKey(p) PROVE popup' \in PopupType /\ PopupInv'
  BY <1>6 DEF ComposeUpKey, PopupType, PopupInv
<1>7. CASE ToggleKey
  <2>1. popup' = [popup EXCEPT !.yes = ~@] /\ asked' = asked
    BY <1>7 DEF ToggleKey
  <2>2. popup' \in PopupType /\ popup'.kind = popup.kind /\ popup'.target = popup.target
    BY <1>1, <2>1 DEF PopupType
  <2> QED BY <1>1, <2>1, <2>2 DEF PopupInv
<1>8. CancelKey \/ ConfirmRemove \/ ConfirmUp => popup' = NoPopup
  BY DEF CancelKey, ConfirmRemove, ConfirmUp
<1>9. SpinnerTick \/ (\E i \in 1 .. MaxActs : ActionDone(i))
      \/ (\E verb \in {"start", "stop", "restart"} : LifecycleKey(verb)) => UNCHANGED <<popup, asked>>
  BY DEF SpinnerTick, ActionDone, LifecycleKey
<1>10. Selecting \/ Views \/ Ups \/ Stirs \/ Lands => UNCHANGED <<popup, asked>>
  BY SelectingLeaves, ViewsLeave, UpsLeave, StirsLeave, LandsLeaves
<1>11. CASE Asks
  BY <1>4, <1>5, <1>6, <1>7, <1>8, <1>11 DEF Asks
<1> QED BY <1>3, <1>4, <1>8, <1>9, <1>10, <1>11, KeysCases DEF Acting

\* The spinner.
LEMMA Starts ==
    ASSUME SpinInv, NEW rs, NEW o, spin' = MaybeStartSpinner(rs, o)
    PROVE  spin' \in [on : BOOLEAN, ticks : {0, 1}] /\ (spin'.on <=> spin'.ticks = 1) /\ (InProgress(rs, o) => spin'.on)
<1>1. CASE spin.on \/ ~InProgress(rs, o)
  BY <1>1 DEF SpinInv, MaybeStartSpinner
<1>2. CASE ~(spin.on \/ ~InProgress(rs, o))
  <2>1. spin.ticks = 0
    BY <1>2 DEF SpinInv
  <2>2. spin' = [on |-> TRUE, ticks |-> 1]
    BY <1>2, <2>1 DEF MaybeStartSpinner
  <2> QED BY <2>2
<1> QED BY <1>1, <1>2

LEMMA SpinKeeps ==
    ASSUME KeysInv, KeysNext
    PROVE  SpinInv'
<1>1. SpinInv
  BY DEF KeysInv
<1>2. CASE spin' = spin /\ (InProgress(row', overlay') => InProgress(row, overlay))
  BY <1>1, <1>2 DEF SpinInv, InProgress, AnyPending
<1>3. CASE spin' = MaybeStartSpinner(row', overlay')
  <2>1. /\ spin' \in [on : BOOLEAN, ticks : {0, 1}] /\ (spin'.on <=> spin'.ticks = 1)
        /\ InProgress(row', overlay') => spin'.on
    BY <1>1, <1>3, Starts
  <2> QED BY <2>1 DEF SpinInv, InProgress, AnyPending
<1>4. CASE Acting
  <2>1. spin' = MaybeStartSpinner(row', overlay)
    BY <1>4 DEF Acting, LifecycleKey, ConfirmRemove
  <2> QED BY <1>3, <1>4, <2>1, ActingLeaves
<1>5. CASE Lands
  <2>1. spin' = MaybeStartSpinner(row', overlay) /\ overlay' = overlay
    BY <1>5 DEF Lands, CommandsListed, composes
  <2> QED BY <1>3, <2>1
<1>6. CASE SpinnerTick
  <2>1. /\ UNCHANGED <<row, overlay>> /\ spin.ticks > 0
        /\ spin' = IF InProgress(row, overlay) THEN spin ELSE [on |-> FALSE, ticks |-> spin.ticks - 1]
    BY <1>6 DEF SpinnerTick, commands, composes
  <2>2. spin.ticks = 1
    BY <1>1, <2>1 DEF SpinInv
  <2> QED BY <1>1, <2>1, <2>2 DEF SpinInv, InProgress, AnyPending
<1>7. ASSUME NEW i \in 1 .. MaxActs, ActionDone(i)
      PROVE  spin' = spin /\ (InProgress(row', overlay') => InProgress(row, overlay))
  <2>1. spin' = spin /\ overlay' = overlay
    BY <1>7 DEF ActionDone, composes
  <2>2. row \in [KCmds -> RowType]
    BY ActsHold
  <2>3. row' = [c \in KCmds |-> IF c = ClearsOwn(act[i].cmd) THEN [row[c] EXCEPT !.pending = "none"] ELSE row[c]]
    BY <1>7 DEF ActionDone
  <2>4. \A c \in KCmds : row'[c].st = row[c].st /\ row'[c].pending \in {row[c].pending, "none"}
    BY <2>2, <2>3 DEF RowType
  <2> QED BY <2>1, <2>4 DEF InProgress
<1>8. CASE Ups
  <2>1. row' = row
    BY <1>8, UpsLeave
  <2>2. ASSUME NEW u \in 1 .. MaxUps, UpOpened(u) PROVE SpinInv'
    <3>1. (spin' = spin /\ overlay' = overlay) \/ spin' = MaybeStartSpinner(row, overlay')
      BY <2>2 DEF UpOpened
    <3> QED BY <1>2, <1>3, <2>1, <3>1
  <2>3. ASSUME NEW u \in 1 .. MaxUps, UpRead(u) PROVE SpinInv'
    BY <1>2, <2>1, <2>3 DEF UpRead
  <2>4. ASSUME NEW u \in 1 .. MaxUps, UpEvent(u) PROVE SpinInv'
    <3>1. (spin' = spin /\ overlay' = overlay) \/ spin' = MaybeStartSpinner(row, overlay')
      BY <2>4 DEF UpEvent
    <3> QED BY <1>2, <1>3, <2>1, <3>1
  <2>5. ASSUME NEW u \in 1 .. MaxUps, UpDone(u) PROVE SpinInv'
    <3>1. spin' = spin /\ (overlay' = overlay \/ overlay' = NoLay)
      BY <2>5 DEF UpDone
    <3>2. InProgress(row, NoLay) => InProgress(row, overlay)
      BY DEF InProgress, AnyPending, NoLay
    <3> QED BY <1>2, <2>1, <3>1, <3>2
  <2> QED BY <1>8, <2>2, <2>3, <2>4, <2>5 DEF Ups
<1>9. ConfirmUp => UNCHANGED <<row, spin, overlay>>
  BY DEF ConfirmUp, commands, composes
<1>10. Selecting \/ Asks \/ Views \/ Stirs => UNCHANGED <<row, spin, overlay>>
  BY SelectingLeaves, AsksLeave, ViewsLeave, StirsLeave
<1>11. CASE UNCHANGED <<row, spin, overlay>>
  BY <1>2, <1>11
<1>12. ASSUME NEW i \in 1 .. MaxActs, ActionDone(i) PROVE SpinInv'
  BY <1>2, <1>7, <1>12
<1> QED BY <1>4, <1>5, <1>6, <1>8, <1>9, <1>10, <1>11, <1>12, KeysCases

\* The compose ups and their overlay, as the states of both say it.
UpType == [project : Projects \cup {"none"}, st : UpStates, closed : BOOLEAN, reader : Nat, event : Nat, left : Nat]
LayType == [active : BOOLEAN, stream : 0 .. MaxUps, marks : [UpServices -> Marks]]
LayRead(o, z) ==
    /\ o.active => o.stream # 0 /\ z[o.stream].st # "unused"
    /\ \A u \in 1 .. MaxUps : z[u].st = "unused" => z[u].reader + z[u].event = 0
    /\ o.active => \E u \in 1 .. MaxUps :
           NameOf(z[u].project) = NameOf(z[o.stream].project) /\ z[u].reader + z[u].event > 0
LayAlone(o, z) ==
    /\ \A u, v \in 1 .. MaxUps : z[u].st \in {"opening", "open"} /\ z[v].st \in {"opening", "open"} => u = v
    /\ \A u \in 1 .. MaxUps :
          /\ z[u].st = "open" => o.active /\ o.stream = u /\ z[u].reader + z[u].event = 1
          /\ z[u].st # "open" => z[u].reader + z[u].event = 0
    /\ o.active => z[o.stream].st = "open"
LayInv(o, z, ov) ==
    /\ o \in LayType /\ z \in [1 .. MaxUps -> UpType] /\ ov \in BOOLEAN
    /\ LayRead(o, z) /\ (~ov => LayAlone(o, z))

LEMMA UpsHold ==
    ASSUME KeysInv
    PROVE  /\ LayInv(overlay, up, overlap)
           /\ overlay.active => overlay.stream \in 1 .. MaxUps
           /\ \A u \in 1 .. MaxUps : up[u].reader \in Nat /\ up[u].event \in Nat /\ up[u].left \in Nat
<1>1. overlay \in LayType /\ up \in [1 .. MaxUps -> UpType] /\ overlap \in BOOLEAN
  BY DEF KeysInv, KeysType, UpType, LayType
<1>2. LayRead(overlay, up) /\ (~overlap => LayAlone(overlay, up))
  BY DEF KeysInv, UpsInv, AloneInv, Reads, LayRead, LayAlone
<1>3. overlay.active => overlay.stream \in 1 .. MaxUps
  BY <1>1, <1>2, KeysAssumption DEF LayRead, LayType
<1>4. \A u \in 1 .. MaxUps : up[u].reader \in Nat /\ up[u].event \in Nat /\ up[u].left \in Nat
  BY <1>1 DEF UpType
<1> QED BY <1>1, <1>2, <1>3, <1>4 DEF LayInv

\* One up is replaced by another of its state.
LEMMA Replaces ==
    ASSUME NEW z \in [1 .. MaxUps -> UpType], NEW u \in 1 .. MaxUps, NEW n \in UpType
    PROVE  /\ [z EXCEPT ![u] = n] \in [1 .. MaxUps -> UpType] /\ [z EXCEPT ![u] = n][u] = n
           /\ \A v \in 1 .. MaxUps \ {u} : [z EXCEPT ![u] = n][v] = z[v]
OBVIOUS

LEMMA ConfirmUpKeeps ==
    ASSUME KeysInv, ConfirmUp
    PROVE  LayInv(overlay', up', overlap')
<1>0. /\ overlay \in LayType /\ up \in [1 .. MaxUps -> UpType] /\ overlap \in BOOLEAN
      /\ LayRead(overlay, up) /\ (~overlap => LayAlone(overlay, up))
      /\ overlay.active => overlay.stream \in 1 .. MaxUps
      /\ \A v \in 1 .. MaxUps : up[v].reader \in Nat /\ up[v].event \in Nat
  BY UpsHold DEF LayInv
<1> DEFINE n == [NoUp EXCEPT !.project = popup.target, !.st = "opening", !.left = MaxEvents]
<1>1. PICK u \in 1 .. MaxUps : up[u].st = "unused" /\ up' = [up EXCEPT ![u] = n]
  <2>1. FreeUps # {} /\ FreeUps \subseteq Nat
    BY KeysAssumption DEF ConfirmUp, FreeUps
  <2>2. \E u \in FreeUps : \A v \in FreeUps : u <= v
    BY <2>1, LeastNumber
  <2>3. (CHOOSE u \in FreeUps : \A v \in FreeUps : u <= v) \in FreeUps
    BY <2>2
  <2> QED BY <2>3 DEF ConfirmUp, FreeUps
<1>2. popup.target \in Projects
  BY DEF ConfirmUp, KeysInv, AskInv
<1>3. n \in UpType /\ n.st = "opening" /\ n.reader = 0 /\ n.event = 0
  BY <1>2, KeysAssumption DEF NoUp, UpType, UpStates
<1> HIDE DEF n
<1>4. up' \in [1 .. MaxUps -> UpType] /\ up'[u] = n /\ \A v \in 1 .. MaxUps \ {u} : up'[v] = up[v]
  BY <1>0, <1>1, <1>3, Replaces
<1>5. overlay' = overlay /\ overlap' = (overlap \/ \E v \in 1 .. MaxUps : up[v].st \in {"opening", "open"})
  BY DEF ConfirmUp
<1>6. overlap' \in BOOLEAN
  BY <1>0, <1>5
<1>7. LayRead(overlay, up')
  <2>1. overlay.active => overlay.stream # 0 /\ up'[overlay.stream].st # "unused"
    BY <1>0, <1>1, <1>3, <1>4 DEF LayRead
  <2>2. \A v \in 1 .. MaxUps : up'[v].st = "unused" => up'[v].reader + up'[v].event = 0
    BY <1>0, <1>3, <1>4 DEF LayRead
  <2>3. ASSUME overlay.active
        PROVE  \E v \in 1 .. MaxUps : NameOf(up'[v].project) = NameOf(up'[overlay.stream].project)
                                      /\ up'[v].reader + up'[v].event > 0
    <3>1. up'[overlay.stream] = up[overlay.stream]
      BY <1>0, <1>1, <1>4, <2>3 DEF LayRead
    <3>2. PICK v \in 1 .. MaxUps : NameOf(up[v].project) = NameOf(up[overlay.stream].project)
                                   /\ up[v].reader + up[v].event > 0
      BY <1>0, <2>3 DEF LayRead
    <3>3. v # u
      BY <1>0, <1>1, <3>2 DEF LayRead
    <3> QED BY <1>4, <3>1, <3>2, <3>3
  <2> QED BY <2>1, <2>2, <2>3 DEF LayRead
<1>8. ASSUME ~overlap' PROVE LayAlone(overlay, up')
  <2>1. ~overlap /\ \A v \in 1 .. MaxUps : up[v].st \notin {"opening", "open"}
    BY <1>5, <1>8
  <2>2. ~overlay.active
    BY <1>0, <2>1 DEF LayAlone
  <2> QED BY <1>0, <1>3, <1>4, <2>1, <2>2 DEF LayAlone
<1> QED BY <1>0, <1>4, <1>5, <1>6, <1>7, <1>8 DEF LayInv

LEMMA UpOpenedKeeps ==
    ASSUME KeysInv, NEW u \in 1 .. MaxUps, UpOpened(u)
    PROVE  LayInv(overlay', up', overlap')
<1>0. /\ overlay \in LayType /\ up \in [1 .. MaxUps -> UpType] /\ overlap \in BOOLEAN
      /\ LayRead(overlay, up) /\ (~overlap => LayAlone(overlay, up))
      /\ overlay.active => overlay.stream \in 1 .. MaxUps
      /\ \A v \in 1 .. MaxUps : up[v].reader \in Nat /\ up[v].event \in Nat
  BY UpsHold DEF LayInv
<1>1. overlap' = overlap /\ up[u].st = "opening"
  BY DEF UpOpened
<1>2. CASE up' = [up EXCEPT ![u] = [@ EXCEPT !.st = "failed"]] /\ overlay' = overlay
  <2> DEFINE n == [up[u] EXCEPT !.st = "failed"]
  <2>1. /\ n \in UpType /\ n.st = "failed" /\ n.project = up[u].project
        /\ n.reader = up[u].reader /\ n.event = up[u].event
    BY <1>0 DEF UpType, UpStates
  <2>2. up' = [up EXCEPT ![u] = n]
    BY <1>2
  <2> HIDE DEF n
  <2>3. up' \in [1 .. MaxUps -> UpType] /\ up'[u] = n /\ \A v \in 1 .. MaxUps \ {u} : up'[v] = up[v]
    BY <1>0, <2>1, <2>2, Replaces
  <2>4. /\ \A v \in 1 .. MaxUps : /\ up'[v].reader = up[v].reader /\ up'[v].event = up[v].event
                                  /\ up'[v].project = up[v].project
        /\ \A v \in 1 .. MaxUps : up'[v].st = up[v].st \/ (v = u /\ up'[v].st = "failed")
    BY <2>1, <2>3
  <2>5. LayRead(overlay, up')
    BY <1>0, <1>1, <2>4 DEF LayRead
  <2>6. ASSUME ~overlap PROVE LayAlone(overlay, up')
    BY <1>0, <1>1, <2>4, <2>6 DEF LayAlone
  <2> QED BY <1>0, <1>1, <1>2, <2>3, <2>5, <2>6 DEF LayInv
<1>3. CASE /\ up' = [up EXCEPT ![u] = [@ EXCEPT !.st = "open", !.reader = 1]]
           /\ overlay' = [active |-> TRUE, stream |-> u, marks |-> Unmarked]
  <2> DEFINE n == [up[u] EXCEPT !.st = "open", !.reader = 1]
  <2>1. /\ n \in UpType /\ n.st = "open" /\ n.reader = 1 /\ n.event = up[u].event
    BY <1>0 DEF UpType, UpStates
  <2>2. up' = [up EXCEPT ![u] = n]
    BY <1>3
  <2> HIDE DEF n
  <2>3. up' \in [1 .. MaxUps -> UpType] /\ up'[u] = n /\ \A v \in 1 .. MaxUps \ {u} : up'[v] = up[v]
    BY <1>0, <2>1, <2>2, Replaces
  <2>4. overlay' \in LayType /\ overlay'.active = TRUE /\ overlay'.stream = u
    BY <1>3, KeysAssumption DEF LayType, Unmarked, Marks
  <2>5. up'[u].reader + up'[u].event > 0 /\ u # 0
    BY <1>0, <2>1, <2>3
  <2>6. LayRead(overlay', up')
    BY <1>0, <2>1, <2>3, <2>4, <2>5 DEF LayRead
  <2>7. ASSUME ~overlap PROVE LayAlone(overlay', up')
    <3>1. up[u].reader + up[u].event = 0 /\ \A v \in 1 .. MaxUps \ {u} : up[v].st \notin {"opening", "open"}
      BY <1>0, <1>1, <2>7 DEF LayAlone
    <3>2. up'[u].reader + up'[u].event = 1
      BY <1>0, <2>1, <2>3, <3>1
    <3> QED BY <1>0, <2>1, <2>3, <2>4, <2>7, <3>1, <3>2 DEF LayAlone
  <2> QED BY <1>0, <1>1, <2>3, <2>4, <2>6, <2>7 DEF LayInv
<1> QED BY <1>2, <1>3 DEF UpOpened

LEMMA UpReadKeeps ==
    ASSUME KeysInv, NEW u \in 1 .. MaxUps, UpRead(u)
    PROVE  LayInv(overlay', up', overlap')
<1>0. /\ overlay \in LayType /\ up \in [1 .. MaxUps -> UpType] /\ overlap \in BOOLEAN
      /\ LayRead(overlay, up) /\ (~overlap => LayAlone(overlay, up))
      /\ overlay.active => overlay.stream \in 1 .. MaxUps
      /\ \A v \in 1 .. MaxUps : up[v].reader \in Nat /\ up[v].event \in Nat /\ up[v].left \in Nat
  BY UpsHold DEF LayInv
<1>1. UNCHANGED <<overlap, overlay>> /\ up[u].reader > 0 /\ up[u].left > 0
  BY DEF UpRead
<1> DEFINE n == [up[u] EXCEPT !.reader = @ - 1, !.event = @ + 1, !.left = @ - 1]
<1>2. up[u].reader - 1 \in Nat /\ up[u].event + 1 \in Nat /\ up[u].left - 1 \in Nat
  BY <1>0, <1>1
<1>3. /\ n \in UpType /\ n.st = up[u].st /\ n.project = up[u].project
      /\ n.reader = up[u].reader - 1 /\ n.event = up[u].event + 1
  BY <1>0, <1>2 DEF UpType
<1>4. up' = [up EXCEPT ![u] = n]
  BY DEF UpRead
<1> HIDE DEF n
<1>5. up' \in [1 .. MaxUps -> UpType] /\ up'[u] = n /\ \A v \in 1 .. MaxUps \ {u} : up'[v] = up[v]
  BY <1>0, <1>3, <1>4, Replaces
<1>6. up'[u].reader + up'[u].event = up[u].reader + up[u].event
  BY <1>0, <1>3, <1>5
<1>7. \A v \in 1 .. MaxUps : /\ up'[v].reader + up'[v].event = up[v].reader + up[v].event
                             /\ up'[v].st = up[v].st /\ up'[v].project = up[v].project
  BY <1>3, <1>5, <1>6
<1>8. LayRead(overlay, up')
  BY <1>0, <1>7 DEF LayRead
<1>9. ASSUME ~overlap PROVE LayAlone(overlay, up')
  <2>1. overlay.active => up'[overlay.stream].st = "open"
    BY <1>0, <1>7, <1>9 DEF LayAlone
  <2>2. \A v \in 1 .. MaxUps :
           /\ up'[v].st = "open" => overlay.active /\ overlay.stream = v /\ up'[v].reader + up'[v].event = 1
           /\ up'[v].st # "open" => up'[v].reader + up'[v].event = 0
    BY <1>0, <1>7, <1>9 DEF LayAlone
  <2>3. \A v, w \in 1 .. MaxUps : up'[v].st \in {"opening", "open"} /\ up'[w].st \in {"opening", "open"} => v = w
    BY <1>0, <1>7, <1>9 DEF LayAlone
  <2> QED BY <2>1, <2>2, <2>3 DEF LayAlone
<1> QED BY <1>0, <1>1, <1>5, <1>8, <1>9 DEF LayInv

LEMMA NotedKeeps ==
    ASSUME NEW o \in LayType, NEW n \in Noted(o)
    PROVE  n \in LayType /\ n.active = o.active /\ n.stream = o.stream
<1>1. n = o \/ \E t \in UpServices, m \in {"pending", "terminal"} : n = [o EXCEPT !.marks[t] = m]
  BY DEF Noted
<1> QED BY <1>1 DEF LayType, Marks

LEMMA UpEventKeeps ==
    ASSUME KeysInv, NEW u \in 1 .. MaxUps, UpEvent(u)
    PROVE  LayInv(overlay', up', overlap')
<1>0. /\ overlay \in LayType /\ up \in [1 .. MaxUps -> UpType] /\ overlap \in BOOLEAN
      /\ LayRead(overlay, up) /\ (~overlap => LayAlone(overlay, up))
      /\ overlay.active => overlay.stream \in 1 .. MaxUps
      /\ \A v \in 1 .. MaxUps : up[v].reader \in Nat /\ up[v].event \in Nat /\ up[v].left \in Nat
  BY UpsHold DEF LayInv
<1>1. overlap' = overlap /\ up[u].event > 0 /\ up[u].event - 1 \in Nat
  BY <1>0 DEF UpEvent
<1> DEFINE n == [up[u] EXCEPT !.event = @ - 1]
<1> DEFINE z == [up EXCEPT ![u] = n]
<1>2. /\ n \in UpType /\ n.st = up[u].st /\ n.project = up[u].project
      /\ n.reader = up[u].reader /\ n.event = up[u].event - 1
  BY <1>0, <1>1 DEF UpType
<1>3. z = [up EXCEPT ![u].event = @ - 1]
  OBVIOUS
<1> HIDE DEF n
<1>4. z \in [1 .. MaxUps -> UpType] /\ z[u] = n /\ \A v \in 1 .. MaxUps \ {u} : z[v] = up[v]
  BY <1>0, <1>2, Replaces
<1>5. IF Replaced(u) THEN up' = z /\ overlay' = overlay
      ELSE overlay' \in Noted(overlay) /\ up' = Rearmed(z)
  BY <1>3 DEF UpEvent
<1> HIDE DEF z
<1>6. up[u].st # "unused"
  BY <1>0, <1>1 DEF LayRead
<1>7. ~overlap => up[u].st = "open" /\ overlay.active /\ overlay.stream = u /\ up[u].reader + up[u].event = 1
  BY <1>0, <1>1 DEF LayAlone
<1>8. CASE Replaced(u)
  <2>1. overlap
    BY <1>0, <1>7, <1>8 DEF Replaced
  <2>2. up' = z /\ overlay' = overlay
    BY <1>5, <1>8
  <2>3. overlay.active => \E v \in 1 .. MaxUps : NameOf(z[v].project) = NameOf(z[overlay.stream].project)
                                                 /\ z[v].reader + z[v].event > 0
    <3> SUFFICES ASSUME overlay.active
                 PROVE  \E v \in 1 .. MaxUps : NameOf(z[v].project) = NameOf(z[overlay.stream].project)
                                               /\ z[v].reader + z[v].event > 0
      OBVIOUS
    <3>1. PICK v \in 1 .. MaxUps : NameOf(up[v].project) = NameOf(up[overlay.stream].project)
                                   /\ up[v].reader + up[v].event > 0
      BY <1>0 DEF LayRead
    <3>2. v # u
      BY <1>8, <3>1 DEF Replaced
    <3>3. z[overlay.stream].project = up[overlay.stream].project
      BY <1>0, <1>2, <1>4
    <3> QED BY <1>4, <3>1, <3>2, <3>3
  <2>4. \A v \in 1 .. MaxUps : z[v].st = "unused" => z[v].reader + z[v].event = 0
    BY <1>0, <1>2, <1>4, <1>6 DEF LayRead
  <2>5. overlay.active => overlay.stream # 0 /\ z[overlay.stream].st # "unused"
    BY <1>0, <1>2, <1>4 DEF LayRead
  <2> QED BY <1>0, <1>1, <1>4, <2>1, <2>2, <2>3, <2>4, <2>5 DEF LayInv, LayRead
<1>9. CASE ~Replaced(u)
  <2>1. overlay.active /\ overlay.stream \in 1 .. MaxUps
    BY <1>0, <1>9 DEF Replaced
  <2> DEFINE m == [z[overlay.stream] EXCEPT !.reader = @ + 1]
  <2>2. z[overlay.stream] \in UpType /\ z[overlay.stream].reader \in Nat /\ z[overlay.stream].event \in Nat
    BY <1>4, <2>1 DEF UpType
  <2>3. /\ m \in UpType /\ m.st = z[overlay.stream].st /\ m.project = z[overlay.stream].project
        /\ m.reader = z[overlay.stream].reader + 1 /\ m.event = z[overlay.stream].event
    BY <2>2 DEF UpType
  <2>4. up' = [z EXCEPT ![overlay.stream] = m]
    BY <1>5, <1>9 DEF Rearmed
  <2> HIDE DEF m
  <2>5. /\ up' \in [1 .. MaxUps -> UpType] /\ up'[overlay.stream] = m
        /\ \A v \in 1 .. MaxUps \ {overlay.stream} : up'[v] = z[v]
    BY <1>4, <2>1, <2>3, <2>4, Replaces
  <2>6. overlay' \in Noted(overlay)
    BY <1>5, <1>9
  <2>7. overlay' \in LayType /\ overlay'.active = overlay.active /\ overlay'.stream = overlay.stream
    BY <1>0, <2>6, NotedKeeps
  <2>8. m.reader + m.event > 0 /\ overlay.stream # 0
    BY <2>1, <2>2, <2>3
  <2>9. \A v \in 1 .. MaxUps : up'[v].st = up[v].st /\ up'[v].project = up[v].project
    BY <1>2, <1>4, <2>1, <2>3, <2>5
  <2>10. \A v \in 1 .. MaxUps : up'[v].st = "unused" => up'[v].reader + up'[v].event = 0
    BY <1>0, <1>4, <1>6, <2>1, <2>5, <2>9 DEF LayRead
  <2>11. LayRead(overlay', up')
    BY <1>0, <2>1, <2>5, <2>7, <2>8, <2>9, <2>10 DEF LayRead
  <2>12. ASSUME ~overlap PROVE LayAlone(overlay', up')
    <3>1. overlay.stream = u /\ up[u].reader + up[u].event = 1
      BY <1>7, <2>12
    <3>4. up'[u].reader = up[u].reader + 1 /\ up'[u].event = up[u].event - 1
      BY <1>2, <1>4, <2>3, <2>5, <3>1
    <3>5. up[u].reader \in Nat /\ up[u].event \in Nat
      BY <1>0
    <3>6. up'[u].reader + up'[u].event = 1
      BY <3>1, <3>4, <3>5
    <3>2. up'[u].reader + up'[u].event = 1 /\ \A v \in 1 .. MaxUps \ {u} : up'[v] = up[v]
      BY <1>4, <2>5, <3>1, <3>6
    <3>3. \A v \in 1 .. MaxUps : up'[v].reader + up'[v].event = up[v].reader + up[v].event
      BY <3>1, <3>2
    <3> QED BY <1>0, <2>7, <2>9, <2>12, <3>3 DEF LayAlone
  <2> QED BY <1>0, <1>1, <2>5, <2>7, <2>11, <2>12 DEF LayInv
<1> QED BY <1>8, <1>9

LEMMA UpDoneKeeps ==
    ASSUME KeysInv, NEW u \in 1 .. MaxUps, UpDone(u)
    PROVE  LayInv(overlay', up', overlap')
<1>0. /\ overlay \in LayType /\ up \in [1 .. MaxUps -> UpType] /\ overlap \in BOOLEAN
      /\ LayRead(overlay, up) /\ (~overlap => LayAlone(overlay, up))
      /\ overlay.active => overlay.stream \in 1 .. MaxUps
      /\ \A v \in 1 .. MaxUps : up[v].reader \in Nat /\ up[v].event \in Nat /\ up[v].left \in Nat
  BY UpsHold DEF LayInv
<1>1. overlap' = overlap /\ up[u].reader > 0 /\ up[u].reader - 1 \in Nat
  BY <1>0 DEF UpDone
<1> DEFINE n == [up[u] EXCEPT !.reader = @ - 1, !.st = "done"]
<1> DEFINE z == [up EXCEPT ![u] = n]
<1>2. /\ n \in UpType /\ n.st = "done" /\ n.project = up[u].project
      /\ n.reader = up[u].reader - 1 /\ n.event = up[u].event
  BY <1>0, <1>1 DEF UpType, UpStates
<1>3. z = [up EXCEPT ![u].reader = @ - 1, ![u].st = "done"]
  BY <1>0
<1> HIDE DEF n
<1>4. z \in [1 .. MaxUps -> UpType] /\ z[u] = n /\ \A v \in 1 .. MaxUps \ {u} : z[v] = up[v]
  BY <1>0, <1>2, Replaces
<1>5. IF Replaced(u) THEN up' = z /\ overlay' = overlay
      ELSE up' = [z EXCEPT ![overlay.stream].closed = TRUE] /\ overlay' = NoLay
  BY <1>3 DEF UpDone
<1> HIDE DEF z
<1>6. ~overlap => /\ up[u].st = "open" /\ overlay.active /\ overlay.stream = u /\ up[u].reader + up[u].event = 1
                  /\ \A v \in 1 .. MaxUps \ {u} : up[v].st # "open" /\ up[v].reader + up[v].event = 0
  BY <1>0, <1>1 DEF LayAlone
<1>7. \A v \in 1 .. MaxUps : z[v].st = "unused" => z[v].reader + z[v].event = 0
  BY <1>0, <1>2, <1>4 DEF LayRead
<1>8. CASE Replaced(u)
  <2>1. overlap
    BY <1>0, <1>6, <1>8 DEF Replaced
  <2>2. up' = z /\ overlay' = overlay
    BY <1>5, <1>8
  <2>3. ASSUME overlay.active
        PROVE  \E v \in 1 .. MaxUps : NameOf(z[v].project) = NameOf(z[overlay.stream].project)
                                      /\ z[v].reader + z[v].event > 0
    <3>1. PICK v \in 1 .. MaxUps : NameOf(up[v].project) = NameOf(up[overlay.stream].project)
                                   /\ up[v].reader + up[v].event > 0
      BY <1>0, <2>3 DEF LayRead
    <3>2. v # u
      BY <1>8, <2>3, <3>1 DEF Replaced
    <3>3. z[overlay.stream].project = up[overlay.stream].project
      BY <1>0, <1>2, <1>4, <2>3
    <3> QED BY <1>4, <3>1, <3>2, <3>3
  <2>4. overlay.active => overlay.stream # 0 /\ z[overlay.stream].st # "unused"
    BY <1>0, <1>2, <1>4 DEF LayRead
  <2> QED BY <1>0, <1>1, <1>4, <1>7, <2>1, <2>2, <2>3, <2>4 DEF LayInv, LayRead
<1>9. CASE ~Replaced(u)
  <2>1. overlay.stream \in 1 .. MaxUps
    BY <1>0, <1>9 DEF Replaced
  <2> DEFINE m == [z[overlay.stream] EXCEPT !.closed = TRUE]
  <2>2. z[overlay.stream] \in UpType
    BY <1>4, <2>1
  <2>3. /\ m \in UpType /\ m.st = z[overlay.stream].st
        /\ m.reader = z[overlay.stream].reader /\ m.event = z[overlay.stream].event
    BY <2>2 DEF UpType
  <2>4. up' = [z EXCEPT ![overlay.stream] = m] /\ overlay' = NoLay
    BY <1>5, <1>9
  <2> HIDE DEF m
  <2>5. /\ up' \in [1 .. MaxUps -> UpType] /\ up'[overlay.stream] = m
        /\ \A v \in 1 .. MaxUps \ {overlay.stream} : up'[v] = z[v]
    BY <1>4, <2>1, <2>3, <2>4, Replaces
  <2>6. \A v \in 1 .. MaxUps : up'[v].st = z[v].st /\ up'[v].reader = z[v].reader /\ up'[v].event = z[v].event
    BY <2>1, <2>3, <2>5
  <2>7. overlay' \in LayType /\ overlay'.active = FALSE
    BY <2>4, KeysAssumption DEF NoLay, LayType, Unmarked, Marks
  <2>8. LayRead(overlay', up')
    BY <1>7, <2>6, <2>7 DEF LayRead
  <2>9. ASSUME ~overlap PROVE LayAlone(overlay', up')
    <3>1. n.reader + n.event = 0
      BY <1>0, <1>1, <1>2, <1>6, <2>9
    <3>2. \A v \in 1 .. MaxUps : up'[v].st # "open" /\ up'[v].reader + up'[v].event = 0
      BY <1>2, <1>4, <1>6, <2>6, <2>9, <3>1
    <3>3. \A v, w \in 1 .. MaxUps : up'[v].st \in {"opening", "open"} /\ up'[w].st \in {"opening", "open"} => v = w
      <4>1. \A v \in 1 .. MaxUps : up'[v].st \in {"opening", "open"} => v # u /\ up[v].st = "opening"
        BY <1>2, <1>4, <2>6, <3>2
      <4> QED BY <1>0, <1>6, <2>9, <4>1 DEF LayAlone
    <3> QED BY <2>7, <3>2, <3>3 DEF LayAlone
  <2> QED BY <1>0, <1>1, <2>5, <2>7, <2>8, <2>9 DEF LayInv
<1> QED BY <1>8, <1>9

LEMMA UpsKeep ==
    ASSUME KeysInv, KeysNext
    PROVE  LayInv(overlay', up', overlap')
<1>1. CASE UNCHANGED <<overlay, up, overlap>>
  BY <1>1, UpsHold
<1>2. CASE Ups
  BY <1>2, UpOpenedKeeps, UpReadKeeps, UpEventKeeps, UpDoneKeeps DEF Ups
<1>3. SpinnerTick \/ (\E i \in 1 .. MaxActs : ActionDone(i)) => UNCHANGED <<overlay, up, overlap>>
  BY DEF SpinnerTick, ActionDone, composes
<1>4. Selecting \/ Asks \/ Views \/ Acting \/ Stirs \/ Lands => UNCHANGED <<overlay, up, overlap>>
  BY SelectingLeaves, AsksLeave, ViewsLeave, ActingLeaves, StirsLeave, LandsLeaves
<1> QED BY <1>1, <1>2, <1>3, <1>4, KeysCases, ConfirmUpKeeps

LEMMA KeysTurn == KeysInv /\ (KeysNext \/ UNCHANGED keysVars) => KeysInv'
<1> SUFFICES ASSUME KeysInv, KeysNext \/ UNCHANGED keysVars PROVE KeysInv'
  OBVIOUS
<1>1. CASE UNCHANGED keysVars
  <2>1. KeysType' /\ AskInv' /\ DefInv'
    BY <1>1 DEF keysVars, KeysInv, KeysType, AskInv, DefInv
  <2>2. SelectionInRange' /\ MarkerMeansWork' /\ LifeInv'
    BY <1>1 DEF keysVars, KeysInv, SelectionInRange, Visible, MarkerMeansWork, LifeInv, Lifecycle
  <2>3. SpinInv' /\ UpsInv'
    BY <1>1 DEF keysVars, KeysInv, SpinInv, InProgress, AnyPending, UpsInv, AloneInv, Reads
  <2> QED BY <2>1, <2>2, <2>3 DEF KeysInv
<1>2. CASE KeysNext
  <2>1. SelectionInRange' /\ at' \in 1 .. 3 /\ fold' \in BOOLEAN /\ filter' \in {"all"} \cup KCmds
    BY <1>2, SelectionKeeps
  <2>2. DefInv' /\ SpinInv' /\ MarkerMeansWork' /\ LifeInv'
    BY <1>2, DefKeeps, SpinKeeps, RowsKeep
  <2>3. LayInv(overlay', up', overlap')
    BY <1>2, UpsKeep
  <2>4. UpsInv'
    BY <2>3 DEF LayInv, LayRead, LayAlone, UpsInv, AloneInv, Reads
  <2>5. AskInv'
    BY <1>2, RowsKeep, PopupKeeps DEF AskInv, PopupInv
  <2>6. /\ real' \in [KCmds -> KStates] /\ lists' \subseteq [KCmds -> KStates] /\ row' \in [KCmds -> RowType]
        /\ act' \in [1 .. MaxActs -> ActType] /\ load' \in {"none", "asked"} /\ relisted' \subseteq KCmds
    BY <1>2, RowsKeep
  <2>7. popup' \in PopupType
    BY <1>2, PopupKeeps
  <2>8. overlay' \in LayType /\ up' \in [1 .. MaxUps -> UpType] /\ overlap' \in BOOLEAN
    BY <2>3 DEF LayInv
  <2>9. /\ def' \in [open : BOOLEAN, project : Projects \cup {"none"}, shows : Projects \cup {"none", "loading"}]
        /\ defs' \subseteq Projects /\ namesake' \in BOOLEAN
    BY <1>2, DefKeeps
  <2>10. KeysType'
    BY <2>1, <2>6, <2>7, <2>8, <2>9 DEF KeysType, RowType, ActType, PopupType, LayType, UpType
  <2> QED BY <2>1, <2>2, <2>4, <2>5, <2>10 DEF KeysInv
<1> QED BY <1>1, <1>2

LEMMA AtMostOne ==
    ASSUME NEW S, \A x, y \in S : x = y
    PROVE  Cardinality(S) <= 1
<1>1. CASE S = {}
  BY <1>1, FS_EmptySet
<1>2. CASE S # {}
  <2>1. PICK x \in S : TRUE
    BY <1>2
  <2>2. S = {x}
    BY <2>1
  <2> QED BY <2>2, FS_Singleton
<1> QED BY <1>1, <1>2

LEMMA KeysSafe ==
    ASSUME KeysInv
    PROVE  /\ KeysTypeOK /\ SelectionInRange /\ MarkerMeansWork /\ OneLifecycle
           /\ OneSpinner /\ UpsRead /\ DefinitionOwn
<1>1. KeysTypeOK
  <2>1. spin.ticks \in Nat
    BY DEF KeysInv, SpinInv
  <2> QED BY <2>1 DEF KeysInv, KeysType, KeysTypeOK
<1>2. OneLifecycle
  <2> SUFFICES ASSUME NEW c \in KCmds \ relisted
               PROVE  Cardinality({i \in 1 .. MaxActs : act[i].cmd = c /\ act[i].verb # "remove"}) <= 1
    BY DEF OneLifecycle
  <2>1. \A i, j \in {k \in 1 .. MaxActs : act[k].cmd = c /\ act[k].verb # "remove"} : i = j
    BY DEF KeysInv, LifeInv, Lifecycle
  <2> QED BY <2>1, AtMostOne
<1>3. OneSpinner
  <2>1. spin.ticks \in {0, 1} /\ (InProgress(row, overlay) => spin.ticks = 1)
    BY DEF KeysInv, SpinInv
  <2> QED BY <2>1 DEF OneSpinner
<1>4. UpsRead
  BY DEF KeysInv, UpsInv, AloneInv, Reads, UpsRead
<1>5. DefinitionOwn
  BY DEF KeysInv, DefInv, DefinitionOwn
<1> QED BY <1>1, <1>2, <1>3, <1>4, <1>5 DEF KeysInv

\* The inductive invariant of the keys, through lists, replies and definitions
\* that land under a popup, and ups asked for over one another.
THEOREM KeysInvariant == TuiSpec => []KeysInv
<1>1. TuiInit => KeysInv
  BY KeysStart DEF TuiInit
<1>2. KeysInv /\ [TuiNext]_tuiVars => KeysInv'
  <2> SUFFICES ASSUME KeysInv, [TuiNext]_tuiVars PROVE KeysInv'
    OBVIOUS
  <2>1. KeysNext \/ UNCHANGED keysVars
    BY DEF TuiNext, tuiVars, KeysStep
  <2> QED BY <2>1, KeysTurn
<1> QED BY <1>1, <1>2, PTL DEF TuiSpec

-----------------------------------------------------------------------------
(* The attach: its inductive invariant, part by part.                      *)

ReaderType == [on : BOOLEAN, buf : Seq(KeySet), match : 0 .. Len(DetachKeys) - 1, out : Seq(KeySet),
               pending : Seq(KeySet), detached : BOOLEAN, taken : Seq(KeySet), sent : Seq(KeySet)]
Phases == {"look", "open", "attached", "ending", "prompt", "restart", "done"}
Results == {"none", "nobody", "error", "eof", "detach", "force", "ctx"}
SessionType == [phase : Phases, sticky : BOOLEAN, errs : Seq({"detach", "error", "eof"}), res : Results, force : 0 .. 3]

Errors == {"detach", "error", "eof"}
PipeType == [keys : Seq(KeySet), eof : BOOLEAN]
RemoteType == [up : BOOLEAN, over : BOOLEAN]

\* What a reader took is what it handed on, and the keys it holds back.
Held(r) == IF r.detached THEN DetachKeys ELSE SubSeq(DetachKeys, 1, r.match)
ReaderInv(r) == Len(r.out) <= BufCap /\ r.taken = HandedOn(r) \o Held(r)

\* The detach keys' first k end s.
Ends(s, k) == k <= Len(s) /\ \A i \in 1 .. k : s[Len(s) - k + i] = DetachKeys[i]
\* m is the most of the detach keys that s ends with.
Longest(s, m) == Ends(s, m) /\ \A k \in m + 1 .. Len(DetachKeys) : ~Ends(s, k)
\* The reader knows how much of the keys it has seen, until stdin is over and it
\* has handed that on.
MatchInv ==
    /\ DetachExact
    /\ ~rd.detached => Longest(rd.taken, rd.match) \/ (Exhausted /\ rd.buf = <<>>)

\* The end a session came to, or will.
EndInv ==
    /\ session.phase = "attached" => \A i \in 1 .. Len(session.errs) : session.errs[i] = "detach" => rd.detached
    /\ session.phase \in {"ending", "done"} =>
          /\ session.res = "detach" => rd.detached
          /\ session.res = "force" => session.force = 3
    /\ session.phase = "ending" => session.res # "nobody"
    /\ session.phase = "done" /\ session.res = "nobody" => pipe.eof
    /\ session.phase = "done" /\ session.sticky => session.res \in {"detach", "force", "ctx", "nobody"}

ReadInv == pipe \in PipeType /\ rd \in ReaderType /\ ReaderInv(rd) /\ MatchInv
SessInv == session \in SessionType /\ remote \in RemoteType /\ EndInv
AttachInv == ReadInv /\ SessInv

-----------------------------------------------------------------------------
(* The attach: sequences of keys, and what ends them.                      *)

LEMMA Keyed ==
    /\ DetachKeys \in Seq(KeySet) /\ Len(DetachKeys) \in Nat /\ Len(DetachKeys) >= 1
    /\ \A i \in 1 .. Len(DetachKeys) : DetachKeys[i] \in KeySet
    /\ BufCap \in Nat /\ BufCap >= 1
<1>1. DetachKeys \in Seq(KeySet) /\ DetachKeys # <<>> /\ BufCap \in Nat \ {0}
  BY DetachKeysAssumption
<1>2. Len(DetachKeys) \in Nat \ {0}
  BY <1>1, EmptySeq
<1>3. \A i \in 1 .. Len(DetachKeys) : DetachKeys[i] \in KeySet
  BY <1>1, ElementOfSeq
<1> QED BY <1>1, <1>2, <1>3

LEMMA Starting ==
    ASSUME NEW m \in 0 .. Len(DetachKeys)
    PROVE  SubSeq(DetachKeys, 1, m) \in Seq(KeySet) /\ Len(SubSeq(DetachKeys, 1, m)) = m
<1>1. m \in Int /\ \A i \in 1 .. m : DetachKeys[i] \in KeySet
  BY Keyed
<1> QED BY <1>1, SubSeqProperties

LEMMA Split ==
    ASSUME NEW s \in Seq(KeySet), NEW k \in 0 .. Len(s)
    PROVE  /\ SubSeq(s, 1, k) \in Seq(KeySet) /\ SubSeq(s, k + 1, Len(s)) \in Seq(KeySet)
           /\ Len(SubSeq(s, 1, k)) = k
           /\ SubSeq(s, 1, k) \o SubSeq(s, k + 1, Len(s)) = s
<1>0. Len(s) \in Nat /\ \A i \in 1 .. Len(s) : s[i] \in KeySet
  BY LenProperties, ElementOfSeq
<1>1. /\ k \in Int /\ k + 1 \in Int /\ Len(s) \in Int
      /\ \A i \in 1 .. k : s[i] \in KeySet
      /\ \A i \in k + 1 .. Len(s) : s[i] \in KeySet
  BY <1>0
<1>2. SubSeq(s, 1, k) \in Seq(KeySet) /\ Len(SubSeq(s, 1, k)) = k
  BY <1>0, <1>1, SubSeqProperties
<1>3. SubSeq(s, k + 1, Len(s)) \in Seq(KeySet)
  BY <1>1, SubSeqProperties
<1>4. 1 \in 1 .. Len(s) + 1 /\ k \in 1 - 1 .. Len(s) /\ Len(s) \in k .. Len(s)
  BY <1>0
<1>5. SubSeq(s, 1, k) \o SubSeq(s, k + 1, Len(s)) = SubSeq(s, 1, Len(s))
  BY <1>4, ConcatAdjacentSubSeq
<1> QED BY <1>2, <1>3, <1>5, SubSeqFull

LEMMA Joined ==
    ASSUME NEW s \in Seq(KeySet), NEW t \in Seq(KeySet), NEW w \in Seq(KeySet)
    PROVE  s \o t \in Seq(KeySet) /\ (s \o t) \o w = s \o (t \o w)
BY ConcatProperties, ConcatAssociative

LEMMA EmitKeeps ==
    ASSUME NEW r \in ReaderType, Len(r.out) <= BufCap, NEW b \in Seq(KeySet)
    PROVE  /\ Emit(r, b) \in ReaderType /\ Len(Emit(r, b).out) <= BufCap
           /\ HandedOn(Emit(r, b)) = HandedOn(r) \o b
           /\ Emit(r, b).on = r.on /\ Emit(r, b).buf = r.buf /\ Emit(r, b).match = r.match
           /\ Emit(r, b).detached = r.detached /\ Emit(r, b).taken = r.taken
<1> DEFINE room == BufCap - Len(r.out)
           k == IF r.pending # <<>> THEN 0 ELSE IF Len(b) < room THEN Len(b) ELSE room
           x == SubSeq(b, 1, k)
           y == SubSeq(b, k + 1, Len(b))
<1>1. /\ r.out \in Seq(KeySet) /\ r.pending \in Seq(KeySet) /\ r.sent \in Seq(KeySet)
      /\ Len(r.out) \in Nat /\ Len(b) \in Nat
  BY LenProperties DEF ReaderType
<1>2. k \in 0 .. Len(b) /\ k <= room
  <2>1. room \in Nat
    BY <1>1, Keyed
  <2>2. k = 0 \/ (k = Len(b) /\ Len(b) < room) \/ (k = room /\ ~(Len(b) < room))
    OBVIOUS
  <2> HIDE DEF k, room
  <2> QED BY <1>1, <2>1, <2>2
<1>3. Emit(r, b) = [r EXCEPT !.out = @ \o x, !.pending = @ \o y]
  BY DEF Emit
<1> HIDE DEF k, room
<1>4. x \in Seq(KeySet) /\ y \in Seq(KeySet) /\ Len(x) = k /\ x \o y = b
  BY <1>2, Split
<1> HIDE DEF x, y
<1>5. r.out \o x \in Seq(KeySet) /\ r.pending \o y \in Seq(KeySet) /\ Len(r.out \o x) = Len(r.out) + k
  BY <1>1, <1>4, ConcatProperties
<1>6. /\ Emit(r, b) \in ReaderType /\ Emit(r, b).out = r.out \o x /\ Emit(r, b).pending = r.pending \o y
      /\ Emit(r, b).sent = r.sent
      /\ Emit(r, b).on = r.on /\ Emit(r, b).buf = r.buf /\ Emit(r, b).match = r.match
      /\ Emit(r, b).detached = r.detached /\ Emit(r, b).taken = r.taken
  BY <1>3, <1>5 DEF ReaderType
<1>7. Len(Emit(r, b).out) <= BufCap
  BY <1>1, <1>2, <1>5, <1>6, Keyed DEF room
<1>8. (r.sent \o (r.out \o x)) \o (r.pending \o y) = ((r.sent \o r.out) \o r.pending) \o b
  <2>1. r.pending = <<>> \/ x = <<>>
    <3>1. r.pending # <<>> => Len(x) = 0
      BY <1>4 DEF k
    <3> QED BY <1>4, <3>1, EmptySeq
  <2> DEFINE s == r.sent
             o == r.out
             p == r.pending
  <2>2. s \in Seq(KeySet) /\ o \in Seq(KeySet) /\ p \in Seq(KeySet) /\ (p = <<>> \/ x = <<>>)
    BY <1>1, <2>1
  <2> HIDE DEF s, o, p
  <2>3. (s \o (o \o x)) \o (p \o y) = ((s \o o) \o p) \o (x \o y)
    <3>1. x \in Seq(KeySet) /\ y \in Seq(KeySet)
      BY <1>4
    <3> DEFINE so == s \o o
    <3>2. so \in Seq(KeySet)
      BY <2>2, Joined
    <3>3. CASE p = <<>>
      <4>1. p \o y = y /\ so \o p = so
        BY <3>1, <3>2, <3>3, ConcatEmptySeq
      <4>2. (s \o o) \o x = s \o (o \o x)
        <5>1. s \in Seq(KeySet) /\ o \in Seq(KeySet)
          BY <2>2
        <5> QED BY ONLY <3>1, <5>1, Joined, SMTT(20)
      <4>3. s \o (o \o x) = so \o x
        BY <4>2
      <4> HIDE DEF so
      <4>4. (so \o x) \o y = so \o (x \o y)
        BY <3>1, <3>2, Joined
      <4>5. (s \o (o \o x)) \o (p \o y) = (so \o p) \o (x \o y)
        BY <4>1, <4>3, <4>4
      <4> QED BY <4>5 DEF so
    <3>4. CASE x = <<>>
      <4>1. o \o x = o /\ x \o y = y
        BY <2>2, <3>1, <3>4, ConcatEmptySeq
      <4> HIDE DEF so
      <4>2. (so \o p) \o y = so \o (p \o y)
        <5>1. so \in Seq(KeySet) /\ p \in Seq(KeySet) /\ y \in Seq(KeySet)
          BY <2>2, <3>1, <3>2
        <5> QED BY ONLY <5>1, Joined
      <4> QED BY <4>1, <4>2 DEF so
    <3> QED BY <2>2, <3>3, <3>4
  <2>4. (s \o (o \o x)) \o (p \o y) = ((s \o o) \o p) \o b
    BY <1>4, <2>3
  <2> QED BY <2>4 DEF s, o, p
<1>9. HandedOn(Emit(r, b)) = HandedOn(r) \o b
  BY <1>6, <1>8 DEF HandedOn
<1> QED BY <1>6, <1>7, <1>9

LEMMA AgainKeeps ==
    ASSUME NEW r \in ReaderType
    PROVE  LET n == Again([r EXCEPT !.sent = @ \o r.out]) IN
           /\ n \in ReaderType /\ Len(n.out) <= BufCap /\ HandedOn(n) = HandedOn(r)
           /\ n.on = r.on /\ n.buf = r.buf /\ n.match = r.match /\ n.detached = r.detached /\ n.taken = r.taken
<1> DEFINE t == [r EXCEPT !.sent = @ \o r.out]
           k == IF Len(r.pending) < BufCap THEN Len(r.pending) ELSE BufCap
           x == SubSeq(r.pending, 1, k)
           y == SubSeq(r.pending, k + 1, Len(r.pending))
           n == Again(t)
<1>1. /\ r.out \in Seq(KeySet) /\ r.pending \in Seq(KeySet) /\ r.sent \in Seq(KeySet)
      /\ Len(r.pending) \in Nat
  BY LenProperties DEF ReaderType
<1>2. k \in 0 .. Len(r.pending) /\ k <= BufCap
  BY <1>1, Keyed
<1>3. x \in Seq(KeySet) /\ y \in Seq(KeySet) /\ Len(x) = k /\ x \o y = r.pending
  BY <1>1, <1>2, Split
<1>4. r.sent \o r.out \in Seq(KeySet)
  BY <1>1, ConcatProperties
<1>5. t \in ReaderType /\ t.pending = r.pending /\ t.sent = r.sent \o r.out
      /\ t.on = r.on /\ t.buf = r.buf /\ t.match = r.match /\ t.detached = r.detached /\ t.taken = r.taken
  BY <1>4 DEF ReaderType
<1> HIDE DEF t
<1>6. n = [t EXCEPT !.out = x, !.pending = y]
  BY <1>5 DEF Again
<1> HIDE DEF x, y, n, k
<1>7. /\ n \in ReaderType /\ n.out = x /\ n.pending = y /\ n.sent = r.sent \o r.out
      /\ n.on = r.on /\ n.buf = r.buf /\ n.match = r.match /\ n.detached = r.detached /\ n.taken = r.taken
  BY <1>3, <1>5, <1>6 DEF ReaderType
<1>8. ((r.sent \o r.out) \o x) \o y = (r.sent \o r.out) \o r.pending
  <2> DEFINE so == r.sent \o r.out
  <2>1. so \in Seq(KeySet)
    BY <1>4
  <2> HIDE DEF so
  <2>2. (so \o x) \o y = so \o (x \o y)
    BY <1>3, <2>1, Joined
  <2> QED BY <1>3, <2>2 DEF so
<1>9. HandedOn(n) = HandedOn(r) /\ Len(n.out) <= BufCap
  BY <1>2, <1>3, <1>7, <1>8 DEF HandedOn
<1> QED BY <1>7, <1>9 DEF n, t

LEMMA OccursAt ==
    ASSUME NEW s \in Seq(KeySet), NEW n \in 0 .. Len(s)
    PROVE  Occurs(s, n) <=> n + Len(DetachKeys) <= Len(s) /\ \A i \in 1 .. Len(DetachKeys) : s[n + i] = DetachKeys[i]
<1> DEFINE L == Len(DetachKeys)
           N == Len(s)
<1>1. N \in Nat /\ L \in Nat /\ L >= 1 /\ n \in 0 .. N /\ \A i \in 1 .. N : s[i] \in KeySet
  BY LenProperties, ElementOfSeq, Keyed
<1>2. CASE n + L <= N
  <2> DEFINE w == SubSeq(s, n + 1, n + L)
  <2>1. n + 1 \in Int /\ n + L \in Int /\ n + 1 <= n + L /\ (n + L) - (n + 1) + 1 = L
    <3> HIDE DEF L, N
    <3> QED BY <1>1
  <2>2. \A i \in n + 1 .. n + L : s[i] \in KeySet
    <3> HIDE DEF L, N
    <3> QED BY <1>1, <1>2
  <2>3. w \in Seq(KeySet) /\ Len(w) = L /\ \A i \in 1 .. L : w[i] = s[n + 1 + i - 1]
    BY <2>1, <2>2, SubSeqProperties
  <2>4. \A i \in 1 .. L : n + 1 + i - 1 = n + i
    <3> HIDE DEF L, N
    <3> QED BY <1>1
  <2>5. \A i \in 1 .. L : w[i] = s[n + i]
    BY <2>3, <2>4
  <2>6. w = DetachKeys <=> \A i \in 1 .. L : w[i] = DetachKeys[i]
    BY <2>3, Keyed, SeqEqual
  <2>7. Occurs(s, n) <=> w = DetachKeys
    BY <1>2 DEF Occurs
  <2> HIDE DEF w
  <2> QED BY <1>2, <2>5, <2>6, <2>7
<1>3. CASE ~(n + L <= N)
  BY <1>3 DEF Occurs
<1> QED BY <1>2, <1>3

\* One more key: which starts of the detach keys it ends.
LEMMA EndsMore ==
    ASSUME NEW t \in Seq(KeySet), NEW b \in KeySet, NEW k \in 0 .. Len(DetachKeys) - 1
    PROVE  Ends(Append(t, b), k + 1) <=> Ends(t, k) /\ b = DetachKeys[k + 1]
<1> DEFINE s == Append(t, b)
           N == Len(t)
<1>1. Len(s) = N + 1 /\ N \in Nat /\ (\A i \in 1 .. N : s[i] = t[i]) /\ s[N + 1] = b
  BY AppendProperties, LenProperties
<1>2. k \in Nat
  BY Keyed
<1> HIDE DEF s, N
<1>3. CASE k <= N
  <2>1. \A i \in 1 .. k + 1 : (N + 1) - (k + 1) + i = N - k + i
    BY <1>1, <1>2
  <2>2. \A i \in 1 .. k : N - k + i \in 1 .. N
    BY <1>1, <1>2, <1>3
  <2>3. N - k + (k + 1) = N + 1
    BY <1>1, <1>2
  <2>4. /\ \A i \in 1 .. k : s[(N + 1) - (k + 1) + i] = t[N - k + i]
        /\ s[(N + 1) - (k + 1) + (k + 1)] = b
    <3>1. \A i \in 1 .. k : i \in 1 .. k + 1
      BY <1>2
    <3>2. k + 1 \in 1 .. k + 1
      BY <1>2
    <3> QED BY <1>1, <2>1, <2>2, <2>3, <3>1, <3>2
  <2>5. \A i \in 1 .. k + 1 : i \in 1 .. k \/ i = k + 1
    BY <1>2
  <2>6. (\A i \in 1 .. k : i \in 1 .. k + 1) /\ k + 1 \in 1 .. k + 1 /\ k + 1 <= N + 1
    BY <1>1, <1>2, <1>3
  <2>7. (\A i \in 1 .. k + 1 : s[(N + 1) - (k + 1) + i] = DetachKeys[i])
        <=> (\A i \in 1 .. k : t[N - k + i] = DetachKeys[i]) /\ b = DetachKeys[k + 1]
    BY <2>4, <2>5, <2>6
  <2> QED BY <1>1, <1>3, <2>6, <2>7 DEF Ends, s, N
<1>4. CASE ~(k <= N)
  <2>1. ~(k + 1 <= N + 1)
    BY <1>1, <1>2, <1>4
  <2> QED BY <1>1, <1>4, <2>1 DEF Ends, s, N
<1> QED BY <1>3, <1>4

\* A shorter start that ends a longer one begins inside it.
LEMMA Inside ==
    ASSUME NEW t \in Seq(KeySet), NEW m \in 0 .. Len(DetachKeys) - 1, NEW k \in 1 .. m - 1,
           Ends(t, m)
    PROVE  ~Ends(t, k)
<1> DEFINE N == Len(t)
           L == Len(DetachKeys)
<1>1. N \in Nat /\ L \in Nat /\ m <= N /\ \A i \in 1 .. m : t[N - m + i] = DetachKeys[i]
  BY Keyed, LenProperties DEF Ends
<1>2. \A n \in 2 .. L - 1 : DetachKeys[n] # DetachKeys[1]
  BY DetachKeysAssumption
<1>3. SUFFICES ASSUME Ends(t, k) PROVE FALSE
  OBVIOUS
<1>4. \A i \in 1 .. k : t[N - k + i] = DetachKeys[i]
  BY <1>3 DEF Ends
<1> HIDE DEF N, L
<1>5. m \in Nat /\ k \in Nat /\ m <= L - 1 /\ 1 <= k /\ k <= m - 1
  BY <1>1 DEF L
<1> DEFINE j == m - k + 1
<1>6. j \in 1 .. m /\ j \in 2 .. L - 1 /\ N - m + j = N - k + 1 /\ 1 \in 1 .. k
  BY <1>1, <1>5
<1> HIDE DEF j
<1>7. t[N - m + j] = DetachKeys[j] /\ t[N - k + 1] = DetachKeys[1]
  BY <1>1, <1>4, <1>6
<1> QED BY <1>2, <1>6, <1>7

LEMMA LongestMore ==
    ASSUME NEW t \in Seq(KeySet), NEW m \in 0 .. Len(DetachKeys) - 1, NEW b \in KeySet, Longest(t, m)
    PROVE  /\ b = DetachKeys[m + 1] =>
                /\ m + 1 < Len(DetachKeys) => Longest(Append(t, b), m + 1)
                /\ Ends(Append(t, b), Len(DetachKeys)) => m + 1 = Len(DetachKeys)
           /\ b # DetachKeys[m + 1] =>
                /\ ~Ends(Append(t, b), Len(DetachKeys))
                /\ m > 0 /\ b = DetachKeys[1] => Longest(Append(t, b), 1)
                /\ m = 0 \/ b # DetachKeys[1] => Longest(Append(t, b), 0)
<1> DEFINE L == Len(DetachKeys)
           s == Append(t, b)
<1>0. L \in Nat /\ L >= 1 /\ m \in 0 .. L - 1
  BY Keyed
<1>1. Ends(t, m) /\ \A k \in m + 1 .. L : ~Ends(t, k)
  BY DEF Longest
<1>2. \A k \in 0 .. L - 1 : Ends(s, k + 1) <=> Ends(t, k) /\ b = DetachKeys[k + 1]
  BY EndsMore
<1>3. \A k \in 1 .. m - 1 : ~Ends(t, k)
  BY <1>1, Inside
<1>4. Ends(s, 0)
  <2>1. s \in Seq(KeySet) /\ Len(s) \in Nat
    BY AppendProperties, LenProperties
  <2> HIDE DEF s
  <2> QED BY <2>1 DEF Ends
<1>5. \A k \in 1 .. L : /\ k - 1 \in 0 .. L - 1 /\ (k - 1) + 1 = k
                        /\ k - 1 \in m + 1 .. L \/ k - 1 \in 1 .. m - 1 \/ k - 1 = m \/ k - 1 = 0
  <2> HIDE DEF L
  <2> QED BY <1>0
<1>6. \A k \in 1 .. L : Ends(s, k) => Ends(t, k - 1) /\ b = DetachKeys[k] /\ (k - 1 = m \/ k - 1 = 0)
  BY <1>1, <1>2, <1>3, <1>5
<1> HIDE DEF s
<1>7. CASE b = DetachKeys[m + 1]
  <2>1. Ends(s, m + 1)
    BY <1>0, <1>1, <1>2, <1>7
  <2>2. \A k \in m + 2 .. L : ~Ends(s, k)
    <3>1. \A k \in m + 2 .. L : k \in 1 .. L /\ k - 1 # m /\ k - 1 # 0
      <4> HIDE DEF L
      <4> QED BY <1>0
    <3> QED BY <1>6, <3>1
  <2>3. m + 1 < L => L \in m + 2 .. L
    <3> HIDE DEF L
    <3> QED BY <1>0
  <2>4. m + 1 <= L /\ (m + 1) + 1 = m + 2
    <3> HIDE DEF L
    <3> QED BY <1>0
  <2>5. m + 1 < L \/ m + 1 = L
    <3> HIDE DEF L
    <3> QED BY <1>0
  <2> QED BY <1>7, <2>1, <2>2, <2>3, <2>4, <2>5 DEF Longest, s
<1>8. CASE b # DetachKeys[m + 1]
  <2>1. \A k \in 1 .. L : Ends(s, k) => k = 1 /\ m # 0 /\ b = DetachKeys[1]
    <3>1. \A k \in 1 .. L : (k - 1 = m => k = m + 1) /\ (k - 1 = 0 => k = 1)
      <4> HIDE DEF L
      <4> QED BY <1>0
    <3>2. m = 0 => m + 1 = 1
      OBVIOUS
    <3> QED BY <1>6, <1>8, <3>1, <3>2
  <2>2. ~Ends(s, L)
    <3>1. CASE L = 1
      <4>1. m = 0
        BY <1>0, <3>1
      <4> QED BY <1>0, <2>1, <4>1
    <3>2. CASE L # 1
      BY <1>0, <2>1, <3>2
    <3> QED BY <3>1, <3>2
  <2>3. b = DetachKeys[1] => Ends(s, 1)
    <3>1. Ends(t, 0)
      <4>1. Len(t) \in Nat
        BY LenProperties
      <4> QED BY <4>1 DEF Ends
    <3>2. 0 \in 0 .. L - 1
      <4> HIDE DEF L
      <4> QED BY <1>0
    <3> QED BY <1>2, <3>1, <3>2
  <2>4. \A k \in 1 + 1 .. L : ~Ends(s, k)
    <3>1. \A k \in 1 + 1 .. L : k \in 1 .. L /\ k # 1
      <4> HIDE DEF L
      <4> QED BY <1>0
    <3> QED BY <2>1, <3>1
  <2>5. m = 0 \/ b # DetachKeys[1] => \A k \in 0 + 1 .. L : ~Ends(s, k)
    BY <2>1
  <2> QED BY <1>4, <1>8, <2>2, <2>3, <2>4, <2>5 DEF Longest, s
<1> QED BY <1>7, <1>8

\* An occurrence of the detach keys is an old one, or ends with the new key.
LEMMA OccursMore ==
    ASSUME NEW t \in Seq(KeySet), NEW b \in KeySet, NEW n \in 0 .. Len(Append(t, b)), Occurs(Append(t, b), n)
    PROVE  \/ n \in 0 .. Len(t) /\ Occurs(t, n)
           \/ n + Len(DetachKeys) = Len(Append(t, b)) /\ Ends(Append(t, b), Len(DetachKeys))
<1> DEFINE s == Append(t, b)
           N == Len(t)
           L == Len(DetachKeys)
<1>1. s \in Seq(KeySet) /\ Len(s) = N + 1 /\ N \in Nat /\ \A i \in 1 .. N : s[i] = t[i]
  BY AppendProperties, LenProperties
<1>2. L \in Nat /\ L >= 1 /\ n \in 0 .. Len(s)
  BY Keyed
<1>3. n + L <= N + 1 /\ \A i \in 1 .. L : s[n + i] = DetachKeys[i]
  BY <1>1, OccursAt
<1>4. CASE n + L <= N
  <2>1. n \in 0 .. N /\ \A i \in 1 .. L : n + i \in 1 .. N
    <3> HIDE DEF L, N, s
    <3> QED BY <1>1, <1>2, <1>4
  <2>2. \A i \in 1 .. L : t[n + i] = DetachKeys[i]
    BY <1>1, <1>3, <2>1
  <2>3. Occurs(t, n)
    BY <1>4, <2>1, <2>2, OccursAt
  <2> QED BY <2>1, <2>3
<1>5. CASE ~(n + L <= N)
  <2>1. n + L = Len(s) /\ L <= Len(s) /\ Len(s) - L = n
    <3> HIDE DEF L, N, s
    <3> QED BY <1>1, <1>2, <1>3, <1>5
  <2>2. Ends(s, L)
    BY <1>3, <2>1 DEF Ends
  <2> QED BY <2>1, <2>2
<1> QED BY <1>4, <1>5

LEMMA ReaderParts ==
    ASSUME NEW r \in ReaderType
    PROVE  /\ r.on \in BOOLEAN /\ r.detached \in BOOLEAN /\ r.match \in 0 .. Len(DetachKeys) - 1
           /\ r.buf \in Seq(KeySet) /\ r.out \in Seq(KeySet) /\ r.pending \in Seq(KeySet)
           /\ r.taken \in Seq(KeySet) /\ r.sent \in Seq(KeySet) /\ HandedOn(r) \in Seq(KeySet)
<1>1. /\ r.on \in BOOLEAN /\ r.detached \in BOOLEAN /\ r.match \in 0 .. Len(DetachKeys) - 1
      /\ r.buf \in Seq(KeySet) /\ r.out \in Seq(KeySet) /\ r.pending \in Seq(KeySet)
      /\ r.taken \in Seq(KeySet) /\ r.sent \in Seq(KeySet)
  BY DEF ReaderType
<1>2. r.sent \o r.out \in Seq(KeySet)
  BY <1>1, ConcatProperties
<1>3. HandedOn(r) \in Seq(KeySet)
  BY <1>1, <1>2, ConcatProperties DEF HandedOn
<1> QED BY <1>1, <1>3

LEMMA StartGrows ==
    ASSUME NEW h \in Seq(KeySet), NEW m \in 0 .. Len(DetachKeys) - 1
    PROVE  Append(h \o SubSeq(DetachKeys, 1, m), DetachKeys[m + 1]) = h \o SubSeq(DetachKeys, 1, m + 1)
<1> DEFINE d == SubSeq(DetachKeys, 1, m)
           e == DetachKeys[m + 1]
<1>1. m \in 0 .. Len(DetachKeys) /\ m + 1 \in 1 .. Len(DetachKeys) /\ 1 \in 1 .. Len(DetachKeys) /\ (m + 1) - 1 = m
  BY Keyed
<1>2. d \in Seq(KeySet) /\ e \in KeySet /\ <<e>> \in Seq(KeySet)
  BY <1>1, Keyed, Starting
<1>3. SubSeq(DetachKeys, 1, m + 1) = d \o <<e>>
  BY <1>1, Keyed, SubSeqRecursiveSecond
<1> HIDE DEF d, e
<1>4. h \o d \in Seq(KeySet)
  BY <1>2, ConcatProperties
<1>5. Append(h \o d, e) = (h \o d) \o <<e>>
  BY <1>2, <1>4, AppendIsConcat
<1>6. (h \o d) \o <<e>> = h \o (d \o <<e>>)
  BY <1>2, Joined
<1> QED BY <1>3, <1>5, <1>6 DEF d, e

LEMMA MatchedKeeps ==
    ASSUME NEW r \in ReaderType, ReaderInv(r), ~r.detached, NEW b \in KeySet
    PROVE  LET n == KeyMatched(r, b) IN
           /\ n \in ReaderType /\ ReaderInv(n) /\ n.on = r.on /\ n.buf = r.buf /\ n.taken = Append(r.taken, b)
           /\ \/ b = DetachKeys[r.match + 1] /\ r.match + 1 = Len(DetachKeys) /\ n.detached
              \/ b = DetachKeys[r.match + 1] /\ r.match + 1 < Len(DetachKeys) /\ ~n.detached /\ n.match = r.match + 1
              \/ b # DetachKeys[r.match + 1] /\ r.match > 0 /\ b = DetachKeys[1] /\ ~n.detached /\ n.match = 1
              \/ b # DetachKeys[r.match + 1] /\ (r.match = 0 \/ b # DetachKeys[1]) /\ ~n.detached /\ n.match = 0
<1> DEFINE m == r.match
           d == SubSeq(DetachKeys, 1, m)
           t == Append(r.taken, b)
           r1 == [r EXCEPT !.taken = Append(@, b)]
           r2 == [r1 EXCEPT !.match = 0]
           fl == Emit(r2, d)
           n == KeyMatched(r, b)
           h == HandedOn(r)
<1>1. /\ m \in 0 .. Len(DetachKeys) - 1 /\ r.taken \in Seq(KeySet) /\ t \in Seq(KeySet) /\ h \in Seq(KeySet)
      /\ Len(r.out) <= BufCap /\ r.taken = h \o d /\ r.detached \in BOOLEAN
  BY ReaderParts, AppendProperties DEF ReaderInv, Held
<1>2. m \in 0 .. Len(DetachKeys) /\ 0 \in 0 .. Len(DetachKeys) - 1 /\ m \in Nat /\ Len(DetachKeys) \in Nat
  BY <1>1, Keyed
<1>3. d \in Seq(KeySet)
  BY <1>2, Starting
<1>4. /\ r1 \in ReaderType /\ r1.taken = t /\ r1.match = m /\ r1.detached = r.detached /\ r1.on = r.on /\ r1.buf = r.buf
      /\ r1.out = r.out /\ r1.pending = r.pending /\ r1.sent = r.sent
  BY <1>1 DEF ReaderType
<1>5. n = IF b = DetachKeys[m + 1]
          THEN IF m + 1 = Len(DetachKeys) THEN [r1 EXCEPT !.match = 0, !.detached = TRUE]
               ELSE [r1 EXCEPT !.match = @ + 1]
          ELSE IF m > 0 /\ b = DetachKeys[1] THEN [fl EXCEPT !.match = 1]
          ELSE Emit(fl, <<b>>)
  BY DEF KeyMatched
<1> HIDE DEF r1, n, d, t, h
<1>6. CASE b = DetachKeys[m + 1] /\ m + 1 = Len(DetachKeys)
  <2>1. n = [r1 EXCEPT !.match = 0, !.detached = TRUE]
    BY <1>5, <1>6
  <2>2. /\ n \in ReaderType /\ n.detached /\ n.taken = t /\ n.on = r.on /\ n.buf = r.buf
        /\ n.out = r.out /\ n.pending = r.pending /\ n.sent = r.sent
    BY <1>2, <1>4, <2>1 DEF ReaderType
  <2>3. SubSeq(DetachKeys, 1, m + 1) = DetachKeys
    BY <1>6, Keyed, SubSeqFull
  <2>4. t = h \o DetachKeys
    <3>1. Append(h \o d, DetachKeys[m + 1]) = h \o SubSeq(DetachKeys, 1, m + 1)
      BY <1>1, StartGrows DEF d
    <3>2. t = Append(h \o d, DetachKeys[m + 1])
      BY <1>1, <1>6 DEF t
    <3> QED BY <2>3, <3>1, <3>2
  <2>5. HandedOn(n) = h
    BY <2>2 DEF HandedOn, h
  <2>6. ReaderInv(n)
    BY <1>1, <2>2, <2>4, <2>5 DEF ReaderInv, Held
  <2> QED BY <1>6, <2>2, <2>6 DEF n, t
<1>7. CASE b = DetachKeys[m + 1] /\ m + 1 # Len(DetachKeys)
  <2>1. n = [r1 EXCEPT !.match = @ + 1]
    BY <1>5, <1>7
  <2>2. m + 1 \in 0 .. Len(DetachKeys) - 1 /\ m + 1 < Len(DetachKeys)
    BY <1>1, <1>2, <1>7
  <2>3. /\ n \in ReaderType /\ n.detached = r.detached /\ n.taken = t /\ n.on = r.on /\ n.buf = r.buf
        /\ n.out = r.out /\ n.pending = r.pending /\ n.sent = r.sent /\ n.match = m + 1
    BY <1>4, <2>1, <2>2 DEF ReaderType
  <2>4. t = h \o SubSeq(DetachKeys, 1, m + 1)
    <3>1. Append(h \o d, DetachKeys[m + 1]) = h \o SubSeq(DetachKeys, 1, m + 1)
      BY <1>1, StartGrows DEF d
    <3>2. t = Append(h \o d, DetachKeys[m + 1])
      BY <1>1, <1>7 DEF t
    <3> QED BY <3>1, <3>2
  <2>5. HandedOn(n) = h
    BY <2>3 DEF HandedOn, h
  <2>6. ReaderInv(n)
    BY <1>1, <2>3, <2>4, <2>5 DEF ReaderInv, Held
  <2> QED BY <1>7, <2>2, <2>3, <2>6 DEF n, t
<1>8. CASE b # DetachKeys[m + 1]
  <2>1. /\ r2 \in ReaderType /\ r2.match = 0 /\ r2.detached = r.detached /\ r2.taken = t /\ r2.on = r.on
        /\ r2.buf = r.buf /\ r2.out = r.out /\ r2.pending = r.pending /\ r2.sent = r.sent
    BY <1>2, <1>4 DEF ReaderType
  <2>2. HandedOn(r2) = h
    BY <2>1 DEF HandedOn, h
  <2> HIDE DEF r2
  <2>3. Len(r2.out) <= BufCap
    BY <1>1, <2>1
  <2>4. /\ fl \in ReaderType /\ Len(fl.out) <= BufCap /\ HandedOn(fl) = h \o d
        /\ fl.on = r.on /\ fl.buf = r.buf /\ fl.match = 0 /\ fl.detached = r.detached /\ fl.taken = t
    BY <1>3, <2>1, <2>2, <2>3, EmitKeeps
  <2> HIDE DEF fl
  <2>5. CASE m > 0 /\ b = DetachKeys[1]
    <3>1. n = [fl EXCEPT !.match = 1]
      BY <1>5, <1>8, <2>5
    <3>2. 1 \in 0 .. Len(DetachKeys) - 1
      BY <1>1, <1>2, <2>5
    <3>3. /\ n \in ReaderType /\ n.detached = r.detached /\ n.taken = t /\ n.on = r.on /\ n.buf = r.buf
          /\ n.out = fl.out /\ n.pending = fl.pending /\ n.sent = fl.sent /\ n.match = 1
      BY <2>4, <3>1, <3>2 DEF ReaderType
    <3>4. HandedOn(n) = r.taken
      BY <1>1, <2>4, <3>3 DEF HandedOn
    <3>5. t = r.taken \o SubSeq(DetachKeys, 1, 1)
      <4>1. SubSeq(DetachKeys, 1, 1) = <<b>>
        <5>1. SubSeq(DetachKeys, 1, 0) = <<>>
          BY SubSeqEmpty
        <5>2. SubSeq(DetachKeys, 1, 1) = SubSeq(DetachKeys, 1, 0) \o <<DetachKeys[1]>>
          <6>1. 1 \in 1 .. Len(DetachKeys) /\ 1 - 1 = 0
            BY Keyed
          <6> QED BY <6>1, Keyed, SubSeqRecursiveSecond
        <5>3. <<b>> \in Seq(KeySet)
          OBVIOUS
        <5> QED BY <2>5, <5>1, <5>2, <5>3, ConcatEmptySeq
      <4>2. t = r.taken \o <<b>>
        BY <1>1, AppendIsConcat DEF t
      <4> QED BY <4>1, <4>2
    <3>6. ReaderInv(n)
      BY <2>4, <3>3, <3>4, <3>5 DEF ReaderInv, Held
    <3> QED BY <1>8, <2>5, <3>3, <3>6 DEF n, t
  <2>6. CASE ~(m > 0 /\ b = DetachKeys[1])
    <3>1. n = Emit(fl, <<b>>)
      BY <1>5, <1>8, <2>6
    <3>2. <<b>> \in Seq(KeySet)
      OBVIOUS
    <3>3. /\ n \in ReaderType /\ Len(n.out) <= BufCap /\ HandedOn(n) = (h \o d) \o <<b>>
          /\ n.on = r.on /\ n.buf = r.buf /\ n.match = 0 /\ n.detached = r.detached /\ n.taken = t
      BY <2>4, <3>1, <3>2, EmitKeeps
    <3>4. t = r.taken \o <<b>>
      BY <1>1, AppendIsConcat DEF t
    <3>5. t = HandedOn(n)
      BY <1>1, <3>3, <3>4
    <3>6. SubSeq(DetachKeys, 1, 0) = <<>> /\ HandedOn(n) \o <<>> = HandedOn(n)
      BY <3>3, ReaderParts, SubSeqEmpty, ConcatEmptySeq
    <3>7. ReaderInv(n)
      BY <3>3, <3>5, <3>6 DEF ReaderInv, Held
    <3>8. m = 0 \/ b # DetachKeys[1]
      BY <1>2, <2>6
    <3> QED BY <1>8, <3>3, <3>7, <3>8 DEF n, t
  <2> QED BY <2>5, <2>6
<1> QED BY <1>6, <1>7, <1>8

-----------------------------------------------------------------------------
(* The attach: the steps of the reader, then of the session.               *)

LEMMA SameReader ==
    ASSUME ReadInv, rd' \in ReaderType, Len(rd'.out) <= BufCap, HandedOn(rd') = HandedOn(rd), rd'.buf = rd.buf,
           rd'.match = rd.match, rd'.detached = rd.detached, rd'.taken = rd.taken,
           pipe' \in PipeType, Exhausted => Exhausted'
    PROVE  ReadInv'
<1>1. Held(rd') = Held(rd)
  BY DEF Held
<1>2. ReaderInv(rd')
  BY <1>1 DEF ReadInv, ReaderInv
<1>3. MatchInv'
  BY DEF ReadInv, MatchInv, DetachExact
<1> QED BY <1>2, <1>3 DEF ReadInv

LEMMA FreshReader ==
    ASSUME pipe' \in PipeType, rd' = NewReader \/ rd' = NoReader
    PROVE  ReadInv' /\ rd'.detached = FALSE
<1>1. 0 \in 0 .. Len(DetachKeys) - 1 /\ <<>> \in Seq(KeySet) /\ Len(<<>>) = 0 /\ Len(DetachKeys) \in Nat
  BY Keyed, EmptySeq
<1>2. /\ rd' \in ReaderType /\ rd'.out = <<>> /\ rd'.pending = <<>> /\ rd'.sent = <<>> /\ rd'.taken = <<>>
      /\ rd'.match = 0 /\ rd'.detached = FALSE
  <2>1. PICK on \in BOOLEAN :
           rd' = [on |-> on, buf |-> <<>>, match |-> 0, out |-> <<>>, pending |-> <<>>, detached |-> FALSE,
                  taken |-> <<>>, sent |-> <<>>]
    BY DEF NewReader, NoReader
  <2>2. rd' \in ReaderType
    BY <1>1, <2>1 DEF ReaderType
  <2> QED BY <2>1, <2>2
<1>3. SubSeq(DetachKeys, 1, 0) = <<>> /\ <<>> \o <<>> = <<>>
  BY SubSeqEmpty, ConcatEmptySeq, EmptySeq
<1>4. ReaderInv(rd')
  BY <1>1, <1>2, <1>3, Keyed DEF ReaderInv, HandedOn, Held
<1>5. \A n \in 0 .. Len(rd'.taken) : ~Occurs(rd'.taken, n)
  <2>1. \A n \in 0 .. 0 : ~(n + Len(DetachKeys) <= 0)
    BY Keyed
  <2> QED BY <1>1, <1>2, <2>1 DEF Occurs
<1>6. Longest(rd'.taken, 0)
  <2>1. Ends(<<>>, 0)
    BY <1>1 DEF Ends
  <2>2. \A k \in 0 + 1 .. Len(DetachKeys) : ~Ends(<<>>, k)
    BY <1>1 DEF Ends
  <2> QED BY <1>2, <2>1, <2>2 DEF Longest
<1>7. MatchInv'
  BY <1>2, <1>5, <1>6 DEF MatchInv, DetachExact
<1> QED BY <1>2, <1>4, <1>7 DEF ReadInv

LEMMA BufferedKeeps ==
    ASSUME ReadInv, KeysBuffered
    PROVE  ReadInv' /\ rd'.detached = rd.detached
<1>1. PICK n \in 1 .. Len(pipe.keys) :
         /\ rd' = [rd EXCEPT !.buf = SubSeq(pipe.keys, 1, n)]
         /\ pipe' = [pipe EXCEPT !.keys = SubSeq(@, n + 1, Len(@))]
  BY DEF KeysBuffered
<1>2. pipe.keys \in Seq(KeySet) /\ Len(pipe.keys) \in Nat
  BY LenProperties DEF ReadInv, PipeType
<1>3. n \in 0 .. Len(pipe.keys) /\ pipe.keys # <<>>
  BY <1>2, EmptySeq
<1>4. SubSeq(pipe.keys, 1, n) \in Seq(KeySet) /\ SubSeq(pipe.keys, n + 1, Len(pipe.keys)) \in Seq(KeySet)
  BY <1>2, <1>3, Split
<1>5. pipe' \in PipeType
  BY <1>1, <1>4 DEF ReadInv, PipeType
<1>6. /\ rd' \in ReaderType /\ rd'.out = rd.out /\ rd'.pending = rd.pending /\ rd'.sent = rd.sent /\ rd'.taken = rd.taken
      /\ rd'.match = rd.match /\ rd'.detached = rd.detached
  BY <1>1, <1>4 DEF ReadInv, ReaderType
<1>7. ReaderInv(rd')
  BY <1>6 DEF ReadInv, ReaderInv, HandedOn, Held
<1>8. ~Exhausted
  BY <1>3 DEF Exhausted
<1>9. MatchInv'
  BY <1>6, <1>8 DEF ReadInv, MatchInv, DetachExact
<1> QED BY <1>5, <1>6, <1>7, <1>9 DEF ReadInv

LEMMA ScannedKeeps ==
    ASSUME ReadInv, KeysScanned
    PROVE  ReadInv' /\ ~rd.detached
<1> DEFINE r == [rd EXCEPT !.buf = Tail(@)]
           b == Head(rd.buf)
           L == Len(DetachKeys)
<1>1. rd.buf # <<>> /\ ~rd.detached /\ rd' = KeyMatched(r, b) /\ pipe' = pipe
  BY DEF KeysScanned, ReadReturns
<1>2. rd.buf \in Seq(KeySet) /\ rd \in ReaderType /\ ReaderInv(rd) /\ pipe \in PipeType /\ rd.taken \in Seq(KeySet)
      /\ rd.match \in 0 .. L - 1
  BY ReaderParts DEF ReadInv
<1>3. Tail(rd.buf) \in Seq(KeySet) /\ b \in KeySet
  BY <1>1, <1>2, HeadTailProperties
<1>4. /\ r \in ReaderType /\ r.out = rd.out /\ r.pending = rd.pending /\ r.sent = rd.sent /\ r.taken = rd.taken
      /\ r.match = rd.match /\ r.detached = rd.detached
  BY <1>2, <1>3 DEF ReaderType
<1> HIDE DEF r, b
<1>5. ReaderInv(r)
  BY <1>2, <1>4 DEF ReaderInv, HandedOn, Held
<1>6. Longest(rd.taken, rd.match) /\ \A n \in 0 .. Len(rd.taken) : ~Occurs(rd.taken, n)
  BY <1>1 DEF ReadInv, MatchInv, DetachExact
<1> DEFINE m == rd.match
           t == Append(rd.taken, b)
<1>7. /\ rd' \in ReaderType /\ ReaderInv(rd') /\ rd'.taken = t
      /\ \/ b = DetachKeys[m + 1] /\ m + 1 = L /\ rd'.detached
         \/ b = DetachKeys[m + 1] /\ m + 1 < L /\ ~rd'.detached /\ rd'.match = m + 1
         \/ b # DetachKeys[m + 1] /\ m > 0 /\ b = DetachKeys[1] /\ ~rd'.detached /\ rd'.match = 1
         \/ b # DetachKeys[m + 1] /\ (m = 0 \/ b # DetachKeys[1]) /\ ~rd'.detached /\ rd'.match = 0
  BY <1>1, <1>3, <1>4, <1>5, MatchedKeeps
<1>8. /\ b = DetachKeys[m + 1] =>
           /\ m + 1 < L => Longest(t, m + 1)
           /\ Ends(t, L) => m + 1 = L
      /\ b # DetachKeys[m + 1] =>
           /\ ~Ends(t, L)
           /\ m > 0 /\ b = DetachKeys[1] => Longest(t, 1)
           /\ m = 0 \/ b # DetachKeys[1] => Longest(t, 0)
  BY <1>2, <1>3, <1>6, LongestMore
<1>9. \A n \in 0 .. Len(t) : Occurs(t, n) => n + L = Len(t) /\ Ends(t, L)
  BY <1>2, <1>3, <1>6, OccursMore
<1> HIDE DEF t, m
<1>10. ~rd'.detached => Longest(t, rd'.match) /\ ~Ends(t, L)
  <2>1. m + 1 < L => m + 1 # L
    BY <1>2, Keyed DEF m
  <2> QED BY <1>7, <1>8, <2>1
<1>11. DetachExact'
  BY <1>7, <1>9, <1>10 DEF DetachExact
<1> QED BY <1>1, <1>2, <1>7, <1>10, <1>11 DEF ReadInv, MatchInv

LEMMA EndKeeps ==
    ASSUME ReadInv, KeysEnd
    PROVE  ReadInv' /\ rd'.detached = rd.detached
<1>1. rd.buf = <<>> /\ Exhausted /\ pipe' = pipe /\ ~rd.detached
  BY DEF KeysEnd, ReadReturns
<1>2. rd \in ReaderType /\ ReaderInv(rd) /\ pipe \in PipeType /\ HandedOn(rd) \in Seq(KeySet)
      /\ rd.match \in 0 .. Len(DetachKeys) - 1
  BY ReaderParts DEF ReadInv
<1>3. CASE rd' = [rd EXCEPT !.on = FALSE]
  <2>1. /\ rd' \in ReaderType /\ rd'.out = rd.out /\ HandedOn(rd') = HandedOn(rd) /\ rd'.buf = rd.buf
        /\ rd'.match = rd.match /\ rd'.detached = rd.detached /\ rd'.taken = rd.taken
    BY <1>2, <1>3 DEF ReaderType, HandedOn
  <2>2. Len(rd'.out) <= BufCap /\ (Exhausted => Exhausted') /\ pipe' \in PipeType
    BY <1>1, <1>2, <2>1 DEF ReaderInv, Exhausted
  <2> QED BY <2>1, <2>2, SameReader
<1>4. CASE rd' = Emit([rd EXCEPT !.match = 0], SubSeq(DetachKeys, 1, rd.match))
  <2> DEFINE r == [rd EXCEPT !.match = 0]
             d == SubSeq(DetachKeys, 1, rd.match)
  <2>1. 0 \in 0 .. Len(DetachKeys) - 1 /\ rd.match \in 0 .. Len(DetachKeys)
    BY <1>2, Keyed
  <2>2. /\ r \in ReaderType /\ r.out = rd.out /\ HandedOn(r) = HandedOn(rd) /\ r.match = 0
        /\ r.detached = rd.detached /\ r.taken = rd.taken /\ r.buf = rd.buf
    BY <1>2, <2>1 DEF ReaderType, HandedOn
  <2>3. Len(r.out) <= BufCap /\ d \in Seq(KeySet) /\ rd.taken = HandedOn(rd) \o d
    BY <1>1, <1>2, <2>1, <2>2, Starting DEF ReaderInv, Held
  <2>4. rd' = Emit(r, d)
    BY <1>4
  <2> HIDE DEF r, d
  <2>5. /\ rd' \in ReaderType /\ Len(rd'.out) <= BufCap /\ HandedOn(rd') = HandedOn(rd) \o d
        /\ rd'.match = 0 /\ rd'.detached = rd.detached /\ rd'.taken = rd.taken /\ rd'.buf = rd.buf
    BY <2>2, <2>3, <2>4, EmitKeeps, ZenonT(40)
  <2>6. rd'.taken = HandedOn(rd') /\ HandedOn(rd') \in Seq(KeySet)
    BY <2>3, <2>5, ReaderParts
  <2>7. SubSeq(DetachKeys, 1, 0) = <<>> /\ HandedOn(rd') \o <<>> = HandedOn(rd')
    BY <2>6, SubSeqEmpty, ConcatEmptySeq
  <2>8. ReaderInv(rd')
    BY <1>1, <2>5, <2>6, <2>7 DEF ReaderInv, Held
  <2>9. MatchInv'
    BY <1>1, <2>5 DEF ReadInv, MatchInv, DetachExact, Exhausted
  <2> QED BY <1>1, <1>2, <2>5, <2>8, <2>9 DEF ReadInv
<1> QED BY <1>3, <1>4 DEF KeysEnd

LEMMA SendsKeep ==
    ASSUME ReadInv, StdinSends \/ PromptReads
    PROVE  ReadInv' /\ rd'.detached = rd.detached
<1> DEFINE n == Again([rd EXCEPT !.sent = @ \o rd.out])
<1>1. rd \in ReaderType /\ Len(rd.out) <= BufCap /\ pipe \in PipeType
  BY DEF ReadInv, ReaderInv
<1>2. /\ n \in ReaderType /\ Len(n.out) <= BufCap /\ HandedOn(n) = HandedOn(rd) /\ n.buf = rd.buf
      /\ n.match = rd.match /\ n.detached = rd.detached /\ n.taken = rd.taken
  BY <1>1, AgainKeeps
<1>3. pipe' = pipe /\ (rd' = n \/ rd' = [n EXCEPT !.on = FALSE] \/ rd' = [rd EXCEPT !.on = FALSE])
  <2>1. CASE StdinSends
    BY <2>1 DEF StdinSends
  <2>2. CASE PromptReads
    BY <2>2 DEF PromptReads
  <2> QED BY <2>1, <2>2
<1>4. pipe' \in PipeType /\ (Exhausted => Exhausted')
  BY <1>1, <1>3 DEF Exhausted
<1> HIDE DEF n
<1>5. PICK w \in {rd, n} : rd' = w \/ rd' = [w EXCEPT !.on = FALSE]
  BY <1>3
<1>6. /\ w \in ReaderType /\ Len(w.out) <= BufCap /\ HandedOn(w) = HandedOn(rd) /\ w.buf = rd.buf
      /\ w.match = rd.match /\ w.detached = rd.detached /\ w.taken = rd.taken
  BY <1>1, <1>2
<1>7. /\ rd' \in ReaderType /\ rd'.out = w.out /\ rd'.pending = w.pending /\ rd'.sent = w.sent /\ rd'.buf = w.buf
      /\ rd'.match = w.match /\ rd'.detached = w.detached /\ rd'.taken = w.taken
  BY <1>5, <1>6 DEF ReaderType
<1>8. HandedOn(rd') = HandedOn(rd)
  BY <1>6, <1>7 DEF HandedOn
<1>9. Len(rd'.out) <= BufCap
  BY <1>6, <1>7
<1> QED BY <1>4, <1>6, <1>7, <1>8, <1>9, SameReader

\* What a step of the session or of the keyboard does to the reader.
LEMMA OthersKeep ==
    ASSUME ReadInv, rd' = rd, pipe' \in PipeType, Exhausted => Exhausted'
    PROVE  ReadInv'
<1>1. rd \in ReaderType /\ Len(rd.out) <= BufCap
  BY DEF ReadInv, ReaderInv
<1> QED BY <1>1, SameReader

LEMMA TypedKeeps ==
    ASSUME ReadInv, KeyTyped \/ StdinEnds
    PROVE  ReadInv' /\ rd' = rd /\ session' = session /\ (pipe.eof => pipe'.eof)
<1>1. pipe \in PipeType /\ pipe.keys \in Seq(KeySet)
  BY DEF ReadInv, PipeType
<1>2. CASE KeyTyped
  <2>1. PICK k \in KeySet : pipe' = [pipe EXCEPT !.keys = Append(@, k)]
    BY <1>2 DEF KeyTyped
  <2>2. Append(pipe.keys, k) \in Seq(KeySet)
    BY <1>1, AppendProperties
  <2>3. pipe' \in PipeType
    BY <1>1, <2>1, <2>2 DEF PipeType
  <2>4. ~Exhausted /\ rd' = rd /\ ~pipe.eof /\ session' = session
    BY <1>2 DEF KeyTyped, Exhausted
  <2> QED BY <2>3, <2>4, OthersKeep
<1>3. CASE StdinEnds
  <2>1. pipe' \in PipeType /\ ~Exhausted /\ rd' = rd /\ ~pipe.eof /\ session' = session
    BY <1>1, <1>3 DEF StdinEnds, Exhausted, PipeType
  <2> QED BY <2>1, OthersKeep
<1> QED BY <1>2, <1>3

LEMMA ReplacedKeeps ==
    ASSUME ReadInv, pipe' = pipe, rd' \in {rd, NewReader, NoReader}
    PROVE  ReadInv'
<1>1. pipe' \in PipeType /\ (Exhausted /\ rd' = rd => Exhausted')
  BY DEF ReadInv, Exhausted
<1>2. CASE rd' = rd
  BY <1>1, <1>2, OthersKeep
<1>3. CASE rd' # rd
  BY <1>1, <1>3, FreshReader
<1> QED BY <1>2, <1>3

LEMMA ReadStep ==
    ASSUME ReadInv, AttachNext
    PROVE  ReadInv'
<1>1. StickyLooks \/ OpenFails \/ AttachReturns \/ SessionOpens => pipe' = pipe /\ rd' \in {rd, NewReader, NoReader}
  BY DEF StickyLooks, OpenFails, AttachReturns, SessionOpens, ReaderOf
<1>2. StreamEnds \/ AttachDecides \/ (\E w \in {"int", "other"} : AttachSignalled(w)) \/ PromptCancelled
      \/ PromptRestarts \/ CommandExits => pipe' = pipe /\ rd' = rd
  BY DEF StreamEnds, AttachDecides, AttachSignalled, PromptCancelled, PromptRestarts, CommandExits
<1> QED BY <1>1, <1>2, BufferedKeeps, ScannedKeeps, EndKeeps, SendsKeep, TypedKeeps, ReplacedKeeps DEF AttachNext

LEMMA Prompted ==
    ASSUME NEW a \in SessionType
    PROVE  LET n == ToPrompt(a) IN
           /\ n \in SessionType /\ n.phase \in {"done", "prompt"} /\ n.sticky = a.sticky
           /\ n.phase = "done" => (n.res = "nobody" /\ pipe.eof) \/ (n.res = "error" /\ ~n.sticky)
<1>1. CASE ~a.sticky
  BY <1>1 DEF ToPrompt, SessionType, Phases, Results
<1>2. CASE a.sticky /\ Exhausted
  BY <1>2 DEF ToPrompt, SessionType, Phases, Results, Exhausted
<1>3. CASE a.sticky /\ ~Exhausted
  BY <1>3 DEF ToPrompt, SessionType, Phases, Results
<1> QED BY <1>1, <1>2, <1>3 DEF SessionType

LEMMA PromptedEnd ==
    ASSUME session' = ToPrompt(session), session \in SessionType, pipe' = pipe
    PROVE  session' \in SessionType /\ EndInv'
<1>1. /\ session' \in SessionType /\ session'.phase \in {"done", "prompt"}
      /\ session'.phase = "done" => (session'.res = "nobody" /\ pipe'.eof) \/ (session'.res = "error" /\ ~session'.sticky)
  BY Prompted
<1> QED BY <1>1 DEF EndInv

LEMMA SameSession ==
    ASSUME SessInv, session' = session, rd.detached => rd'.detached, pipe.eof => pipe'.eof
    PROVE  session' \in SessionType /\ EndInv'
BY DEF SessInv, EndInv

\* The errors that are reported: a detach only once the keys were seen.
LEMMA ReportKeeps ==
    ASSUME SessInv, NEW e \in Errors, session' = [session EXCEPT !.errs = Append(@, e)],
           e = "detach" => rd.detached, rd.detached => rd'.detached, pipe' = pipe,
           session.phase \in {"attached", "ending"}
    PROVE  session' \in SessionType /\ EndInv'
<1>1. session.errs \in Seq(Errors) /\ session \in SessionType
  BY DEF SessInv, SessionType, Errors
<1> DEFINE s == Append(session.errs, e)
<1>2. /\ s \in Seq(Errors) /\ Len(s) = Len(session.errs) + 1 /\ Len(session.errs) \in Nat
      /\ \A i \in 1 .. Len(session.errs) : s[i] = session.errs[i]
      /\ s[Len(session.errs) + 1] = e
  BY <1>1, AppendProperties, LenProperties
<1>3. session' = [session EXCEPT !.errs = s]
  OBVIOUS
<1> HIDE DEF s
<1>4. /\ session' \in SessionType /\ session'.errs = s /\ session'.phase = session.phase /\ session'.res = session.res
      /\ session'.force = session.force /\ session'.sticky = session.sticky
  BY <1>1, <1>2, <1>3 DEF SessionType, Errors
<1>5. session.phase = "attached" => \A i \in 1 .. Len(s) : s[i] = "detach" => rd'.detached
  <2>1. \A i \in 1 .. Len(s) : i \in 1 .. Len(session.errs) \/ i = Len(session.errs) + 1
    BY <1>2
  <2> QED BY <1>2, <2>1 DEF SessInv, EndInv
<1> QED BY <1>4, <1>5 DEF SessInv, EndInv

LEMMA SessionStep ==
    ASSUME ReadInv, SessInv, AttachNext
    PROVE  session' \in SessionType /\ EndInv'
<1>0. session \in SessionType /\ EndInv /\ pipe \in PipeType /\ rd \in ReaderType
  BY DEF SessInv, ReadInv
<1>1. CASE KeysBuffered
  BY <1>1, BufferedKeeps, SameSession DEF KeysBuffered, ReadInv, PipeType
<1>2. CASE KeysScanned
  BY <1>2, ScannedKeeps, SameSession DEF KeysScanned
<1>3. CASE KeysEnd
  <2>1. pipe' = pipe /\ pipe.eof /\ rd'.detached = rd.detached
    BY <1>3, EndKeeps DEF KeysEnd, Exhausted
  <2>2. CASE session' = session
    BY <2>1, <2>2, SameSession
  <2>3. CASE session' # session
    <3>1. session' = [session EXCEPT !.phase = "done", !.res = "nobody"]
      BY <1>3, <2>3 DEF KeysEnd
    <3> QED BY <1>0, <2>1, <3>1 DEF SessionType, Phases, Results, EndInv
  <2> QED BY <2>2, <2>3
<1>4. CASE StickyLooks
  <2>1. pipe' = pipe /\ (session' = ToPrompt(session) \/ session' = [session EXCEPT !.phase = "open"])
    BY <1>4 DEF StickyLooks
  <2>2. CASE session' = [session EXCEPT !.phase = "open"]
    BY <1>0, <2>2 DEF SessionType, Phases, EndInv
  <2> QED BY <1>0, <2>1, <2>2, PromptedEnd
<1>5. CASE OpenFails
  BY <1>0, <1>5, PromptedEnd DEF OpenFails
<1>6. CASE SessionOpens
  <2>1. session' = [session EXCEPT !.phase = "attached", !.errs = <<>>, !.res = "none", !.force = 0]
    BY <1>6 DEF SessionOpens
  <2> DEFINE es == <<>>
  <2>2. es \in Seq(Errors) /\ Len(es) = 0
    BY EmptySeq
  <2>4. session' = [session EXCEPT !.phase = "attached", !.errs = es, !.res = "none", !.force = 0]
    BY <2>1
  <2> HIDE DEF es
  <2>5. 0 \in 0 .. 3
    OBVIOUS
  <2>3. /\ session' \in SessionType /\ session'.phase = "attached" /\ session'.errs = es
    BY <1>0, <2>2, <2>4, <2>5 DEF SessionType, Phases, Results, Errors
  <2> QED BY <2>2, <2>3 DEF EndInv
<1>7. CASE StdinSends
  <2>1. pipe' = pipe /\ rd'.detached = rd.detached /\ session.phase \in {"attached", "ending"}
    BY <1>7, SendsKeep DEF StdinSends
  <2>2. \/ session' = session
        \/ session' = [session EXCEPT !.errs = Append(@, "error")]
        \/ rd.detached /\ session' = [session EXCEPT !.errs = Append(@, "detach")]
    BY <1>7 DEF StdinSends
  <2>3. CASE session' = session
    BY <2>1, <2>3, SameSession
  <2>4. CASE session' = [session EXCEPT !.errs = Append(@, "error")]
    <3>1. "error" \in Errors
      BY DEF Errors
    <3> QED BY <2>1, <2>4, <3>1, ReportKeeps
  <2>5. CASE rd.detached /\ session' = [session EXCEPT !.errs = Append(@, "detach")]
    <3>1. "detach" \in Errors
      BY DEF Errors
    <3> QED BY <2>1, <2>5, <3>1, ReportKeeps
  <2> QED BY <2>2, <2>3, <2>4, <2>5
<1>8. CASE StreamEnds
  <2>1. pipe' = pipe /\ rd' = rd /\ session.phase = "attached"
    BY <1>8 DEF StreamEnds
  <2>2. PICK e \in {"eof", "error"} : session' = [session EXCEPT !.errs = Append(@, e)]
    BY <1>8 DEF StreamEnds
  <2> QED BY <2>1, <2>2, ReportKeeps DEF Errors
<1>9. ASSUME NEW w \in {"int", "other"}, AttachSignalled(w) PROVE session' \in SessionType /\ EndInv'
  <2>1. /\ session.phase = "attached" /\ rd' = rd /\ session.force \in 0 .. 3 /\ session.force < 3
        /\ session' = [session EXCEPT !.force = IF w = "int" THEN @ + 1 ELSE 0]
    BY <1>0, <1>9 DEF AttachSignalled, SessionType
  <2> DEFINE f == IF w = "int" THEN session.force + 1 ELSE 0
  <2>2. f \in 0 .. 3
    BY <2>1
  <2>3. session' = [session EXCEPT !.force = f]
    BY <2>1
  <2> HIDE DEF f
  <2>4. session' \in SessionType /\ session'.phase = "attached" /\ session'.errs = session.errs
    BY <1>0, <2>1, <2>2, <2>3 DEF SessionType
  <2> QED BY <1>0, <2>1, <2>4 DEF EndInv
<1>10. CASE AttachDecides
  <2>1. session.phase = "attached" /\ rd' = rd /\ pipe' = pipe
    BY <1>10 DEF AttachDecides
  <2>2. session.errs \in Seq(Errors) /\ Len(session.errs) \in Nat
    BY <1>0, LenProperties DEF SessionType, Errors
  <2>3. PICK res : /\ session' = [session EXCEPT !.phase = "ending", !.res = res]
                   /\ \/ session.errs # <<>> /\ res = Head(session.errs)
                      \/ session.force = 3 /\ res = "force"
                      \/ res = "ctx"
    BY <1>10 DEF AttachDecides
  <2>4. session.errs # <<>> => Head(session.errs) \in Errors /\ Head(session.errs) = session.errs[1] /\ 1 \in 1 .. Len(session.errs)
    BY <2>2, HeadTailProperties, EmptySeq
  <2>5. res \in Results /\ res # "nobody" /\ (res = "detach" => rd.detached) /\ (res = "force" => session.force = 3)
    <3>1. CASE session.errs # <<>> /\ res = Head(session.errs)
      <4>1. res \in Errors /\ res = session.errs[1] /\ 1 \in 1 .. Len(session.errs)
        BY <2>4, <3>1
      <4>2. res = "detach" => rd.detached
        BY <1>0, <2>1, <4>1 DEF EndInv
      <4> QED BY <4>1, <4>2 DEF Errors, Results
    <3>2. CASE session.force = 3 /\ res = "force"
      BY <3>2 DEF Results
    <3>3. CASE res = "ctx"
      BY <3>3 DEF Results
    <3> QED BY <2>3, <3>1, <3>2, <3>3
  <2>6. /\ session' \in SessionType /\ session'.phase = "ending" /\ session'.res = res /\ session'.force = session.force
    BY <1>0, <2>3, <2>5 DEF SessionType, Phases
  <2> QED BY <2>1, <2>5, <2>6 DEF EndInv
<1>11. CASE AttachReturns
  <2>1. session.phase = "ending" /\ pipe' = pipe /\ rd' = ReaderOf(session')
    BY <1>11 DEF AttachReturns
  <2>2. CASE session.res \in {"detach", "force", "ctx"} \/ ~session.sticky
    <3>1. session' = [session EXCEPT !.phase = "done"]
      BY <1>11, <2>2 DEF AttachReturns
    <3>2. /\ session' \in SessionType /\ session'.phase = "done" /\ session'.res = session.res
          /\ session'.force = session.force /\ session'.sticky = session.sticky
      BY <1>0, <3>1 DEF SessionType, Phases
    <3>3. rd' = rd
      BY <2>1, <3>2 DEF ReaderOf
    <3>4. session.res # "nobody"
      BY <1>0, <2>1 DEF EndInv
    <3> QED BY <1>0, <2>1, <2>2, <3>2, <3>3, <3>4 DEF EndInv
  <2>3. CASE ~(session.res \in {"detach", "force", "ctx"} \/ ~session.sticky) /\ session.res = "eof"
    <3>1. session' = [session EXCEPT !.phase = "look"]
      BY <1>11, <2>3 DEF AttachReturns
    <3> QED BY <1>0, <3>1 DEF SessionType, Phases, EndInv
  <2>4. CASE ~(session.res \in {"detach", "force", "ctx"} \/ ~session.sticky) /\ session.res # "eof"
    <3>1. session' = ToPrompt(session)
      BY <1>11, <2>4 DEF AttachReturns
    <3> QED BY <1>0, <2>1, <3>1, PromptedEnd
  <2> QED BY <2>2, <2>3, <2>4
<1>12. CASE PromptReads
  <2>1. pipe' = pipe /\ rd'.detached = rd.detached
    BY <1>12, SendsKeep DEF PromptReads
  <2>2. \/ session' = session
        \/ session' = [session EXCEPT !.phase = "restart"]
        \/ rd.detached /\ session' = [session EXCEPT !.phase = "done", !.res = "detach"]
    BY <1>12 DEF PromptReads
  <2>3. CASE session' = session
    BY <2>1, <2>3, SameSession
  <2>4. CASE session' = [session EXCEPT !.phase = "restart"]
    BY <1>0, <2>4 DEF SessionType, Phases, EndInv
  <2>5. CASE rd.detached /\ session' = [session EXCEPT !.phase = "done", !.res = "detach"]
    BY <1>0, <2>1, <2>5 DEF SessionType, Phases, Results, EndInv
  <2> QED BY <2>2, <2>3, <2>4, <2>5
<1>13. CASE PromptCancelled
  BY <1>0, <1>13 DEF PromptCancelled, SessionType, Phases, Results, EndInv
<1>14. CASE PromptRestarts
  BY <1>0, <1>14 DEF PromptRestarts, SessionType, Phases, EndInv
<1>15. CASE KeyTyped \/ StdinEnds
  BY <1>15, TypedKeeps, SameSession
<1>16. CASE CommandExits
  BY <1>16, SameSession DEF CommandExits
<1> QED BY <1>1, <1>2, <1>3, <1>4, <1>5, <1>6, <1>7, <1>8, <1>9, <1>10, <1>11, <1>12, <1>13, <1>14, <1>15, <1>16 DEF AttachNext

LEMMA AttachTurn == AttachInv /\ (AttachNext \/ UNCHANGED attachVars) => AttachInv'
<1> SUFFICES ASSUME AttachInv, AttachNext \/ UNCHANGED attachVars PROVE AttachInv'
  OBVIOUS
<1>0. ReadInv /\ SessInv
  BY DEF AttachInv
<1>1. CASE UNCHANGED attachVars
  BY <1>0, <1>1 DEF attachVars, AttachInv, ReadInv, SessInv, MatchInv, DetachExact, Exhausted, EndInv
<1>2. CASE AttachNext
  <2>1. remote' \in RemoteType
    <3>1. remote \in RemoteType
      BY <1>0 DEF SessInv
    <3>2. remote' = remote \/ (\E u \in BOOLEAN : remote' \in {[remote EXCEPT !.over = u], [remote EXCEPT !.up = u]})
          \/ \E u \in {remote.up, TRUE} : remote' = [remote EXCEPT !.up = u]
      BY <1>2 DEF AttachNext, KeysBuffered, KeysScanned, KeysEnd, StickyLooks, SessionOpens, OpenFails, StdinSends,
                  StreamEnds, AttachDecides, AttachReturns, AttachSignalled, PromptReads, PromptCancelled,
                  PromptRestarts, KeyTyped, StdinEnds, CommandExits
    <3> QED BY <3>1, <3>2 DEF RemoteType
  <2> QED BY <1>0, <1>2, <2>1, ReadStep, SessionStep DEF AttachInv, SessInv
<1> QED BY <1>1, <1>2

LEMMA AttachStart == AttachInit => AttachInv
<1> SUFFICES ASSUME AttachInit PROVE AttachInv
  OBVIOUS
<1>1. 0 \in 0 .. Len(DetachKeys) - 1 /\ <<>> \in Seq(KeySet) /\ Len(<<>>) = 0 /\ Len(DetachKeys) \in Nat
      /\ <<>> \in Seq(Errors)
  BY Keyed, EmptySeq
<1>2. pipe \in PipeType
  BY <1>1 DEF AttachInit, PipeType
<1>3. /\ rd \in ReaderType /\ rd.out = <<>> /\ rd.pending = <<>> /\ rd.sent = <<>> /\ rd.taken = <<>>
      /\ rd.match = 0 /\ rd.detached = FALSE
  <2>1. rd = [on |-> FALSE, buf |-> <<>>, match |-> 0, out |-> <<>>, pending |-> <<>>, detached |-> FALSE,
              taken |-> <<>>, sent |-> <<>>]
    BY DEF AttachInit, NoReader
  <2>2. rd \in ReaderType
    BY <1>1, <2>1 DEF ReaderType
  <2> QED BY <2>1, <2>2
<1>4. SubSeq(DetachKeys, 1, 0) = <<>> /\ <<>> \o <<>> = <<>>
  BY SubSeqEmpty, ConcatEmptySeq, EmptySeq
<1>5. ReaderInv(rd)
  BY <1>1, <1>3, <1>4, Keyed DEF ReaderInv, HandedOn, Held
<1>6. DetachExact
  <2>1. \A n \in 0 .. 0 : ~(n + Len(DetachKeys) <= 0)
    BY Keyed
  <2> QED BY <1>1, <1>3, <2>1 DEF Occurs, DetachExact
<1>7. Longest(rd.taken, 0)
  <2>1. Ends(<<>>, 0)
    BY <1>1 DEF Ends
  <2>2. \A k \in 0 + 1 .. Len(DetachKeys) : ~Ends(<<>>, k)
    BY <1>1 DEF Ends
  <2> QED BY <1>3, <2>1, <2>2 DEF Longest
<1>8. ReadInv
  BY <1>2, <1>3, <1>5, <1>6, <1>7 DEF ReadInv, MatchInv
<1>9. PICK st \in BOOLEAN : session = [phase |-> "look", sticky |-> st, errs |-> <<>>, res |-> "none", force |-> 0]
  BY DEF AttachInit
<1>10. session \in SessionType /\ session.phase = "look"
  BY <1>1, <1>9 DEF SessionType, Phases, Results, Errors
<1>11. remote \in RemoteType
  <2>1. PICK u \in BOOLEAN : remote = [up |-> u, over |-> TRUE]
    BY DEF AttachInit
  <2> QED BY <2>1 DEF RemoteType
<1> QED BY <1>8, <1>10, <1>11 DEF AttachInv, SessInv, EndInv

LEMMA AttachSafe == AttachInv => AttachSafety
<1> SUFFICES ASSUME AttachInv PROVE AttachSafety
  OBVIOUS
<1>1. KeysHandedOn
  BY DEF AttachInv, ReadInv, ReaderInv, Held, KeysHandedOn
<1>2. DetachExact
  BY DEF AttachInv, ReadInv, MatchInv
<1>3. StickyStays
  BY DEF AttachInv, SessInv, EndInv, StickyStays
<1> QED BY <1>1, <1>2, <1>3 DEF AttachSafety

\* The inductive invariant of an attach, through keys that come in any chunks,
\* a buffer of any size, streams that end and break, and prompts in between.
THEOREM AttachInvariant == TuiSpec => []AttachInv
<1>1. TuiInit => AttachInv
  BY AttachStart DEF TuiInit
<1>2. AttachInv /\ [TuiNext]_tuiVars => AttachInv'
  <2> SUFFICES ASSUME AttachInv, [TuiNext]_tuiVars PROVE AttachInv'
    OBVIOUS
  <2>1. AttachNext \/ UNCHANGED attachVars
    BY DEF TuiNext, tuiVars, AttachSteps
  <2> QED BY <2>1, AttachTurn
<1> QED BY <1>1, <1>2, PTL DEF TuiSpec

\* The rows, markers, spinner, overlays and viewer of the keys stand for what is
\* under way, for any number of keys, actions and ups; and an attach hands on
\* what is typed but for the detach keys, sees these just when they were typed,
\* and ends a sticky session for the user only, for any such keys and buffer.
THEOREM KeysHolds == TuiSpec => []KeysSafety
<1>1. KeysInv /\ AttachInv => KeysSafety
  BY KeysSafe, AttachSafe DEF KeysSafety
<1> QED BY <1>1, KeysInvariant, AttachInvariant, PTL

-----------------------------------------------------------------------------
(* What arrives late moves neither the selection nor the target of a question. *)

\* A re-list finds the command that was selected.
LEMMA ListKeepsSelection ==
    SelectionKept
<1> SUFFICES ASSUME NEW l \in lists, CommandsListed(l), Selected \in KCmds,
                    \E i \in 1 .. Len(Visible') : Visible'[i] = Selected
             PROVE  Selected' = Selected
  BY DEF SelectionKept
<1> DEFINE rs == [c \in KCmds |-> [st |-> l[c], pending |-> "none"]]
           vs == VisibleRows(rs, fold, filter)
<1>1. Visible' = vs /\ at' = Reselected(rs, Selected)
  BY DEF CommandsListed, Visible
<1>2. Len(vs) \in Nat
  BY RowsVisible
<1>3. at' = IndexOf(vs, Selected)
  BY <1>1 DEF Reselected
<1> HIDE DEF rs, vs
<1>4. PICK i \in 1 .. Len(vs) : vs[i] = Selected
  BY <1>1
<1>5. at' \in 1 .. Len(vs) /\ vs[at'] = Selected
  BY <1>3, <1>4 DEF IndexOf
<1>6. vs # <<>> /\ ~(at' > Len(vs))
  BY <1>2, <1>5
<1> QED BY <1>1, <1>5, <1>6 DEF Selected

\* A removal begins from the popup alone, which asks about one command.
LEMMA RemovalAsked ==
    ASSUME KeysInv, KeysNext
    PROVE  RemovesAsked
<1> SUFFICES ASSUME NEW i \in 1 .. MaxActs, act[i] = NoAct, act'[i].verb = "remove" PROVE act'[i].cmd = asked
  BY DEF RemovesAsked
<1>0. act # act'
  BY DEF NoAct
<1>1. ASSUME NEW verb \in {"start", "stop", "restart"}, LifecycleKey(verb) PROVE FALSE
  BY <1>1 DEF LifecycleKey, Begins, KeysInv, KeysType, NoAct
<1>2. CASE ConfirmRemove
  BY <1>2 DEF ConfirmRemove, Begins, KeysInv, KeysType, AskInv, NoAct, PopupTarget
<1>3. ASSUME NEW j \in 1 .. MaxActs, ActionDone(j) PROVE FALSE
  BY <1>3 DEF ActionDone, KeysInv, KeysType, NoAct
<1>4. CASE Acting
  BY <1>1, <1>2, <1>4 DEF Acting
<1>5. SpinnerTick \/ ConfirmUp => act' = act
  BY DEF SpinnerTick, ConfirmUp, commands
<1>6. Selecting \/ Asks \/ Views \/ Ups \/ Stirs \/ Lands => act' = act
  BY SelectingLeaves, AsksLeave, ViewsLeave, UpsLeave, StirsLeave, LandsLeaves
<1> QED BY <1>0, <1>3, <1>4, <1>5, <1>6, KeysCases

\* A rebuild finds the group that was selected.
LEMMA RebuildStays ==
    ASSUME NEW ps, NEW all, NEW id, NEW c, Rebuild(ps, all, id, c),
           \E i \in 1 .. Len(groups') : groups'[i].key = SelectedKey
    PROVE  SelectedKey' = SelectedKey
<1>1. focus' = CHOOSE i \in 1 .. Len(groups') : groups'[i].key = SelectedKey
  BY DEF Rebuild, Reselect
<1>2. focus' \in 1 .. Len(groups') /\ groups'[focus'].key = SelectedKey
  BY <1>1
<1> QED BY <1>2 DEF SelectedKey

\* The keys pressed are counted.
SwitchInv == strokes \in Nat
\* Whatever is no key leaves the groups and the selection, or rebuilds them.
LEMMA RebuildsStay ==
    ASSUME SwitchInv, SwitchNext, strokes' = strokes
    PROVE  \/ UNCHANGED <<groups, focus>>
           \/ \E ps, all, id, c : Rebuild(ps, all, id, c)
<1>1. ~Stroke
  BY DEF Stroke, SwitchInv
<1>2. CASE (\E c \in {Watched, "c3"} : Change(c)) \/ Reloads \/ CommandsRead \/ ProjectsRead \/ Rings \/ Attached
           \/ \E i \in 1 .. SwKeys : DownReports(i) \/ DownEnds(i)
  BY <1>2 DEF Change, Reloads, CommandsRead, ProjectsRead, Rings, Attached, Tells, DownReports, DownEnds, SameLists
<1>3. CASE SwitchLoaded \/ ProjectsLoaded \/ (\E id \in {"", "w3"} : IdentityLoaded(id)) \/ SwitchUpdate
  BY <1>3, Zenon DEF SwitchLoaded, ProjectsLoaded, IdentityLoaded, SwitchUpdate
<1>4. ~((\E d \in {-1, 1} : MoveSelection(d)) \/ (\E i \in 1 .. 4 : SwitchTo(i)) \/ AskDown
        \/ (\E yes \in BOOLEAN : AnswerKey(yes)))
  BY <1>1 DEF MoveSelection, SwitchTo, AskDown, AnswerKey
<1> QED BY <1>2, <1>3, <1>4 DEF SwitchNext

\* So the selection stays on its project while that is there.
LEMMA SelectionSteps ==
    ASSUME SwitchInv, SwitchNext \/ UNCHANGED switchVars
    PROVE  SelectionStays /\ SwitchInv'
<1>1. SelectionStays
  <2> SUFFICES ASSUME \E i \in 1 .. Len(groups') : groups'[i].key = SelectedKey, strokes' = strokes
               PROVE  SelectedKey' = SelectedKey
    BY DEF SelectionStays
  <2>1. CASE UNCHANGED <<groups, focus>>
    BY <2>1 DEF SelectedKey
  <2>2. CASE \E ps, all, id, c : Rebuild(ps, all, id, c)
    BY <2>2, RebuildStays
  <2> QED BY <2>1, <2>2, RebuildsStay DEF switchVars
<1>2. SwitchInv'
  <2>1. strokes' = strokes \/ Stroke
    <3>1. CASE (\E c \in {Watched, "c3"} : Change(c)) \/ Reloads \/ CommandsRead \/ ProjectsRead \/ Rings \/ Attached
               \/ \E i \in 1 .. SwKeys : DownReports(i) \/ DownEnds(i)
      BY <3>1 DEF Change, Reloads, CommandsRead, ProjectsRead, Rings, Attached, Tells, DownReports, DownEnds
    <3>2. CASE SwitchLoaded \/ ProjectsLoaded \/ (\E id \in {"", "w3"} : IdentityLoaded(id)) \/ SwitchUpdate
      BY <3>2 DEF SwitchLoaded, ProjectsLoaded, IdentityLoaded, SwitchUpdate
    <3>3. CASE (\E d \in {-1, 1} : MoveSelection(d)) \/ (\E i \in 1 .. 4 : SwitchTo(i)) \/ AskDown
               \/ (\E yes \in BOOLEAN : AnswerKey(yes))
      BY <3>3 DEF MoveSelection, SwitchTo, AskDown, AnswerKey
    <3> QED BY <3>1, <3>2, <3>3 DEF SwitchNext, switchVars
  <2> QED BY <2>1 DEF Stroke, SwitchInv
<1> QED BY <1>1, <1>2

\* The calls under way: a slot each.
CallsInv == calls = [i \in 1 .. LaunchActs |-> calls[i]]

\* Calls begin as what they are, in free slots.
LEMMA CallsBegin ==
    ASSUME NEW verb, NEW ts, Calls(verb, ts)
    PROVE  /\ CallsInv'
           /\ \A i \in 1 .. LaunchActs : calls'[i] = calls[i] \/ calls'[i].verb = verb
BY DEF Calls, CallsInv

\* A teardown alone is of its target.
LEMMA DownBegins ==
    ASSUME NEW t, Calls("down", <<t>>), NEW i \in 1 .. LaunchActs, calls[i] = NoCall, calls'[i].verb = "down"
    PROVE  calls'[i].of = t
<1> DEFINE S == {j \in FreeCalls : j <= i}
           k == Cardinality(S)
<1>1. calls'[i] = IF i \in FreeCalls /\ k <= Len(<<t>>) THEN [verb |-> "down", of |-> <<t>>[k], st |-> "working"] ELSE calls[i]
  BY DEF Calls
<1>2. i \in FreeCalls /\ k <= Len(<<t>>) /\ calls'[i].of = <<t>>[k]
  BY <1>1 DEF NoCall
<1>3. IsFiniteSet(S) /\ S # {}
  <2>1. IsFiniteSet(1 .. i)
    BY FS_Interval
  <2>2. S \subseteq 1 .. i
    BY DEF FreeCalls
  <2>3. IsFiniteSet(S)
    BY <2>1, <2>2, FS_Subset
  <2> QED BY <1>2, <2>3
<1>4. k \in Nat /\ k # 0
  BY <1>3, FS_CardinalityType, FS_EmptySet
<1> HIDE DEF k, S
<1>5. k = 1
  BY <1>2, <1>4
<1> QED BY <1>2, <1>5

\* No call but one of AnswerDown begins as a teardown.
NoDown == \A i \in 1 .. LaunchActs : calls'[i] = calls[i] \/ calls[i] # NoCall \/ calls'[i].verb # "down"

\* A call under way may change, and end.
LEMMA CallChanged ==
    ASSUME CallsInv, NEW i \in 1 .. LaunchActs, NEW c, calls[i] # NoCall \/ c = NoCall,
           calls' = [calls EXCEPT ![i] = c]
    PROVE  CallsInv' /\ NoDown
<1>1. calls' = [j \in 1 .. LaunchActs |-> IF j = i THEN c ELSE calls[j]]
  BY DEF CallsInv
<1> QED BY <1>1 DEF CallsInv, NoDown, NoCall

\* Replies begin no call.
LEMMA CallsReply ==
    ASSUME CallsInv, NEW i \in 1 .. LaunchActs,
           Finish(i) \/ BroughtUp(i) \/ Landed(i) \/ Forgot(i) \/ TornDown(i) \/ DownProgress(i) \/ LastDown(i)
    PROVE  CallsInv' /\ NoDown
<1>1. CASE Finish(i)
  <2>1. PICK st : calls' = [calls EXCEPT ![i].st = st]
    BY <1>1, Zenon DEF Finish
  <2>2. calls' = [calls EXCEPT ![i] = [calls[i] EXCEPT !.st = st]]
    BY <2>1
  <2>3. calls[i] # NoCall
    BY <1>1 DEF Finish, NoCall
  <2> QED BY <2>2, <2>3, CallChanged
<1>2. ASSUME NEW st, Delivers(i, st) PROVE CallsInv' /\ NoDown
  BY <1>2, CallChanged DEF Delivers
<1>3. CASE BroughtUp(i) \/ Forgot(i) \/ TornDown(i)
  BY <1>2, <1>3, Zenon DEF BroughtUp, Forgot, TornDown
<1>4. CASE Landed(i)
  BY <1>4 DEF Landed, Closes, CallsInv, NoDown, NoCall
<1>5. CASE DownProgress(i)
  BY <1>5 DEF DownProgress, CallsInv, NoDown
<1>6. CASE LastDown(i)
  <2>1. calls[i] # NoCall
    BY <1>6 DEF LastDown, NoCall
  <2>2. CASE calls' = [calls EXCEPT ![i] = NoCall]
    BY <2>2, CallChanged
  <2>3. CASE calls' = [calls EXCEPT ![i].verb = "down"]
    <3>1. calls' = [calls EXCEPT ![i] = [calls[i] EXCEPT !.verb = "down"]]
      BY <2>3
    <3> QED BY <2>1, <3>1, CallChanged
  <2> QED BY <1>6, <2>2, <2>3, Zenon DEF LastDown
<1> QED BY <1>1, <1>3, <1>4, <1>5, <1>6

\* Nothing begins when no call changes.
LEMMA CallsSame == ASSUME CallsInv, calls' = calls PROVE CallsInv' /\ NoDown
BY DEF CallsInv, NoDown

\* The keys that only move and type, and the reads, leave the calls.
LEMMA CallsKept ==
    ASSUME CallsInv,
           \/ \E w \in {"w", "/t", "/tt", "/ttx"} : TypeKey(w)
           \/ EraseKey \/ ClearKey \/ TabKey \/ BackTabKey \/ EscKey \/ EnterKey
           \/ \E d \in {-1, 1} : MoveCursor(d)
           \/ \E z \in {"input", "left", "right"}, i \in 1..3 : ClickAt(z, i)
           \/ ToggleRow \/ SlashKey \/ ConfirmDown \/ AnswerDown(FALSE)
           \/ (~over /\ Tick) \/ ListRead \/ ResolveTyped \/ \E d \in OnDisk : LookupReads(d) \/ \E l \in resolving[d].read : Resolved(d, l)
    PROVE  CallsInv' /\ NoDown
<1>1. ASSUME NEW w, Rearms(w) PROVE calls' = calls
  BY <1>1 DEF Rearms
<1>2. CASE (\E w \in {"w", "/t", "/tt", "/ttx"} : TypeKey(w)) \/ EraseKey \/ ClearKey \/ TabKey \/ BackTabKey
  <2>1. calls' = calls
    BY <1>1, <1>2, Zenon DEF TypeKey, EraseKey, ClearKey, TabKey, BackTabKey
  <2> QED BY <2>1, CallsSame
<1>3. CASE EscKey
  <2>1. CASE calls' = calls
    BY <2>1, CallsSame
  <2>2. CASE Closes
    BY <2>2 DEF Closes, CallsInv, NoDown, NoCall
  <2> QED BY <1>1, <1>3, <2>1, <2>2, Zenon DEF EscKey
<1>4. CASE EnterKey \/ (\E d \in {-1, 1} : MoveCursor(d)) \/ ToggleRow \/ SlashKey
  <2>1. calls' = calls
    BY <1>1, <1>4, Zenon DEF EnterKey, MoveCursor, ToggleRow, SlashKey
  <2> QED BY <2>1, CallsSame
<1>5. CASE (\E z \in {"input", "left", "right"}, i \in 1..3 : ClickAt(z, i)) \/ ConfirmDown \/ AnswerDown(FALSE)
           \/ (~over /\ Tick) \/ ListRead \/ ResolveTyped \/ \E d \in OnDisk : LookupReads(d) \/ \E l \in resolving[d].read : Resolved(d, l)
  <2>1. calls' = calls
    BY <1>5 DEF ClickAt, ConfirmDown, AnswerDown, Tick, ListRead, launchAsync, ResolveTyped, LookupReads, Resolved
  <2> QED BY <2>1, CallsSame
<1> QED BY <1>2, <1>3, <1>4, <1>5

\* The keys that act, but for the answer, and a listing begin other calls.
LEMMA CallsAct ==
    ASSUME CallsInv, StartKey \/ LaunchSelected \/ MuxDownSelected \/ DropKey \/ TargetsLoaded
    PROVE  CallsInv' /\ NoDown
<1>1. calls' = calls \/ \E verb \in {"start", "launch", "muxdown", "forget", "look"} : \E ts : Calls(verb, ts)
  <2>1. CASE StartKey
    BY <2>1, Zenon DEF StartKey
  <2>2. CASE LaunchSelected
    BY <2>2, Zenon DEF LaunchSelected
  <2>3. CASE MuxDownSelected \/ DropKey
    BY <2>3, Zenon DEF MuxDownSelected, DropKey, ActsOn
  <2>4. CASE TargetsLoaded
    <3>1. UNCHANGED <<calls, crossed>> \/ \E ts : Calls("look", ts)
      BY <2>4, Zenon DEF TargetsLoaded
    <3> QED BY <3>1
  <2> QED BY <2>1, <2>2, <2>3, <2>4
<1>2. ASSUME NEW verb \in {"start", "launch", "muxdown", "forget", "look"}, NEW ts, Calls(verb, ts)
      PROVE  CallsInv' /\ NoDown
  BY <1>2, CallsBegin DEF NoDown
<1> QED BY <1>1, <1>2, CallsSame

\* A teardown begins with the answer to its question.
LEMMA DownSteps ==
    ASSUME CallsInv, LaunchNext \/ UNCHANGED launchVars
    PROVE  DownsAsked /\ CallsInv'
<1>1. NoDown => DownsAsked
  BY DEF NoDown, DownsAsked, NoCall
<1>2. CASE AnswerDown(TRUE)
  <2>1. Calls("down", <<question>>)
    BY <1>2 DEF AnswerDown, ActsOn, DownsQuestion
  <2> QED BY <2>1, DownBegins, CallsBegin DEF DownsAsked
<1>3. CASE UNCHANGED launchVars
  BY <1>1, <1>3, CallsSame DEF launchVars, launchAsync
<1>4. CASE LaunchNext
  BY <1>1, <1>2, <1>4, CallsKept, CallsAct, CallsReply DEF LaunchNext
<1> QED BY <1>3, <1>4

\* TuiSteps: a list that lands under the user keeps the selection on its command
\* or project, and what is removed or torn down is what was asked about, for any
\* number of keys, actions, calls and listings.
THEOREM StepsHold == TuiSpec => TuiSteps
<1> DEFINE Inv == KeysInv /\ SwitchInv /\ CallsInv
           A == SelectionKept /\ RemovesAsked /\ DownsAsked /\ SelectionStays
<1>1. TuiInit => SwitchInv /\ CallsInv
  <2> SUFFICES ASSUME TuiInit PROVE SwitchInv /\ CallsInv
    OBVIOUS
  <2>1. strokes = 0 /\ calls = [i \in 1 .. LaunchActs |-> NoCall]
    BY Zenon DEF TuiInit, SwitchInit, LaunchInit
  <2> QED BY <2>1 DEF SwitchInv, CallsInv
<1>2. SwitchInv /\ CallsInv /\ [TuiNext]_tuiVars => SwitchInv' /\ CallsInv' /\ SelectionStays /\ DownsAsked
  <2> SUFFICES ASSUME SwitchInv, CallsInv, [TuiNext]_tuiVars
               PROVE  SwitchInv' /\ CallsInv' /\ SelectionStays /\ DownsAsked
    OBVIOUS
  <2>1. SwitchNext \/ UNCHANGED switchVars
    BY DEF TuiNext, tuiVars, SwitcherSteps
  <2>2. LaunchNext \/ UNCHANGED launchVars
    BY DEF TuiNext, tuiVars, LauncherSteps
  <2> QED BY <2>1, <2>2, SelectionSteps, DownSteps
<1>3. KeysInv /\ [TuiNext]_tuiVars => RemovesAsked
  <2> SUFFICES ASSUME KeysInv, [TuiNext]_tuiVars PROVE RemovesAsked
    OBVIOUS
  <2>1. KeysNext \/ UNCHANGED keysVars
    BY DEF TuiNext, tuiVars, KeysStep
  <2>2. CASE UNCHANGED keysVars
    BY <2>2 DEF keysVars, RemovesAsked, NoAct
  <2> QED BY <2>1, <2>2, RemovalAsked
<1>4. Inv /\ [TuiNext]_tuiVars => [A]_tuiVars
  BY <1>2, <1>3, ListKeepsSelection
<1>5. TuiSpec => [](SwitchInv /\ CallsInv)
  BY <1>1, <1>2, PTL DEF TuiSpec
<1> QED BY <1>4, <1>5, KeysInvariant, PTL DEF TuiSpec, TuiSteps
=============================================================================
