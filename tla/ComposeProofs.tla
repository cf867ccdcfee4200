--------------------------- MODULE ComposeProofs ---------------------------
(***************************************************************************)
(* Proofs about compose, each for every value of the constants: one        *)
(* replica, its hooks and its resources (ComposeReplica), the logs of a    *)
(* project (ComposeLogs), and the project: the layers of its graph, what a *)
(* create converges to, and restart (ComposeProject).                      *)
(***************************************************************************)
EXTENDS Compose, FiniteSetTheorems, SequenceTheorems, WellFoundedInduction, TLAPS

-----------------------------------------------------------------------------
(* The inductive invariant of a replica                                    *)

RelEvents == {"stop_pre", "stop_post", "remove_pre", "remove_post"}
DownOps == {"down", "downcmd", "force"}
Phases == {"list", "snapshot", "stop", "retry", "remove", "rerelease", "create", "relist", "start",
           "strand", "stranded", "done"}
HeldRecords ==
    [value : Values, hook : Names, release : RelEvents \cup {"none"}, onError : OnErrors]
RecRecords ==
    [holder : [value : Values \cup {Nothing}, hook : Names, release : RelEvents, onError : OnErrors],
     reportOnly : BOOLEAN, retried : BOOLEAN]
StepRecords ==
    [what : Pairs \cup {"hook", "release"}, hook : Hooks, ev : Events,
     held : HeldRecords \cup {Nothing}, onError : OnErrors]
HookLists == Specs \cup {<<>>}
Invocations ==
    [op : Operations \cup {"idle", "over"}, phase : Phases, todo : Seq(StepRecords),
     err : {"none", "hook", "op"}, pend : Values \cup {"no", "drop"}, want : HookLists,
     old : HookLists, src : {"spec", "stored"}, listed : BOOLEAN, stopped : BOOLEAN,
     removed : BOOLEAN, kept : BOOLEAN, held : BOOLEAN, bad : BOOLEAN,
     rec : [Keys -> RecRecords \cup {Nothing}], runs : [Keys -> Nat], cancelled : BOOLEAN,
     was : Operations \cup {"idle"}]

ReplicaType ==
    /\ file \in Specs /\ state \in States /\ stored \in HookLists
    /\ holder \in [Keys -> HeldRecords \cup {Nothing}] /\ left \in Lefts
    /\ fate \in [Values -> Fates] /\ twice \in BOOLEAN
    /\ inv \in Invocations
    /\ state = "absent" => stored = <<>>
    /\ \A k \in Keys : inv.rec[k] # Nothing /\ ~inv.rec[k].reportOnly =>
          inv.rec[k].holder.value \in Values

\* The phases each operation goes through.
PhaseOK ==
    /\ inv.op \in {"idle", "over"} <=> inv.phase = "done"
    /\ inv.phase \in {"list", "snapshot", "relist", "strand", "done"} => inv.todo = <<>>
    /\ inv.phase \in {"snapshot", "retry", "strand", "stranded"} => IsDown
    /\ inv.phase \in {"create", "relist"} => inv.op = "up"
    /\ inv.phase = "start" => inv.op \in {"up", "start", "restart"}
    /\ inv.phase = "rerelease" => inv.op \in {"up", "excess"}
    /\ inv.op # "over" => inv.was = "idle"

\* A step belongs to the phase it waits in.
StepOK(s) ==
    /\ inv.phase \in Pairs \cup {"retry", "rerelease", "stranded"}
    /\ inv.phase \in Pairs =>
        /\ s.what \in {"hook", inv.phase} /\ s.ev \in {Pre[inv.phase], Post[inv.phase]}
        /\ s.what = inv.phase => s.hook.res = Nothing
        /\ s.what = "hook" => s.hook.on[s.ev] # "unset"
        /\ s.what = "hook" /\ Forced => s.onError # "fail"
    /\ inv.phase \notin Pairs =>
        /\ s.what = "release" /\ s.ev \in RelEvents /\ s.hook.on[s.ev] # "unset"
        /\ s.held # Nothing /\ s.hook.res \in Keys
StepsOK == \A i \in DOMAIN inv.todo : StepOK(inv.todo[i])

\* No resource is the business of two steps.
StepsApart ==
    \A i, j \in DOMAIN inv.todo :
        i # j /\ inv.todo[i].hook.res \in Keys => inv.todo[i].hook.res # inv.todo[j].hook.res

PendOK ==
    inv.pend # "no" =>
        /\ inv.todo # <<>> /\ Cur.what \in {"hook", "release"} /\ Cur.hook.res \in Keys
        /\ inv.pend = "drop" <=> ~Acquires(Cur.ev)

ShapeOK == PhaseOK /\ StepsOK /\ StepsApart /\ PendOK

-----------------------------------------------------------------------------
(* Values                                                                  *)

\* The places that name a value of the resource k: its holder, what the
\* recorder has noted before the retries, a release that is still to run.
InHolder(k, v) == holder[k] # Nothing /\ holder[k].value = v
InRec(k, v) ==
    /\ inv.phase = "stop" /\ inv.rec[k] # Nothing
    /\ ~inv.rec[k].reportOnly /\ inv.rec[k].holder.value = v
InTodo(k, v) ==
    \E i \in DOMAIN inv.todo :
        inv.todo[i].what = "release" /\ inv.todo[i].hook.res = k /\ inv.todo[i].held.value = v
Slot(k, v) == InHolder(k, v) \/ InRec(k, v) \/ InTodo(k, v)

\* They agree, and no value is that of two resources.
SlotsOK ==
    \A k, m \in Keys, v, w \in Values : Slot(k, v) /\ Slot(m, w) => (k = m <=> v = w)

\* What is named is not released, but for the value whose release has just run.
ReleasedOK ==
    /\ \A k \in Keys : holder[k] # Nothing /\ fate[holder[k].value] = "released" =>
          inv.pend = "drop" /\ Cur.hook.res = k
    /\ \A i \in DOMAIN inv.todo :
          inv.todo[i].what = "release" /\ fate[inv.todo[i].held.value] = "released" =>
              inv.pend = "drop" /\ i = 1
    /\ \A k \in Keys, v \in Values : InRec(k, v) => fate[v] # "released"

\* In the stop phase a resource is noted once its step is over; only a down notes.
RecOK ==
    /\ inv.phase = "stop" => \A i \in DOMAIN inv.todo :
          inv.todo[i].hook.res \in Keys => inv.rec[inv.todo[i].hook.res] = Nothing
    /\ ~IsDown /\ inv.was \notin DownOps => inv.rec = NoRec
    /\ inv.pend \in Values => inv.pend \notin Held /\ fate[inv.pend] = "owned"

ValuesOK == NothingLost /\ NoSecondRelease /\ SlotsOK /\ ReleasedOK /\ RecOK

-----------------------------------------------------------------------------
(* A down                                                                  *)

\* The hook of k among those the down found releases it at the stop, at the remove.
AtStop(k) ==
    \E i \in DOMAIN inv.old : inv.old[i].res = k /\
        (inv.old[i].on["stop_pre"] # "unset" \/ inv.old[i].on["stop_post"] # "unset")
AtRemove(k) ==
    \E i \in DOMAIN inv.old : inv.old[i].res = k /\
        (inv.old[i].on["remove_pre"] # "unset" \/ inv.old[i].on["remove_post"] # "unset")

\* k has a step, and one that has not run yet.
Waits(k) == \E i \in DOMAIN inv.todo : inv.todo[i].hook.res = k
ToRun(k) == \E i \in DOMAIN inv.todo : inv.todo[i].hook.res = k /\ (i > 1 \/ inv.pend = "no")

\* How far a down is.
DownOK ==
    IsDown =>
        /\ inv.phase \in {"list", "snapshot", "stop", "retry", "remove", "strand", "stranded"}
        /\ inv.phase \in {"list", "snapshot", "stop", "retry"} => ~inv.removed
        /\ ~inv.removed => stored = inv.old
        /\ inv.phase \in {"snapshot", "stop", "retry"} => state # "absent"
        /\ inv.phase \in {"snapshot", "stop", "retry", "remove"} => inv.listed
        /\ inv.phase = "stop" => inv.stopped
        /\ inv.phase \in {"list", "snapshot"} => ~inv.stopped /\ inv.rec = NoRec
        /\ inv.phase = "list" => ~inv.listed
        /\ ~inv.listed => ~inv.stopped /\ ~inv.removed
        /\ inv.phase = "stop" => \A k \in Keys : Waits(k) \/ inv.rec[k] # Nothing => AtStop(k)
        /\ inv.phase = "remove" => \A k \in Keys : Waits(k) => ~AtStop(k)

\* How often each release has run.
RunsOK ==
    /\ IsDown => \A k \in Keys :
        /\ inv.phase \in {"list", "snapshot"} => inv.runs[k] = 0
        /\ inv.phase = "stop" => inv.runs[k] <= (IF ToRun(k) \/ ~AtStop(k) THEN 0 ELSE 1)
        /\ inv.phase = "retry" =>
            /\ Waits(k) => inv.stopped /\ AtStop(k)
            /\ inv.runs[k] <= (IF ~inv.stopped \/ ~AtStop(k) THEN 0 ELSE IF ToRun(k) THEN 1 ELSE 2)
        /\ inv.phase = "remove" =>
            inv.runs[k] <= (IF inv.stopped /\ AtStop(k) THEN 2 ELSE IF ToRun(k) THEN 0 ELSE 1)
        /\ inv.phase = "strand" => inv.runs[k] <= (IF inv.stopped THEN 2 ELSE 1)
        /\ inv.phase = "stranded" => inv.runs[k] <= (IF ToRun(k) THEN 1 ELSE 2)
    /\ inv.was \in DownOps => \A k \in Keys : inv.runs[k] <= 2

CountsOK == DownOK /\ RunsOK /\ RetriedWhenStopped

-----------------------------------------------------------------------------
(* What a verb reports                                                     *)

\* k is released, or will be reported.
Settled(k) == holder[k] = Nothing \/ inv.rec[k] # Nothing
Past == inv.phase \in {"strand", "stranded", "done"}
IsOrWasDown == IsDown \/ inv.was \in DownOps

ErrOK ==
    /\ inv.err # "none" \/ inv.held \/ inv.kept => inv.bad
    /\ inv.kept => IsOrWasDown /\ inv.phase \in {"retry", "strand", "stranded", "done"}
    /\ inv.phase = "list" => ~inv.bad

DownTrue ==
    IsOrWasDown /\ ~inv.bad =>
        /\ \A k \in Keys : AtStop(k) /\ inv.stopped =>
              Settled(k) \/ (inv.phase = "stop" /\ Waits(k))
        /\ \A k \in Keys : AtRemove(k) /\ (inv.phase = "remove" \/ (Past /\ inv.listed)) =>
              Settled(k) \/ (inv.phase = "remove" /\ Waits(k))
        /\ Past /\ inv.listed => inv.removed
        /\ inv.phase = "remove" => inv.removed \/ \E i \in DOMAIN inv.todo : inv.todo[i].what = "remove"
        /\ inv.phase \in {"stranded", "done"} /\ inv.was # "downcmd" => \A k \in Keys :
              /\ holder[k] # Nothing /\ holder[k].release # "none"
              /\ ~inv.listed \/ (~inv.stopped /\ ReleasedAtStop(holder[k]))
              => inv.rec[k] # Nothing \/ Waits(k)

ExecsTrue ==
    IsOrWasDown /\ inv.removed /\ Past => left \in {"none", "kept"} \/ \E k \in Keys : inv.rec[k] # Nothing

UpTrue ==
    /\ inv.op = "up" /\ ~inv.bad =>
        /\ inv.phase = "relist" => stored = inv.want
        /\ inv.phase = "create" => stored = inv.want \/ \E i \in DOMAIN inv.todo : inv.todo[i].what = "create"
        /\ inv.phase = "start" => stored = inv.want /\ state # "absent"
        /\ inv.phase = "start" /\ state = "created" => \E i \in DOMAIN inv.todo : inv.todo[i].what = "start"
    /\ inv.was = "up" /\ ~inv.bad => stored = inv.want /\ state \notin {"absent", "created"}

OutcomesOK == KeptStays /\ ForcePasses /\ ErrOK /\ DownTrue /\ ExecsTrue /\ UpTrue

ReplicaInv == ReplicaType /\ ShapeOK /\ ValuesOK /\ CountsOK /\ OutcomesOK

-----------------------------------------------------------------------------
(* Induction over the naturals, for sets                                   *)

\* A nonempty set of naturals has a least element.
LEMMA LeastNatural ==
    ASSUME NEW S, S \subseteq Nat, S # {}
    PROVE  \E n \in S : \A m \in S : n <= m
<1>. DEFINE R == OpToRel(<, Nat)
<1>1. IsWellFoundedOn(R, Nat)
  BY NatLessThanWellFounded, Zenon
<1>2. R = {p \in Nat \X Nat : p[1] < p[2]}
  BY Zenon DEF OpToRel
<1>. HIDE DEF R
<1>3. PICK n \in S : \A m \in S : ~ (<<m, n>> \in R)
  BY <1>1, WFMin
<1>4. ASSUME NEW m \in S PROVE n <= m
  <2>1. m \in Nat /\ n \in Nat
    OBVIOUS
  <2>2. m < n => <<m, n>> \in R
    <3>. HAVE m < n
    <3>1. <<m, n>> \in Nat \X Nat
      BY <2>1
    <3>2. <<m, n>>[1] < <<m, n>>[2]
      OBVIOUS
    <3>. QED
      BY <3>1, <3>2, <1>2, Zenon
  <2>. QED
    BY <1>3, <2>1, <2>2
<1>. QED
  BY <1>4

\* A set that has 0 and the successor of each of its naturals has them all.
LEMMA SetInduction ==
    ASSUME NEW S, 0 \in S, \A n \in Nat : n \in S => n + 1 \in S
    PROVE  \A n \in Nat : n \in S
<1>. SUFFICES ASSUME Nat \ S # {} PROVE FALSE
  OBVIOUS
<1>1. PICK n \in Nat \ S : \A m \in Nat \ S : n <= m
  BY LeastNatural
<1>2. n # 0 /\ n - 1 \in Nat /\ n - 1 \in S
  BY <1>1
<1>. QED
  BY <1>2

-----------------------------------------------------------------------------
(* The n-th element of a finite set of numbers                             *)

UpTo(S, i) == {j \in S : j <= i}

LEMMA UpToFinite ==
    ASSUME NEW N \in Nat, NEW S \in SUBSET (1 .. N)
    PROVE  IsFiniteSet(S) /\ Cardinality(S) \in Nat
<1>1. IsFiniteSet(1 .. N)
  BY FS_Interval
<1>2. IsFiniteSet(S)
  BY <1>1, FS_Subset
<1>. QED
  BY <1>2, FS_CardinalityType

LEMMA NthExists ==
    ASSUME NEW N \in Nat, NEW S \in SUBSET (1 .. N), NEW n \in 1 .. Cardinality(S)
    PROVE  \E i \in S : Cardinality(UpTo(S, i)) = n
<1>. DEFINE Q == {M \in Nat : \A T \in SUBSET (1 .. M) : \A m \in 1 .. Cardinality(T) :
                    \E i \in T : Cardinality(UpTo(T, i)) = m}
<1>1. 0 \in Q
  <2>1. ASSUME NEW T \in SUBSET (1 .. 0) PROVE Cardinality(T) = 0
    <3>1. T = {}
      OBVIOUS
    <3>. QED
      BY <3>1, FS_EmptySet
  <2>. QED
    BY <2>1
<1>2. ASSUME NEW M \in Nat, M \in Q PROVE M + 1 \in Q
  <2>. SUFFICES ASSUME NEW T \in SUBSET (1 .. (M + 1)), NEW m \in 1 .. Cardinality(T)
                PROVE  \E i \in T : Cardinality(UpTo(T, i)) = m
    OBVIOUS
  <2>1. IsFiniteSet(T) /\ Cardinality(T) \in Nat
    <3>1. M + 1 \in Nat
      OBVIOUS
    <3>. QED
      BY <3>1, UpToFinite
  <2>2. CASE M + 1 \notin T
    <3>1. T \in SUBSET (1 .. M)
      BY <2>2
    <3>. QED
      BY <1>2, <3>1
  <2>3. CASE M + 1 \in T
    <3>. DEFINE U == T \ {M + 1}
    <3>1. U \in SUBSET (1 .. M)
      OBVIOUS
    <3>2. Cardinality(U) = Cardinality(T) - 1
      BY <2>1, <2>3, FS_RemoveElement
    <3>3. CASE m = Cardinality(T)
      <4>1. \A j \in T : j <= M + 1
        OBVIOUS
      <4>2. UpTo(T, M + 1) = T
        BY <4>1 DEF UpTo
      <4>. QED
        BY <4>2, <3>3, <2>3
    <3>4. CASE m # Cardinality(T)
      <4>1. m \in 1 .. Cardinality(U)
        BY <3>2, <3>4, <2>1
      <4>2. PICK i \in U : Cardinality(UpTo(U, i)) = m
        BY <1>2, <3>1, <4>1
      <4>3. UpTo(U, i) = UpTo(T, i)
        BY <3>1, <4>2 DEF UpTo
      <4>. QED
        BY <4>2, <4>3
    <3>. QED
      BY <3>3, <3>4
  <2>. QED
    BY <2>2, <2>3
<1>. HIDE DEF Q
<1>3. \A M \in Nat : M \in Q
  BY <1>1, <1>2, SetInduction
<1>4. N \in Q
  BY <1>3
<1>. QED
  BY <1>4 DEF Q

LEMMA NthUnique ==
    ASSUME NEW N \in Nat, NEW S \in SUBSET (1 .. N), NEW i \in S, NEW j \in S,
           Cardinality(UpTo(S, i)) = Cardinality(UpTo(S, j))
    PROVE  i = j
<1>1. ASSUME NEW a \in S, NEW b \in S, a < b, Cardinality(UpTo(S, a)) = Cardinality(UpTo(S, b))
      PROVE FALSE
  <2>1. UpTo(S, b) \in SUBSET (1 .. N)
    BY DEF UpTo
  <2>2. IsFiniteSet(UpTo(S, b))
    BY <2>1, UpToFinite
  <2>3. UpTo(S, a) \in SUBSET UpTo(S, b)
    <3>1. \A x \in S : x <= a => x <= b
      BY <1>1
    <3>. QED
      BY <3>1 DEF UpTo
  <2>4. UpTo(S, b) = UpTo(S, a)
    BY <1>1, <2>2, <2>3, FS_Subset
  <2>5. b \in UpTo(S, b) /\ b \notin UpTo(S, a)
    BY <1>1 DEF UpTo
  <2>. QED
    BY <2>4, <2>5
<1>. QED
  BY <1>1

LEMMA NthRange ==
    ASSUME NEW N \in Nat, NEW S \in SUBSET (1 .. N), NEW i \in S
    PROVE  Cardinality(UpTo(S, i)) \in 1 .. Cardinality(S)
<1>1. IsFiniteSet(S) /\ Cardinality(S) \in Nat
  BY UpToFinite
<1>2. UpTo(S, i) \in SUBSET S /\ i \in UpTo(S, i)
  BY DEF UpTo
<1>3. IsFiniteSet(UpTo(S, i)) /\ Cardinality(UpTo(S, i)) <= Cardinality(S)
  BY <1>1, <1>2, FS_Subset
<1>4. Cardinality(UpTo(S, i)) \in Nat /\ Cardinality(UpTo(S, i)) # 0
  BY <1>2, <1>3, FS_EmptySet, FS_CardinalityType
<1>. QED
  BY <1>1, <1>3, <1>4

-----------------------------------------------------------------------------
(* Steps                                                                   *)

LEMMA EventNames ==
    /\ Events = {"create_pre", "create_post", "start_pre", "start_post"} \cup RelEvents
    /\ \A k \in Pairs : Pre[k] \in Events /\ Post[k] \in Events
    /\ Pre["create"] = "create_pre" /\ Post["create"] = "create_post"
    /\ Pre["start"] = "start_pre" /\ Post["start"] = "start_post"
    /\ Pre["stop"] = "stop_pre" /\ Post["stop"] = "stop_post"
    /\ Pre["remove"] = "remove_pre" /\ Post["remove"] = "remove_post"
    /\ \A ev \in Events : Acquires(ev) <=> ev \notin RelEvents
<1>1. /\ Pre["create"] = "create_pre" /\ Post["create"] = "create_post"
      /\ Pre["start"] = "start_pre" /\ Post["start"] = "start_post"
  BY DEF Pairs, Pre, Post
<1>2. /\ Pre["stop"] = "stop_pre" /\ Post["stop"] = "stop_post"
      /\ Pre["remove"] = "remove_pre" /\ Post["remove"] = "remove_post"
  BY DEF Pairs, Pre, Post
<1>3. Events = {"create_pre", "create_post", "start_pre", "start_post"} \cup RelEvents
  BY <1>1, <1>2 DEF Events, Pairs, RelEvents
<1>4. \A k \in Pairs : Pre[k] \in Events /\ Post[k] \in Events
  BY DEF Events
<1>5. \A ev \in Events : Acquires(ev) <=> ev \notin RelEvents
  BY <1>3 DEF Acquires, RelEvents
<1>. QED
  BY <1>1, <1>2, <1>3, <1>4, <1>5

LEMMA NoHookType == NoHook \in Hooks /\ NoHook.res = Nothing
<1>. DEFINE f == [ev \in Events |-> "unset"]
<1>1. f \in [Events -> OnErrors \cup {"unset"}]
  OBVIOUS
<1>2. NoHook = [name |-> NoName, res |-> Nothing, on |-> f]
  BY DEF NoHook
<1>. HIDE DEF f
<1>3. NoName \in Names /\ Nothing \in Keys \cup {Nothing}
  BY DEF Names
<1>4. NoHook \in Hooks
  BY <1>1, <1>2, <1>3 DEF Hooks
<1>. QED
  BY <1>4 DEF NoHook

LEMMA HookStepFields ==
    ASSUME NEW h \in Hooks, NEW ev \in Events, NEW force \in BOOLEAN, h.on[ev] # "unset"
    PROVE  LET s == HookStep(h, ev, force) IN
           /\ s \in StepRecords
           /\ s.what = "hook" /\ s.hook = h /\ s.ev = ev /\ s.held = Nothing
           /\ force => s.onError # "fail"
<1>1. h.on[ev] \in OnErrors
  BY DEF Hooks
<1>. QED
  BY <1>1 DEF HookStep, StepRecords, OnErrors

LEMMA OpStepFields ==
    ASSUME NEW kind \in Pairs
    PROVE  LET s == OpStep(kind) IN
           /\ s \in StepRecords
           /\ s.what = kind /\ s.hook.res = Nothing /\ s.ev = Pre[kind]
BY NoHookType, EventNames DEF OpStep, StepRecords, OnErrors

\* runLifecycleEvent runs ev of each hook that sets it, once.
LEMMA EventStepsFacts ==
    ASSUME NEW hooks \in Seq(Hooks), NEW ev \in Events, NEW force \in BOOLEAN
    PROVE  LET es == EventSteps(hooks, ev, force) IN
           /\ es \in Seq(StepRecords)
           /\ \A n \in DOMAIN es : \E i \in DOMAIN hooks :
                 hooks[i].on[ev] # "unset" /\ es[n] = HookStep(hooks[i], ev, force)
           /\ \A n, m \in DOMAIN es : n # m => \E i, j \in DOMAIN hooks : 
                 /\ i # j
                 /\ es[n] = HookStep(hooks[i], ev, force) /\ es[m] = HookStep(hooks[j], ev, force)
           /\ \A i \in DOMAIN hooks : hooks[i].on[ev] # "unset" =>
                 \E n \in DOMAIN es : es[n] = HookStep(hooks[i], ev, force)
<1>. DEFINE set == {i \in DOMAIN hooks : hooks[i].on[ev] # "unset"}
            Nth(n) == CHOOSE i \in set : Cardinality(UpTo(set, i)) = n
            es == EventSteps(hooks, ev, force)
            N == Len(hooks)
<1>1. N \in Nat /\ DOMAIN hooks = 1 .. N
  OBVIOUS
<1>2. set \in SUBSET (1 .. N)
  BY <1>1
<1>3. Cardinality(set) \in Nat
  BY <1>1, <1>2, UpToFinite
<1>4. es = [n \in 1 .. Cardinality(set) |-> HookStep(hooks[Nth(n)], ev, force)]
  BY DEF EventSteps, UpTo
<1>. HIDE DEF es, N
<1>5. ASSUME NEW n \in 1 .. Cardinality(set)
      PROVE  Nth(n) \in set /\ Cardinality(UpTo(set, Nth(n))) = n
  <2>1. \E i \in set : Cardinality(UpTo(set, i)) = n
    BY <1>1, <1>2, NthExists
  <2>. QED
    BY <2>1
<1>6. ASSUME NEW i \in set
      PROVE  Cardinality(UpTo(set, i)) \in 1 .. Cardinality(set) /\ Nth(Cardinality(UpTo(set, i))) = i
  <2>1. Cardinality(UpTo(set, i)) \in 1 .. Cardinality(set)
    BY <1>1, <1>2, NthRange
  <2>2. Nth(Cardinality(UpTo(set, i))) \in set
        /\ Cardinality(UpTo(set, Nth(Cardinality(UpTo(set, i))))) = Cardinality(UpTo(set, i))
    BY <2>1, <1>5
  <2>. QED
    BY <2>1, <2>2, <1>1, <1>2, NthUnique
<1>. HIDE DEF Nth
<1>7. ASSUME NEW i \in set PROVE i \in DOMAIN hooks /\ hooks[i] \in Hooks /\ hooks[i].on[ev] # "unset"
  OBVIOUS
<1>. HIDE DEF set
<1>8. DOMAIN es = 1 .. Cardinality(set)
  BY <1>4
<1>9. \A n \in DOMAIN es : es[n] = HookStep(hooks[Nth(n)], ev, force) /\ Nth(n) \in set
  BY <1>4, <1>5, <1>8
<1>10. \A n \in DOMAIN es : es[n] \in StepRecords
  BY <1>9, <1>7, HookStepFields
<1>11. es \in Seq(StepRecords)
  BY <1>3, <1>4, <1>10
<1>12. \A n \in DOMAIN es : \E i \in DOMAIN hooks :
          hooks[i].on[ev] # "unset" /\ es[n] = HookStep(hooks[i], ev, force)
  BY <1>9, <1>7
<1>13. ASSUME NEW n \in DOMAIN es, NEW m \in DOMAIN es, n # m
       PROVE \E i, j \in DOMAIN hooks : 
                 /\ i # j
                 /\ es[n] = HookStep(hooks[i], ev, force) /\ es[m] = HookStep(hooks[j], ev, force)
  <2>1. Nth(n) # Nth(m)
    BY <1>13, <1>5, <1>8
  <2>. QED
    BY <2>1, <1>9, <1>7
<1>14. ASSUME NEW i \in DOMAIN hooks, hooks[i].on[ev] # "unset"
       PROVE \E n \in DOMAIN es : es[n] = HookStep(hooks[i], ev, force)
  <2>1. i \in set
    BY <1>14 DEF set
  <2>2. Cardinality(UpTo(set, i)) \in DOMAIN es
    BY <2>1, <1>6, <1>8
  <2>3. es[Cardinality(UpTo(set, i))] = HookStep(hooks[i], ev, force)
    BY <2>1, <2>2, <1>6, <1>9
  <2>. QED
    BY <2>2, <2>3
<1>. QED
  BY <1>11, <1>12, <1>13, <1>14 DEF es

LEMMA HookListType ==
    ASSUME NEW hooks \in HookLists
    PROVE  /\ hooks \in Seq(Hooks)
           /\ \A i \in DOMAIN hooks : hooks[i].res # Nothing => ValidateResourceEvents(hooks[i])
           /\ \A i, j \in DOMAIN hooks : i # j =>
                 hooks[i].res = Nothing \/ hooks[i].res # hooks[j].res
<1>1. CASE hooks \in Specs
  BY <1>1, SpecsAssumption DEF ValidateLifecycleHooks
<1>2. CASE hooks = <<>>
  BY <1>2
<1>. QED
  BY <1>1, <1>2 DEF HookLists

\* A hook with a resource acquires at one event and releases at one at most.
LEMMA OneEventEach ==
    ASSUME NEW h \in Hooks, ValidateResourceEvents(h), NEW a \in Events, NEW b \in Events,
           h.on[a] # "unset", h.on[b] # "unset", a # b
    PROVE  /\ ~Acquires(a) \/ ~Acquires(b)
           /\ Acquires(a) \/ Acquires(b)
<1>1. PICK acq \in SetEvents(h) :
        /\ Acquires(acq)
        /\ SetEvents(h) \ {acq} \subseteq Releases(acq)
        /\ Cardinality(SetEvents(h) \ {acq}) <= 1
  BY DEF ValidateResourceEvents
<1>2. a \in SetEvents(h) /\ b \in SetEvents(h)
  BY DEF SetEvents
<1>3. Releases(acq) \subseteq RelEvents
  BY <1>1 DEF Releases, RelEvents
<1>4. \A x \in RelEvents : ~Acquires(x)
  BY DEF Acquires, RelEvents
<1>5. CASE a # acq /\ b # acq
  <2>. DEFINE T == SetEvents(h) \ {acq}
  <2>1. {a, b} \in SUBSET T
    BY <1>2, <1>5
  <2>2. IsFiniteSet(T)
    <3>1. IsFiniteSet(RelEvents)
      <4>1. IsFiniteSet({"stop_pre"})
        BY FS_Singleton
      <4>2. IsFiniteSet({"stop_pre"} \cup {"stop_post"})
        BY <4>1, FS_AddElement
      <4>3. IsFiniteSet(({"stop_pre"} \cup {"stop_post"}) \cup {"remove_pre"})
        BY <4>2, FS_AddElement
      <4>4. IsFiniteSet((({"stop_pre"} \cup {"stop_post"}) \cup {"remove_pre"}) \cup {"remove_post"})
        BY <4>3, FS_AddElement
      <4>5. RelEvents = (({"stop_pre"} \cup {"stop_post"}) \cup {"remove_pre"}) \cup {"remove_post"}
        BY DEF RelEvents
      <4>. QED
        BY <4>4, <4>5
    <3>2. T \in SUBSET RelEvents
      BY <1>1, <1>3
    <3>. QED
      BY <3>1, <3>2, FS_Subset
  <2>3. IsFiniteSet({a}) /\ Cardinality({a}) = 1
    BY FS_Singleton
  <2>4. {a, b} = {a} \cup {b} /\ b \notin {a}
    OBVIOUS
  <2>5. Cardinality({a, b}) = 2
    <3>1. Cardinality({a} \cup {b}) = Cardinality({a}) + 1
      BY <2>3, <2>4, FS_AddElement
    <3>. QED
      BY <3>1, <2>3, <2>4
  <2>6. Cardinality({a, b}) <= Cardinality(T) /\ Cardinality(T) \in Nat
    BY <2>1, <2>2, FS_Subset, FS_CardinalityType
  <2>. QED
    BY <2>5, <2>6, <1>1
<1>. QED
  BY <1>1, <1>2, <1>3, <1>4, <1>5

\* w is the steps A, the step o and the steps C.
IsAround(w, A, o, C) ==
    /\ DOMAIN w = 1 .. (Len(A) + 1 + Len(C))
    /\ \A n \in DOMAIN A : n \in DOMAIN w /\ w[n] = A[n]
    /\ Len(A) + 1 \in DOMAIN w /\ w[Len(A) + 1] = o
    /\ \A n \in DOMAIN C : Len(A) + 1 + n \in DOMAIN w /\ w[Len(A) + 1 + n] = C[n]
    /\ \A n \in DOMAIN w :
          \/ n \in DOMAIN A
          \/ n = Len(A) + 1
          \/ \E x \in DOMAIN C : n = Len(A) + 1 + x

LEMMA Around ==
    ASSUME NEW S, NEW A \in Seq(S), NEW o \in S, NEW C \in Seq(S)
    PROVE  A \o <<o>> \o C \in Seq(S) /\ IsAround(A \o <<o>> \o C, A, o, C)
<1>. DEFINE B == A \o <<o>>
            w == B \o C
<1>1. /\ B \in Seq(S) /\ Len(B) = Len(A) + 1
      /\ \A n \in 1 .. Len(A) : B[n] = A[n]
      /\ B[Len(A) + 1] = o
  OBVIOUS
<1>. HIDE DEF B
<1>2. /\ w \in Seq(S) /\ Len(w) = Len(A) + 1 + Len(C)
      /\ \A n \in 1 .. Len(A) + 1 : w[n] = B[n]
  BY <1>1
<1>3. \A n \in 1 .. Len(C) : w[Len(A) + 1 + n] = C[n]
  BY <1>1
<1>. HIDE DEF w
<1>4. Len(A) \in Nat /\ Len(C) \in Nat /\ DOMAIN A = 1 .. Len(A) /\ DOMAIN C = 1 .. Len(C)
  OBVIOUS
<1>5. DOMAIN w = 1 .. (Len(A) + 1 + Len(C))
  BY <1>2
<1>6. \A n \in DOMAIN A : n \in DOMAIN w /\ w[n] = A[n]
  BY <1>1, <1>2, <1>4, <1>5
<1>7. Len(A) + 1 \in DOMAIN w /\ w[Len(A) + 1] = o
  BY <1>1, <1>2, <1>4, <1>5
<1>8. \A n \in DOMAIN C : Len(A) + 1 + n \in DOMAIN w /\ w[Len(A) + 1 + n] = C[n]
  BY <1>3, <1>4, <1>5
<1>9. \A n \in DOMAIN w :
                 \/ n \in DOMAIN A
                 \/ n = Len(A) + 1
                 \/ \E x \in DOMAIN C : n = Len(A) + 1 + x
  <2>. TAKE n \in DOMAIN w
  <2>. DEFINE a == Len(A) c == Len(C)
  <2>1. a \in Nat /\ c \in Nat /\ n \in 1 .. (a + 1 + c)
    BY <1>4, <1>5
  <2>. HIDE DEF a, c
  <2>2. n \in 1 .. a \/ n = a + 1 \/ (n - a - 1 \in 1 .. c /\ n = a + 1 + (n - a - 1))
    BY ONLY <2>1
  <2>. QED
    BY <2>2, <1>4 DEF a, c
<1>. QED
  BY <1>2, <1>5, <1>6, <1>7, <1>8, <1>9, Zenon DEF w, B, IsAround

\* The *WithHooks helpers run each hook at each event of the pair, once, and the
\* operation; no resource is the business of two of those steps.
LEMMA WithHooksFacts ==
    ASSUME NEW kind \in Pairs, NEW hooks \in HookLists, NEW force \in BOOLEAN,
           NEW w, w = WithHooks(kind, hooks, force)
    PROVE  /\ w \in Seq(StepRecords)
           /\ \A n \in DOMAIN w :
                 \/ w[n] = OpStep(kind)
                 \/ \E i \in DOMAIN hooks, ev \in {Pre[kind], Post[kind]} :
                       hooks[i].on[ev] # "unset" /\ w[n] = HookStep(hooks[i], ev, force)
           /\ \E n \in DOMAIN w : w[n] = OpStep(kind)
           /\ \A i \in DOMAIN hooks, ev \in {Pre[kind], Post[kind]} : hooks[i].on[ev] # "unset" =>
                 \E n \in DOMAIN w : w[n] = HookStep(hooks[i], ev, force)
           /\ \A n, m \in DOMAIN w : n # m /\ w[n].hook.res \in Keys => w[n].hook.res # w[m].hook.res
<1>. DEFINE A == EventSteps(hooks, Pre[kind], force)
            C == EventSteps(hooks, Post[kind], force)
            o == OpStep(kind)
<1>1. Pre[kind] \in Events /\ Post[kind] \in Events /\ Pre[kind] # Post[kind]
      /\ (Acquires(Pre[kind]) <=> Acquires(Post[kind]))
  BY EventNames DEF Pairs, RelEvents
<1>2. hooks \in Seq(Hooks)
  BY HookListType
<1>3. /\ A \in Seq(StepRecords)
      /\ \A n \in DOMAIN A : \E i \in DOMAIN hooks :
            hooks[i].on[Pre[kind]] # "unset" /\ A[n] = HookStep(hooks[i], Pre[kind], force)
      /\ \A n, m \in DOMAIN A : n # m => \E i, j \in DOMAIN hooks : 
            /\ i # j
            /\ A[n] = HookStep(hooks[i], Pre[kind], force) /\ A[m] = HookStep(hooks[j], Pre[kind], force)
      /\ \A i \in DOMAIN hooks : hooks[i].on[Pre[kind]] # "unset" =>
            \E n \in DOMAIN A : A[n] = HookStep(hooks[i], Pre[kind], force)
  BY <1>1, <1>2, EventStepsFacts
<1>4. /\ C \in Seq(StepRecords)
      /\ \A n \in DOMAIN C : \E i \in DOMAIN hooks :
            hooks[i].on[Post[kind]] # "unset" /\ C[n] = HookStep(hooks[i], Post[kind], force)
      /\ \A n, m \in DOMAIN C : n # m => \E i, j \in DOMAIN hooks : 
            /\ i # j
            /\ C[n] = HookStep(hooks[i], Post[kind], force) /\ C[m] = HookStep(hooks[j], Post[kind], force)
      /\ \A i \in DOMAIN hooks : hooks[i].on[Post[kind]] # "unset" =>
            \E n \in DOMAIN C : C[n] = HookStep(hooks[i], Post[kind], force)
  BY <1>1, <1>2, EventStepsFacts
<1>5. o \in StepRecords /\ o.hook.res = Nothing
  BY OpStepFields
<1>6. w = A \o <<o>> \o C
  BY DEF WithHooks
<1>. HIDE DEF A, C, o
<1>7. /\ w \in Seq(StepRecords)
      /\ DOMAIN w = 1 .. (Len(A) + 1 + Len(C))
      /\ \A n \in DOMAIN A : n \in DOMAIN w /\ w[n] = A[n]
      /\ Len(A) + 1 \in DOMAIN w /\ w[Len(A) + 1] = o
      /\ \A n \in DOMAIN C : Len(A) + 1 + n \in DOMAIN w /\ w[Len(A) + 1 + n] = C[n]
      /\ \A n \in DOMAIN w :
            \/ n \in DOMAIN A
            \/ n = Len(A) + 1
            \/ \E x \in DOMAIN C : n = Len(A) + 1 + x
  <2>1. A \in Seq(StepRecords) /\ C \in Seq(StepRecords) /\ o \in StepRecords
    BY <1>3, <1>4, <1>5
  <2>2. A \o <<o>> \o C \in Seq(StepRecords) /\ IsAround(A \o <<o>> \o C, A, o, C)
    BY <2>1, Around, Zenon
  <2>3. w \in Seq(StepRecords) /\ IsAround(w, A, o, C)
    BY <1>6, <2>2, Zenon
  <2>. QED
    BY ONLY <2>3 DEF IsAround
<1>8. \A n \in DOMAIN w :
          \/ w[n] = o
          \/ \E i \in DOMAIN hooks, ev \in {Pre[kind], Post[kind]} :
                hooks[i].on[ev] # "unset" /\ w[n] = HookStep(hooks[i], ev, force)
  <2>. TAKE n \in DOMAIN w
  <2>1. CASE n \in DOMAIN A
    BY <2>1, <1>7, <1>3
  <2>2. CASE n = Len(A) + 1
    BY <2>2, <1>7
  <2>3. CASE \E x \in DOMAIN C : n = Len(A) + 1 + x
    <3>1. PICK x \in DOMAIN C : n = Len(A) + 1 + x
      BY <2>3
    <3>2. w[n] = C[x]
      BY <3>1, <1>7
    <3>. QED
      BY <3>2, <1>4
  <2>. QED
    BY <1>7, <2>1, <2>2, <2>3
<1>9. \A i \in DOMAIN hooks, ev \in {Pre[kind], Post[kind]} : hooks[i].on[ev] # "unset" =>
          \E n \in DOMAIN w : w[n] = HookStep(hooks[i], ev, force)
  <2>1. ASSUME NEW i \in DOMAIN hooks, hooks[i].on[Pre[kind]] # "unset"
        PROVE  \E n \in DOMAIN w : w[n] = HookStep(hooks[i], Pre[kind], force)
    BY <2>1, <1>3, <1>7
  <2>2. ASSUME NEW i \in DOMAIN hooks, hooks[i].on[Post[kind]] # "unset"
        PROVE  \E n \in DOMAIN w : w[n] = HookStep(hooks[i], Post[kind], force)
    <3>1. PICK x \in DOMAIN C : C[x] = HookStep(hooks[i], Post[kind], force)
      BY <2>2, <1>4
    <3>2. Len(A) + 1 + x \in DOMAIN w /\ w[Len(A) + 1 + x] = C[x]
      BY <1>7
    <3>. QED
      BY <3>1, <3>2
  <2>. QED
    BY <2>1, <2>2
<1>10. ASSUME NEW i \in DOMAIN hooks, NEW ev \in {Pre[kind], Post[kind]}, NEW s,
              hooks[i].on[ev] # "unset", s = HookStep(hooks[i], ev, force)
       PROVE  s.hook = hooks[i] /\ hooks[i] \in Hooks
  <2>1. hooks[i] \in Hooks
    BY <1>2
  <2>. QED
    BY <1>10, <1>1, <2>1, HookStepFields
<1>11. \A i, j \in DOMAIN hooks : i # j /\ hooks[i].res \in Keys => hooks[i].res # hooks[j].res
  BY HookListType, NothingAssumption
<1>12. ASSUME NEW n \in DOMAIN w, NEW m \in DOMAIN w, n < m, w[n].hook.res \in Keys
       PROVE  w[n].hook.res # w[m].hook.res
  <2>1. CASE w[n] = o \/ w[m] = o
    BY <2>1, <1>5, <1>12, NothingAssumption
  <2>2. CASE n \in DOMAIN A /\ m \in DOMAIN A
    <3>1. w[n] = A[n] /\ w[m] = A[m] /\ n # m
      BY <2>2, <1>7, <1>12
    <3>2. PICK i \in DOMAIN hooks, j \in DOMAIN hooks :
             /\ i # j
             /\ A[n] = HookStep(hooks[i], Pre[kind], force) /\ A[m] = HookStep(hooks[j], Pre[kind], force)
      BY <2>2, <3>1, <1>3
    <3>3. HookStep(hooks[i], Pre[kind], force).hook = hooks[i] /\ HookStep(hooks[j], Pre[kind], force).hook = hooks[j]
      BY DEF HookStep
    <3>. QED
      BY <3>1, <3>2, <3>3, <1>11, <1>12
  <2>3. CASE \E x, y \in DOMAIN C : n = Len(A) + 1 + x /\ m = Len(A) + 1 + y
    <3>1. PICK x \in DOMAIN C, y \in DOMAIN C : n = Len(A) + 1 + x /\ m = Len(A) + 1 + y
      BY <2>3
    <3>2. w[n] = C[x] /\ w[m] = C[y] /\ x # y
      BY <3>1, <1>7, <1>12
    <3>3. PICK i \in DOMAIN hooks, j \in DOMAIN hooks :
             /\ i # j
             /\ C[x] = HookStep(hooks[i], Post[kind], force) /\ C[y] = HookStep(hooks[j], Post[kind], force)
      BY <3>2, <1>4
    <3>4. HookStep(hooks[i], Post[kind], force).hook = hooks[i] /\ HookStep(hooks[j], Post[kind], force).hook = hooks[j]
      BY DEF HookStep
    <3>. QED
      BY <3>2, <3>3, <3>4, <1>11, <1>12
  <2>4. CASE n \in DOMAIN A /\ \E y \in DOMAIN C : m = Len(A) + 1 + y
    <3>1. PICK y \in DOMAIN C : m = Len(A) + 1 + y
      BY <2>4
    <3>2. w[n] = A[n] /\ w[m] = C[y]
      BY <2>4, <3>1, <1>7
    <3>3. PICK i \in DOMAIN hooks : hooks[i].on[Pre[kind]] # "unset" /\ A[n] = HookStep(hooks[i], Pre[kind], force)
      BY <2>4, <1>3
    <3>4. PICK j \in DOMAIN hooks : hooks[j].on[Post[kind]] # "unset" /\ C[y] = HookStep(hooks[j], Post[kind], force)
      BY <1>4
    <3>5. w[n].hook = hooks[i] /\ w[m].hook = hooks[j]
      BY <3>2, <3>3, <3>4 DEF HookStep
    <3>6. CASE i = j
      <4>1. hooks[i] \in Hooks /\ ValidateResourceEvents(hooks[i])
        BY <1>2, <1>12, <3>5, HookListType, NothingAssumption
      <4>. QED
        BY <3>3, <3>4, <3>6, <4>1, <1>1, OneEventEach
    <3>. QED
      BY <3>5, <3>6, <1>11, <1>12
  <2>5. /\ n \in DOMAIN A \/ w[n] = o \/ \E x \in DOMAIN C : n = Len(A) + 1 + x
        /\ m \in DOMAIN A \/ w[m] = o \/ \E y \in DOMAIN C : m = Len(A) + 1 + y
    BY <1>7
  <2>6. ~(m \in DOMAIN A /\ \E x \in DOMAIN C : n = Len(A) + 1 + x)
    <3>. SUFFICES ASSUME m \in DOMAIN A, NEW x \in DOMAIN C, n = Len(A) + 1 + x PROVE FALSE
      OBVIOUS
    <3>1. Len(A) \in Nat /\ m \in 1 .. Len(A) /\ x \in Nat
      BY <1>3, <1>4
    <3>. QED
      BY <3>1, <1>12
  <2>. QED
    BY <2>1, <2>2, <2>3, <2>4, <2>5, <2>6
<1>13. \A n, m \in DOMAIN w : n # m /\ w[n].hook.res \in Keys => w[n].hook.res # w[m].hook.res
  <2>. TAKE n, m \in DOMAIN w
  <2>1. n \in Int /\ m \in Int
    BY <1>7
  <2>2. CASE n < m
    BY <2>2, <1>12
  <2>3. CASE m < n
    BY <2>3, <1>12
  <2>. QED
    BY <2>1, <2>2, <2>3
<1>14. \E n \in DOMAIN w : w[n] = o
  BY <1>7
<1>. QED
  BY <1>7, <1>8, <1>9, <1>13, <1>14 DEF o

LEMMA ReleaseStepFields ==
    ASSUME NEW k \in Keys, NEW h \in HeldRecords, h.release # "none", NEW force \in BOOLEAN
    PROVE  LET s == ReleaseStep(k, h, force) IN
           /\ s \in StepRecords
           /\ s.what = "release" /\ s.hook.res = k /\ s.ev = h.release /\ s.held = h
           /\ s.ev \in RelEvents /\ s.hook.on[s.ev] # "unset"
<1>. DEFINE onError == IF force /\ h.onError = "fail" THEN "continue" ELSE h.onError
            on == [ev \in Events |-> IF ev = h.release THEN onError ELSE "unset"]
            hook == [name |-> h.hook, res |-> k, on |-> on]
            s == ReleaseStep(k, h, force)
<1>1. h.onError \in OnErrors /\ h.hook \in Names /\ h.release \in RelEvents
  BY DEF HeldRecords
<1>2. onError \in OnErrors /\ onError # "unset"
  BY <1>1 DEF OnErrors
<1>3. h.release \in Events
  BY <1>1, EventNames
<1>. HIDE DEF onError
<1>4. on \in [Events -> OnErrors \cup {"unset"}] /\ on[h.release] = onError
  BY <1>2, <1>3
<1>. HIDE DEF on
<1>5. hook \in Hooks /\ hook.res = k /\ hook.on = on
  BY <1>1, <1>4 DEF Hooks
<1>. HIDE DEF hook
<1>6. s = [what |-> "release", hook |-> hook, ev |-> h.release, held |-> h, onError |-> onError]
  BY DEF ReleaseStep, hook, on, onError
<1>. HIDE DEF s
<1>7. s \in StepRecords
  BY <1>2, <1>3, <1>5, <1>6 DEF StepRecords
<1>8. s.what = "release" /\ s.hook = hook /\ s.ev = h.release /\ s.held = h
  BY <1>6
<1>. QED
  BY <1>1, <1>2, <1>4, <1>5, <1>7, <1>8 DEF s

LEMMA SetToSeqFacts ==
    ASSUME NEW S, IsFiniteSet(S)
    PROVE  LET q == SetToSeq(S) IN
           /\ q \in Seq(S) /\ \A n, m \in DOMAIN q : n # m => q[n] # q[m]
           /\ \A x \in S : \E n \in DOMAIN q : q[n] = x
<1>. DEFINE N == Cardinality(S)
            q == SetToSeq(S)
<1>1. N \in Nat /\ ExistsBijection(1 .. N, S)
  BY FS_CardinalityType
<1>2. PICK f : f \in Bijection(1 .. N, S)
  BY <1>1 DEF ExistsBijection
<1>3. f \in [1 .. N -> S] /\ IsInjective(f)
  BY <1>2 DEF Bijection, Injection, IsInjective
<1>4. q \in [1 .. N -> S] /\ IsInjective(q)
  BY <1>3 DEF SetToSeq
<1>. HIDE DEF q, N
<1>5. q \in Seq(S) /\ \A n, m \in DOMAIN q : n # m => q[n] # q[m]
  BY <1>1, <1>4 DEF IsInjective
<1>6. q \in Injection(1 .. N, S)
  BY <1>4 DEF Injection
<1>7. IsFiniteSet(1 .. N) /\ Cardinality(1 .. N) = Cardinality(S)
  <2>1. Cardinality(1 .. N) = N
    BY <1>1, FS_Interval
  <2>2. IsFiniteSet(1 .. N)
    BY <1>1, FS_Interval
  <2>. QED
    BY <2>1, <2>2 DEF N
<1>8. q \in Surjection(1 .. N, S)
  BY <1>6, <1>7, FS_Injection
<1>9. \A x \in S : \E n \in DOMAIN q : q[n] = x
  BY <1>4, <1>8 DEF Surjection
<1>. QED
  BY <1>5, <1>9 DEF q

\* w are the stored releases h of the resources ks.
RelSteps(w, ks, h) ==
    /\ w \in Seq(StepRecords) /\ ks \in SUBSET Keys
    /\ \A n \in DOMAIN w :
          /\ w[n].what = "release" /\ w[n].hook.res \in ks /\ w[n].held = h[w[n].hook.res]
          /\ w[n].held \in HeldRecords /\ w[n].ev \in RelEvents /\ w[n].hook.on[w[n].ev] # "unset"
    /\ \A n, m \in DOMAIN w : n # m => w[n].hook.res # w[m].hook.res
    /\ \A k \in ks : \E n \in DOMAIN w : w[n].hook.res = k

LEMMA ReleaseStepsFacts ==
    ASSUME NEW ks \in SUBSET Keys, NEW h, \A k \in ks : h[k] \in HeldRecords /\ h[k].release # "none",
           NEW force \in BOOLEAN, NEW w, w = ReleaseSteps(ks, h, force)
    PROVE  RelSteps(w, ks, h)
<1>. DEFINE q == SetToSeq(ks)
<1>1. IsFiniteSet(ks)
  BY KeysAssumption, FS_Subset
<1>2. /\ q \in Seq(ks) /\ \A n, m \in DOMAIN q : n # m => q[n] # q[m]
      /\ \A x \in ks : \E n \in DOMAIN q : q[n] = x
  BY <1>1, SetToSeqFacts
<1>3. w = [i \in 1 .. Len(q) |-> ReleaseStep(q[i], h[q[i]], force)]
  BY DEF ReleaseSteps
<1>. HIDE DEF q
<1>4. DOMAIN q = 1 .. Len(q) /\ Len(q) \in Nat /\ DOMAIN w = DOMAIN q
  BY <1>2, <1>3
<1>5. ASSUME NEW n \in DOMAIN w
      PROVE  /\ q[n] \in ks /\ w[n] = ReleaseStep(q[n], h[q[n]], force)
             /\ w[n] \in StepRecords /\ w[n].hook.res = q[n]
             /\ w[n].what = "release" /\ w[n].held = h[q[n]] /\ h[q[n]] \in HeldRecords
             /\ w[n].ev \in RelEvents /\ w[n].hook.on[w[n].ev] # "unset"
  <2>1. q[n] \in ks /\ w[n] = ReleaseStep(q[n], h[q[n]], force)
    BY <1>2, <1>3, <1>4
  <2>2. q[n] \in Keys /\ h[q[n]] \in HeldRecords /\ h[q[n]].release # "none"
    BY <2>1
  <2>. QED
    BY <2>1, <2>2, ReleaseStepFields
<1>6. w \in Seq(StepRecords)
  <2>1. \A n \in 1 .. Len(q) : ReleaseStep(q[n], h[q[n]], force) \in StepRecords
    BY <1>4, <1>5
  <2>2. w \in [1 .. Len(q) -> StepRecords]
    BY ONLY <2>1, <1>3
  <2>. QED
    BY ONLY <2>2, <1>4
<1>7. \A n, m \in DOMAIN w : n # m => w[n].hook.res # w[m].hook.res
  BY ONLY <1>2, <1>4, <1>5
<1>8. \A k \in ks : \E n \in DOMAIN w : w[n].hook.res = k
  BY ONLY <1>2, <1>4, <1>5
<1>. QED
  BY ONLY <1>5, <1>6, <1>7, <1>8, ks \in SUBSET Keys DEF RelSteps

-----------------------------------------------------------------------------
(* What the invocation keeps and what it changes                           *)

\* t is i, but for its steps, its outcome so far and what it has noted.
Kin(t, i) ==
    /\ t.op = i.op /\ t.phase = i.phase /\ t.want = i.want /\ t.old = i.old /\ t.src = i.src
    /\ t.listed = i.listed /\ t.stopped = i.stopped /\ t.kept = i.kept /\ t.held = i.held
    /\ t.cancelled = i.cancelled /\ t.was = i.was
\* The rest.
Kin2(t, i) == t.removed = i.removed /\ t.bad = i.bad /\ t.rec = i.rec /\ t.runs = i.runs /\ t.err = i.err

\* The steps t are some of the last steps of q.
Sub(t, q) == \A n \in DOMAIN t : n + 1 \in DOMAIN q /\ t[n] = q[n + 1]
IsTail(t, q) ==
    /\ q # <<>> /\ 1 \in DOMAIN q /\ Head(q) = q[1] /\ Sub(t, q)
    /\ \A n \in DOMAIN q : n = 1 \/ (n - 1 \in DOMAIN t /\ t[n - 1] = q[n])

LEMMA TailFacts ==
    ASSUME NEW S, NEW q \in Seq(S), q # <<>>
    PROVE  Tail(q) \in Seq(S) /\ IsTail(Tail(q), q) /\ Head(q) = q[1] /\ Head(q) \in S /\ 1 \in DOMAIN q
<1>. DEFINE t == Tail(q)
<1>1. Len(q) \in Nat /\ Len(q) >= 1 /\ DOMAIN q = 1 .. Len(q)
  OBVIOUS
<1>2. t \in Seq(S) /\ Len(t) = Len(q) - 1 /\ DOMAIN t = 1 .. Len(t)
  OBVIOUS
<1>3. \A n \in DOMAIN t : t[n] = q[n + 1]
  OBVIOUS
<1>4. Head(q) = q[1] /\ q[1] \in S /\ 1 \in DOMAIN q
  OBVIOUS
<1>. HIDE DEF t
<1>5. Sub(t, q)
  BY <1>1, <1>2, <1>3 DEF Sub
<1>6. \A n \in DOMAIN q : n = 1 \/ (n - 1 \in DOMAIN t /\ t[n - 1] = q[n])
  BY <1>1, <1>2, <1>3
<1>. QED
  BY <1>2, <1>4, <1>5, <1>6 DEF IsTail, t

LEMMA ThenFields ==
    ASSUME NEW i \in Invocations, i.todo # <<>>
    PROVE  LET t == Then(i) IN
           /\ t \in Invocations /\ Kin(t, i) /\ Kin2(t, i)
           /\ t.pend = "no" /\ t.todo = Tail(i.todo) /\ IsTail(t.todo, i.todo)
<1>. DEFINE t == Then(i)
            td == Tail(i.todo)
<1>1. i.todo \in Seq(StepRecords)
  BY DEF Invocations
<1>2. td \in Seq(StepRecords) /\ IsTail(td, i.todo)
  BY <1>1, TailFacts
<1>3. t = [i EXCEPT !.todo = td, !.pend = "no"]
  BY DEF Then
<1>. HIDE DEF td, t
<1>4. t \in Invocations
  BY <1>2, <1>3 DEF Invocations
<1>5. Kin(t, i)
  BY <1>3 DEF Kin, Invocations
<1>6. Kin2(t, i)
  BY <1>3 DEF Kin2, Invocations
<1>7. t.pend = "no" /\ t.todo = td
  BY <1>3 DEF Invocations
<1>. QED
  BY <1>2, <1>4, <1>5, <1>6, <1>7 DEF t, td

LEMMA FailsFields ==
    ASSUME NEW i \in Invocations, NEW kind \in {"hook", "op"}
    PROVE  LET t == Fails(i, kind) IN
           /\ t \in Invocations /\ Kin(t, i) /\ t.removed = i.removed /\ t.rec = i.rec /\ t.runs = i.runs
           /\ t.pend = "no" /\ t.todo = <<>> /\ t.err = kind /\ t.bad
<1>. DEFINE t == Fails(i, kind)
            nil == <<>>
<1>1. nil \in Seq(StepRecords)
  OBVIOUS
<1>2. t = [i EXCEPT !.todo = nil, !.pend = "no", !.err = kind, !.bad = TRUE]
  BY DEF Fails
<1>. HIDE DEF nil, t
<1>3. t \in Invocations
  BY <1>1, <1>2 DEF Invocations
<1>4. Kin(t, i)
  BY <1>2 DEF Kin, Invocations
<1>5. /\ t.removed = i.removed /\ t.rec = i.rec /\ t.runs = i.runs
      /\ t.pend = "no" /\ t.todo = nil /\ t.err = kind /\ t.bad
  BY <1>2 DEF Invocations
<1>. QED
  BY <1>3, <1>4, <1>5 DEF t, nil

\* The fields that no move from phase to phase changes, and the flags.
Stays(t) ==
    /\ t.op = inv.op /\ t.want = inv.want /\ t.old = inv.old /\ t.src = inv.src
    /\ t.cancelled = inv.cancelled /\ t.was = inv.was /\ t.removed = inv.removed
    /\ t.rec = inv.rec /\ t.runs = inv.runs /\ t.pend = inv.pend
Flags(t, l, s, k, h, b) ==
    t.listed = l /\ t.stopped = s /\ t.kept = k /\ t.held = h /\ t.bad = b
Same(t) == t \in Invocations /\ Stays(t)

Rest == UNCHANGED <<file, state, stored, holder>>
LeftOK ==
    /\ inv.phase # "remove" => left' = left
    /\ inv.phase = "remove" => left' \in RemoveLeftExecs

LEMMA LeftAfter ==
    ASSUME ReplicaType, LeftOK
    PROVE  /\ left' \in Lefts
           /\ inv.phase = "remove" /\ inv.removed => left' \in {"none", "kept"}
<1>1. left \in Lefts
  BY DEF ReplicaType
<1>2. CASE inv.phase # "remove"
  BY <1>1, <1>2 DEF LeftOK
<1>3. CASE inv.phase = "remove"
  <2>1. left' \in RemoveLeftExecs
    BY <1>3 DEF LeftOK
  <2>2. CASE ~inv.removed \/ left = "none"
    <3>1. RemoveLeftExecs = {left}
      BY <2>2 DEF RemoveLeftExecs
    <3>2. left' = left
      BY <2>1, <3>1
    <3>. QED
      BY <1>1, <2>2, <3>2
  <2>3. CASE inv.removed /\ left # "none"
    <3>1. left' \in {"none", "kept"}
      BY <2>1, <2>3 DEF RemoveLeftExecs
    <3>. QED
      BY <3>1 DEF Lefts
  <2>. QED
    BY <2>2, <2>3
<1>. QED
  BY <1>2, <1>3

\* The invocation goes from one phase to the phase p with the steps t.
Move(p, t, l, s, k, h, b) ==
    /\ inv' \in Invocations /\ Stays(inv') /\ Flags(inv', l, s, k, h, b)
    /\ inv'.phase = p /\ inv'.todo = t /\ inv'.err = "none"
    /\ inv.todo = <<>> /\ inv.pend = "no"
    /\ Rest /\ LeftOK /\ UNCHANGED ghosts

LEMMA WithFlag ==
    ASSUME NEW i \in Invocations, NEW b \in BOOLEAN
    PROVE  /\ [i EXCEPT !.listed = b] \in Invocations
           /\ [i EXCEPT !.stopped = b] \in Invocations
           /\ [i EXCEPT !.kept = b] \in Invocations
           /\ [i EXCEPT !.held = b] \in Invocations
           /\ [i EXCEPT !.bad = b] \in Invocations
<1>1. [i EXCEPT !.listed = b] \in Invocations
  BY DEF Invocations
<1>2. [i EXCEPT !.stopped = b] \in Invocations
  BY DEF Invocations
<1>3. [i EXCEPT !.kept = b] \in Invocations
  BY DEF Invocations
<1>4. [i EXCEPT !.held = b] \in Invocations
  BY DEF Invocations
<1>5. [i EXCEPT !.bad = b] \in Invocations
  BY DEF Invocations
<1>. QED
  BY <1>1, <1>2, <1>3, <1>4, <1>5

LEMMA SetFlag ==
    ASSUME ReplicaType, NEW b \in BOOLEAN
    PROVE  /\ Same([inv EXCEPT !.listed = b])
           /\ Flags([inv EXCEPT !.listed = b], b, inv.stopped, inv.kept, inv.held, inv.bad)
           /\ Same([inv EXCEPT !.stopped = b])
           /\ Flags([inv EXCEPT !.stopped = b], inv.listed, b, inv.kept, inv.held, inv.bad)
           /\ Same([inv EXCEPT !.kept = b])
           /\ Flags([inv EXCEPT !.kept = b], inv.listed, inv.stopped, b, inv.held, inv.bad)
           /\ Same([inv EXCEPT !.held = b])
           /\ Flags([inv EXCEPT !.held = b], inv.listed, inv.stopped, inv.kept, b, inv.bad)
           /\ Same([inv EXCEPT !.bad = b])
           /\ Flags([inv EXCEPT !.bad = b], inv.listed, inv.stopped, inv.kept, inv.held, b)
           /\ Same(inv) /\ Flags(inv, inv.listed, inv.stopped, inv.kept, inv.held, inv.bad)
<1>. inv \in Invocations
  BY DEF ReplicaType
<1>1. /\ Stays([inv EXCEPT !.listed = b])
      /\ Flags([inv EXCEPT !.listed = b], b, inv.stopped, inv.kept, inv.held, inv.bad)
  BY DEF Stays, Flags, Invocations
<1>2. /\ Stays([inv EXCEPT !.stopped = b])
      /\ Flags([inv EXCEPT !.stopped = b], inv.listed, b, inv.kept, inv.held, inv.bad)
  BY DEF Stays, Flags, Invocations
<1>3. /\ Stays([inv EXCEPT !.kept = b])
      /\ Flags([inv EXCEPT !.kept = b], inv.listed, inv.stopped, b, inv.held, inv.bad)
  BY DEF Stays, Flags, Invocations
<1>4. /\ Stays([inv EXCEPT !.held = b])
      /\ Flags([inv EXCEPT !.held = b], inv.listed, inv.stopped, inv.kept, b, inv.bad)
  BY DEF Stays, Flags, Invocations
<1>5. /\ Stays([inv EXCEPT !.bad = b])
      /\ Flags([inv EXCEPT !.bad = b], inv.listed, inv.stopped, inv.kept, inv.held, b)
  BY DEF Stays, Flags, Invocations
<1>6. Stays(inv) /\ Flags(inv, inv.listed, inv.stopped, inv.kept, inv.held, inv.bad)
  BY DEF Stays, Flags
<1>. QED
  BY <1>1, <1>2, <1>3, <1>4, <1>5, <1>6, WithFlag, Zenon DEF Same

LEMMA GoMoves ==
    ASSUME ReplicaType, PendOK, inv.todo = <<>>, Rest, LeftOK, UNCHANGED ghosts,
           NEW j, Same(j), NEW l, NEW s, NEW k, NEW h, NEW b, Flags(j, l, s, k, h, b),
           NEW p \in Phases, NEW t \in Seq(StepRecords), inv' = Go(j, p, t)
    PROVE  Move(p, t, l, s, k, h, b)
<1>1. inv' = [j EXCEPT !.phase = p, !.todo = t, !.err = "none"] /\ j \in Invocations
  BY DEF Go, Same
<1>2. inv' \in Invocations
  BY <1>1 DEF Invocations
<1>3. Stays(inv')
  BY <1>1 DEF Stays, Same, Invocations
<1>4. Flags(inv', l, s, k, h, b)
  BY <1>1 DEF Flags, Invocations
<1>5. inv'.phase = p /\ inv'.todo = t /\ inv'.err = "none"
  BY <1>1 DEF Invocations
<1>6. inv.pend = "no"
  BY DEF PendOK
<1>. QED
  BY <1>2, <1>3, <1>4, <1>5, <1>6 DEF Move

\* The invocation is over; b says whether it reports a failure.
Finish(b) ==
    /\ inv' \in Invocations
    /\ inv'.op = "over" /\ inv'.was = inv.op /\ inv'.phase = "done" /\ inv'.err = "none"
    /\ inv'.todo = <<>> /\ inv'.pend = "no" /\ inv'.bad = b
    /\ inv'.want = inv.want /\ inv'.old = inv.old /\ inv'.src = inv.src
    /\ inv'.listed = inv.listed /\ inv'.stopped = inv.stopped /\ inv'.removed = inv.removed
    /\ inv'.kept = inv.kept /\ inv'.held = inv.held /\ inv'.rec = inv.rec /\ inv'.runs = inv.runs
    /\ inv'.cancelled = inv.cancelled
    /\ inv.todo = <<>> /\ inv.op \notin {"idle", "over"}
    /\ Rest /\ LeftOK /\ fate' = Forget(fate) /\ UNCHANGED twice

LEMMA EndsFinish ==
    ASSUME ReplicaType, PendOK, inv.todo = <<>>, inv.op \notin {"idle", "over"}, Rest, LeftOK,
           NEW b, NEW j, Same(j), j.todo = inv.todo,
           Flags(j, inv.listed, inv.stopped, inv.kept, inv.held, b), Ends(j)
    PROVE  Finish(b)
<1>1. j \in Invocations
  BY DEF Same
<1>2. inv' = [j EXCEPT !.op = "over", !.was = inv.op, !.phase = "done", !.err = "none"]
      /\ fate' = Forget(fate) /\ UNCHANGED twice
  BY DEF Ends
<1>3. inv.op \in Operations
  BY DEF ReplicaType, Invocations
<1>4. inv' \in Invocations
  BY <1>1, <1>2, <1>3 DEF Invocations, Phases
<1>5. inv.pend = "no"
  BY DEF PendOK
<1>6. /\ inv'.op = "over" /\ inv'.was = inv.op /\ inv'.phase = "done" /\ inv'.err = "none"
      /\ inv'.todo = <<>> /\ inv'.pend = "no" /\ inv'.bad = b
  BY <1>1, <1>2, <1>5 DEF Invocations, Same, Stays, Flags
<1>7. /\ inv'.want = inv.want /\ inv'.old = inv.old /\ inv'.src = inv.src
      /\ inv'.listed = inv.listed /\ inv'.stopped = inv.stopped /\ inv'.removed = inv.removed
      /\ inv'.kept = inv.kept /\ inv'.held = inv.held /\ inv'.rec = inv.rec /\ inv'.runs = inv.runs
      /\ inv'.cancelled = inv.cancelled
  BY <1>1, <1>2 DEF Invocations, Same, Stays, Flags
<1>. QED
  BY <1>2, <1>4, <1>6, <1>7 DEF Finish

-----------------------------------------------------------------------------
(* The moves from phase to phase                                           *)

Plain(p, t) == Move(p, t, inv.listed, inv.stopped, inv.kept, inv.held, inv.bad)
NotDown == inv.op \notin DownOps

ToCreating ==
    /\ inv.op = "up" /\ inv.phase \in {"list", "remove", "rerelease"}
    /\ Plain("create", WithHooks("create", inv.want, FALSE))
ToRelisting ==
    /\ inv.op = "up" /\ inv.phase \in {"list", "stop", "remove", "rerelease", "create"}
    /\ \/ Plain("relist", <<>>) /\ (~inv.bad => stored = inv.want)
       \/ inv.bad /\ Move("relist", <<>>, inv.listed, inv.stopped, inv.kept, TRUE, inv.bad)
ToStopping ==
    /\ state # "absent"
    /\ \/ NotDown /\ inv.phase = "list" /\ Plain("stop", WithHooks("stop", stored, Forced))
       \/ IsDown /\ inv.phase = "snapshot"
          /\ Move("stop", WithHooks("stop", stored, Forced), inv.listed, TRUE, inv.kept, inv.held, inv.bad)
ToRemoving ==
    \/ NotDown /\ inv.phase \in {"list", "stop"}
       /\ \E s \in BOOLEAN :
            Move("remove", WithHooks("remove", stored, Forced), inv.listed, s, inv.kept, inv.held, inv.bad)
    \/ IsDown /\ inv.phase = "retry" /\ ~inv.kept /\ Plain("remove", WithHooks("remove", stored, Forced))
ToStarting ==
    /\ inv.op \in {"up", "start", "restart"}
    /\ inv.op = "up" => inv.phase = "relist" /\ state # "absent" /\ ~inv.held
    /\ \E hooks \in HookLists : Plain("start", WithHooks("start", hooks, FALSE))
ToSnapshot ==
    /\ IsDown /\ inv.phase = "list" /\ state # "absent"
    /\ Move("snapshot", <<>>, TRUE, inv.stopped, inv.kept, inv.held, inv.bad)
ToRetrying ==
    /\ IsDown
    /\ \/ inv.phase = "snapshot" /\ Plain("retry", <<>>)
       \/ inv.phase = "stop"
          /\ Move("retry", RetrySteps, inv.listed, inv.stopped, inv.err = "hook", inv.held, inv.bad)
ToStrand ==
    /\ IsDown /\ inv.phase \in {"list", "retry", "remove"}
    /\ inv.phase = "list" => state = "absent"
    /\ inv.phase = "retry" => inv.kept
    /\ Plain("strand", <<>>)
ToRereleasing ==
    /\ inv.op \in {"up", "excess"} /\ inv.phase = "remove"
    /\ Plain("rerelease", ReleaseSteps(StopReleases, holder, FALSE))
ToStranding ==
    /\ IsDown /\ inv.op # "downcmd" /\ inv.phase = "strand"
    /\ Plain("stranded", ReleaseSteps(Stranded, holder, Forced))
ToEnd ==
    \E b \in BOOLEAN :
        /\ Finish(b) /\ (b \/ ~inv.bad)
        /\ inv.op = "up" /\ ~b =>
              (inv.phase = "relist" /\ state \in Live) \/ inv.phase = "start"
        /\ IsDown => \/ inv.phase = "strand" /\ (b \/ inv.op = "downcmd")
                     \/ inv.phase = "stranded"
Transition ==
    \/ ToCreating \/ ToRelisting \/ ToStopping \/ ToRemoving \/ ToStarting \/ ToSnapshot
    \/ ToRetrying \/ ToStrand \/ ToRereleasing \/ ToStranding \/ ToEnd

LEMMA StepSeqs ==
    ASSUME ReplicaType
    PROVE  /\ WithHooks("create", inv.want, FALSE) \in Seq(StepRecords)
           /\ WithHooks("start", StartHooks, FALSE) \in Seq(StepRecords) /\ StartHooks \in HookLists
           /\ WithHooks("stop", stored, Forced) \in Seq(StepRecords)
           /\ WithHooks("remove", stored, Forced) \in Seq(StepRecords)
           /\ <<>> \in Seq(StepRecords)
           /\ ReleaseSteps(StopReleases, holder, FALSE) \in Seq(StepRecords)
           /\ ReleaseSteps(Stranded, holder, Forced) \in Seq(StepRecords)
           /\ RetrySteps \in Seq(StepRecords)
<1>1. inv.want \in HookLists /\ stored \in HookLists /\ Forced \in BOOLEAN /\ StartHooks \in HookLists
  BY DEF ReplicaType, Invocations, Forced, StartHooks
<1>2. {"create", "start", "stop", "remove"} \subseteq Pairs
  BY DEF Pairs
<1>3. /\ WithHooks("create", inv.want, FALSE) \in Seq(StepRecords)
      /\ WithHooks("start", StartHooks, FALSE) \in Seq(StepRecords)
      /\ WithHooks("stop", stored, Forced) \in Seq(StepRecords)
      /\ WithHooks("remove", stored, Forced) \in Seq(StepRecords)
  BY <1>1, <1>2, WithHooksFacts
<1>4. \A k \in Keys : holder[k] # Nothing => holder[k] \in HeldRecords
  BY DEF ReplicaType
<1>5. ReleaseSteps(StopReleases, holder, FALSE) \in Seq(StepRecords)
  <2>1. StopReleases \in SUBSET Keys
        /\ \A k \in StopReleases : holder[k] \in HeldRecords /\ holder[k].release # "none"
    BY <1>4 DEF StopReleases, ReleasedAtStop
  <2>. QED
    BY <2>1, ReleaseStepsFacts DEF RelSteps
<1>6. ReleaseSteps(Stranded, holder, Forced) \in Seq(StepRecords)
  <2>1. Stranded \in SUBSET Keys
        /\ \A k \in Stranded : holder[k] \in HeldRecords /\ holder[k].release # "none"
    BY <1>4 DEF Stranded
  <2>. QED
    BY <2>1, <1>1, ReleaseStepsFacts DEF RelSteps
<1>7. RetrySteps \in Seq(StepRecords)
  <2>. DEFINE again == {k \in Keys : inv.rec[k] # Nothing /\ ~inv.rec[k].reportOnly}
              h == [k \in again |-> inv.rec[k].holder]
  <2>1. again \in SUBSET Keys
    OBVIOUS
  <2>2. ASSUME NEW k \in again PROVE h[k] \in HeldRecords /\ h[k].release # "none"
    <3>1. k \in Keys /\ inv.rec[k] \in RecRecords /\ inv.rec[k].holder.value \in Values
      BY DEF ReplicaType, Invocations
    <3>2. inv.rec[k].holder \in [value : Values \cup {Nothing}, hook : Names, release : RelEvents, onError : OnErrors]
      BY <3>1 DEF RecRecords
    <3>3. inv.rec[k].holder \in HeldRecords
      BY <3>1, <3>2 DEF HeldRecords
    <3>4. inv.rec[k].holder.release # "none"
      BY <3>2 DEF RelEvents
    <3>. QED
      BY <3>3, <3>4
  <2>3. RetrySteps = <<>> \/ RetrySteps = ReleaseSteps(again, h, Forced)
    BY DEF RetrySteps
  <2>5. \A k \in again : h[k] \in HeldRecords /\ h[k].release # "none"
    BY <2>2
  <2>. HIDE DEF again, h
  <2>4. ReleaseSteps(again, h, Forced) \in Seq(StepRecords)
    BY <2>1, <2>5, <1>1, ReleaseStepsFacts DEF RelSteps
  <2>6. <<>> \in Seq(StepRecords)
    OBVIOUS
  <2>. QED
    BY <2>3, <2>4, <2>6, Zenon
<1>8. <<>> \in Seq(StepRecords)
  OBVIOUS
<1>. QED
  BY <1>1, <1>3, <1>5, <1>6, <1>7, <1>8, Zenon

LEMMA PhaseNames ==
    {"list", "snapshot", "stop", "retry", "remove", "rerelease", "create", "relist", "start",
     "strand", "stranded", "done"} \subseteq Phases
BY DEF Phases

\* What a phase that is over leaves.
LEMMA OverFacts ==
    ASSUME ReplicaInv, NEW ph, Over(ph)
    PROVE  /\ ReplicaType /\ PendOK /\ inv.todo = <<>> /\ inv.phase = ph
           /\ inv.op \notin {"idle", "over"} /\ inv.op \in Operations
BY DEF ReplicaInv, ReplicaType, ShapeOK, Over, Invocations

\* A step to another phase that leaves the flags alone, or sets one.
LEMMA GoPlain ==
    ASSUME ReplicaType, PendOK, inv.todo = <<>>, Rest, LeftOK, UNCHANGED ghosts,
           NEW p \in Phases, NEW t \in Seq(StepRecords), inv' = Go(inv, p, t)
    PROVE  Plain(p, t)
BY SetFlag, GoMoves DEF Plain

LEMMA GoStopped ==
    ASSUME ReplicaType, PendOK, inv.todo = <<>>, Rest, LeftOK, UNCHANGED ghosts,
           NEW p \in Phases, NEW t \in Seq(StepRecords), inv' = Go(MarkStopped, p, t)
    PROVE  Move(p, t, inv.listed, TRUE, inv.kept, inv.held, inv.bad)
BY SetFlag, GoMoves DEF MarkStopped

LEMMA GoHeld ==
    ASSUME ReplicaType, PendOK, inv.todo = <<>>, Rest, LeftOK, UNCHANGED ghosts, inv' = Hold(inv)
    PROVE  Move("relist", <<>>, inv.listed, inv.stopped, inv.kept, TRUE, inv.bad)
<1>1. <<>> \in Seq(StepRecords) /\ "relist" \in Phases
  BY PhaseNames
<1>. QED
  BY <1>1, SetFlag, GoMoves DEF Hold, Relist

LEMMA EndPlain ==
    ASSUME ReplicaType, PendOK, inv.todo = <<>>, inv.op \notin {"idle", "over"}, Rest, LeftOK, Ends(inv)
    PROVE  Finish(inv.bad) /\ inv.bad \in BOOLEAN
<1>1. inv.bad \in BOOLEAN
  BY DEF ReplicaType, Invocations
<1>. QED
  BY <1>1, SetFlag, EndsFinish

LEMMA EndBad ==
    ASSUME ReplicaType, PendOK, inv.todo = <<>>, inv.op \notin {"idle", "over"}, Rest, LeftOK,
           NEW b \in BOOLEAN, Ends([inv EXCEPT !.bad = b])
    PROVE  Finish(b)
<1>1. [inv EXCEPT !.bad = b].todo = inv.todo
  BY DEF ReplicaType, Invocations
<1>. QED
  BY <1>1, SetFlag, EndsFinish

LEMMA WorldRests ==
    ASSUME UNCHANGED world, inv.phase # "remove"
    PROVE  Rest /\ LeftOK
BY DEF world, Rest, LeftOK

LEMMA OpKinds ==
    ASSUME ReplicaType
    PROVE  /\ inv.op \in {"up", "start", "stop", "restart", "excess", "orphan"} => NotDown /\ ~IsDown
           /\ IsDown <=> inv.op \in DownOps
           /\ IsDown => inv.op \notin {"idle", "over", "up", "start", "stop", "restart", "excess", "orphan"}
BY DEF NotDown, IsDown, DownOps

LEMMA ListUpMoves ==
    ASSUME ReplicaInv, ListUp PROVE Transition
<1>. USE PhaseNames
<1>1. /\ ReplicaType /\ PendOK /\ inv.todo = <<>> /\ inv.phase = "list"
      /\ Rest /\ LeftOK /\ inv.op = "up" /\ UNCHANGED ghosts
  BY OverFacts, WorldRests DEF ListUp, Goes
<1>2. NotDown
  BY <1>1, OpKinds
<1>3. CASE state = "absent" /\ inv' = ToCreate(inv)
  <2>1. Plain("create", WithHooks("create", inv.want, FALSE))
    BY <1>1, <1>3, StepSeqs, GoPlain DEF ToCreate
  <2>. QED
    BY <2>1, <1>1 DEF Transition, ToCreating
<1>4. CASE stored = inv.want /\ inv' = Relist(inv)
  <2>1. Plain("relist", <<>>)
    BY <1>1, <1>4, StepSeqs, GoPlain DEF Relist
  <2>. QED
    BY <2>1, <1>1, <1>4 DEF Transition, ToRelisting
<1>5. CASE state # "absent" /\ inv' = ToStop(inv)
  <2>1. Plain("stop", WithHooks("stop", stored, Forced))
    BY <1>1, <1>5, StepSeqs, GoPlain DEF ToStop, StopSteps
  <2>. QED
    BY <2>1, <1>1, <1>2, <1>5 DEF Transition, ToStopping
<1>6. CASE state # "absent" /\ inv' = ToRemove(inv)
  <2>1. Plain("remove", WithHooks("remove", stored, Forced))
    BY <1>1, <1>6, StepSeqs, GoPlain DEF ToRemove, RemoveSteps
  <2>2. inv.stopped \in BOOLEAN
    BY <1>1 DEF ReplicaType, Invocations
  <2>. QED
    BY <2>1, <2>2, <1>1, <1>2 DEF Transition, ToRemoving, Plain
<1>. QED
  BY <1>3, <1>4, <1>5, <1>6 DEF ListUp, Goes

LEMMA ListOtherMoves ==
    ASSUME ReplicaInv, ListOther PROVE Transition
<1>. USE PhaseNames
<1>1. /\ ReplicaType /\ PendOK /\ inv.todo = <<>> /\ inv.phase = "list"
      /\ Rest /\ LeftOK /\ inv.op \in {"start", "stop", "restart", "excess", "orphan"}
      /\ inv.op \notin {"idle", "over"}
  BY OverFacts, WorldRests DEF ListOther
<1>2. NotDown /\ ~IsDown /\ inv.op # "up"
  BY <1>1, OpKinds
<1>3. CASE Goes(ToStop(inv)) /\ state # "absent"
  <2>1. Plain("stop", WithHooks("stop", stored, Forced))
    BY <1>1, <1>3, StepSeqs, GoPlain DEF ToStop, StopSteps, Goes
  <2>. QED
    BY <2>1, <1>1, <1>2, <1>3 DEF Transition, ToStopping
<1>4. CASE Goes(ToRemove(inv))
  <2>1. Plain("remove", WithHooks("remove", stored, Forced))
    BY <1>1, <1>4, StepSeqs, GoPlain DEF ToRemove, RemoveSteps, Goes
  <2>2. inv.stopped \in BOOLEAN
    BY <1>1 DEF ReplicaType, Invocations
  <2>. QED
    BY <2>1, <2>2, <1>1, <1>2 DEF Transition, ToRemoving, Plain
<1>5. CASE Goes(ToStart(inv)) /\ inv.op \in {"start", "restart"}
  <2>1. Plain("start", WithHooks("start", StartHooks, FALSE)) /\ StartHooks \in HookLists
    BY <1>1, <1>5, StepSeqs, GoPlain DEF ToStart, Goes
  <2>. QED
    BY <2>1, <1>2, <1>5 DEF Transition, ToStarting
<1>6. CASE Ends(inv)
  <2>1. Finish(inv.bad) /\ inv.bad \in BOOLEAN
    BY <1>1, <1>6, EndPlain
  <2>. QED
    BY <2>1, <1>2 DEF Transition, ToEnd
<1>8. ~inv.bad
  BY <1>1 DEF ReplicaInv, OutcomesOK, ErrOK
<1>7. ASSUME NEW o, Ends([inv EXCEPT !.bad = inv.op = o]) PROVE Transition
  <2>1. (inv.op = o) \in BOOLEAN
    OBVIOUS
  <2>2. Finish(inv.op = o)
    BY <2>1, <1>1, <1>7, EndBad
  <2>. QED
    BY <2>1, <2>2, <1>2, <1>8 DEF Transition, ToEnd
<1>. QED
  BY <1>1, <1>3, <1>4, <1>5, <1>6, <1>7 DEF ListOther, Live

LEMMA ListDownMoves ==
    ASSUME ReplicaInv, ListDown \/ SnapshotDown PROVE Transition
<1>. USE PhaseNames
<1>1. /\ ReplicaType /\ PendOK /\ inv.todo = <<>> /\ Rest /\ LeftOK /\ UNCHANGED ghosts
      /\ ListDown => inv.phase = "list" /\ IsDown
      /\ SnapshotDown => inv.phase = "snapshot" /\ IsDown
  BY OverFacts, WorldRests DEF ListDown, SnapshotDown, Goes, ReplicaInv, ShapeOK, PhaseOK
<1>2. CASE ListDown /\ state = "absent"
  <2>1. Plain("strand", <<>>)
    BY <1>1, <1>2, StepSeqs, GoPlain DEF ListDown, Goes
  <2>. QED
    BY <2>1, <1>1, <1>2 DEF Transition, ToStrand
<1>3. CASE ListDown /\ state # "absent"
  <2>1. Move("snapshot", <<>>, TRUE, inv.stopped, inv.kept, inv.held, inv.bad)
    BY <1>1, <1>3, StepSeqs, SetFlag, GoMoves DEF ListDown, Goes
  <2>. QED
    BY <2>1, <1>1, <1>3 DEF Transition, ToSnapshot
<1>4. CASE SnapshotDown /\ state \in Live
  <2>1. Move("stop", WithHooks("stop", stored, Forced), inv.listed, TRUE, inv.kept, inv.held, inv.bad)
    BY <1>1, <1>4, StepSeqs, GoStopped DEF SnapshotDown, Goes, ToStop, StopSteps
  <2>. QED
    BY <2>1, <1>1, <1>4 DEF Transition, ToStopping, Live
<1>5. CASE SnapshotDown /\ state \notin Live
  <2>1. Plain("retry", <<>>)
    BY <1>1, <1>5, StepSeqs, GoPlain DEF SnapshotDown, Goes
  <2>. QED
    BY <2>1, <1>1, <1>5 DEF Transition, ToRetrying
<1>. QED
  BY <1>2, <1>3, <1>4, <1>5

LEMMA AfterStopMoves ==
    ASSUME ReplicaInv, AfterStop PROVE Transition
<1>. USE PhaseNames
<1>1. /\ ReplicaType /\ PendOK /\ inv.todo = <<>> /\ inv.phase = "stop" /\ Rest /\ LeftOK
      /\ inv.op \notin {"idle", "over"}
  BY OverFacts, WorldRests DEF AfterStop
<1>2. inv.err # "none" => inv.bad
  BY DEF ReplicaInv, OutcomesOK, ErrOK
<1>3. CASE IsDown /\ Goes(Go([inv EXCEPT !.kept = inv.err = "hook"], "retry", RetrySteps))
  <2>1. (inv.err = "hook") \in BOOLEAN
    OBVIOUS
  <2>2. Same([inv EXCEPT !.kept = inv.err = "hook"])
        /\ Flags([inv EXCEPT !.kept = inv.err = "hook"], inv.listed, inv.stopped, inv.err = "hook", inv.held, inv.bad)
    BY <1>1, <2>1, SetFlag, Zenon
  <2>3. Move("retry", RetrySteps, inv.listed, inv.stopped, inv.err = "hook", inv.held, inv.bad)
    BY <1>1, <1>3, <2>2, StepSeqs, GoMoves DEF Goes
  <2>. QED
    BY <2>3, <1>1, <1>3 DEF Transition, ToRetrying
<1>4. CASE inv.op = "restart" /\ Goes(ToStart(inv))
  <2>1. Plain("start", WithHooks("start", StartHooks, FALSE)) /\ StartHooks \in HookLists
    BY <1>1, <1>4, StepSeqs, GoPlain DEF ToStart, Goes
  <2>. QED
    BY <2>1, <1>4 DEF Transition, ToStarting
<1>5. CASE inv.op \in {"up", "excess"} /\ Goes(ToRemove(MarkStopped))
  <2>1. Move("remove", WithHooks("remove", stored, Forced), inv.listed, TRUE, inv.kept, inv.held, inv.bad)
    BY <1>1, <1>5, StepSeqs, GoStopped DEF ToRemove, RemoveSteps, Goes
  <2>2. NotDown
    BY <1>1, <1>5, OpKinds
  <2>. QED
    BY <2>1, <2>2, <1>1 DEF Transition, ToRemoving
<1>6. CASE inv.op = "up" /\ inv.err # "none" /\ Goes(Hold(inv))
  <2>1. Move("relist", <<>>, inv.listed, inv.stopped, inv.kept, TRUE, inv.bad)
    BY <1>1, <1>6, GoHeld DEF Goes
  <2>. QED
    BY <2>1, <1>1, <1>2, <1>6 DEF Transition, ToRelisting
<1>7. CASE ~IsDown /\ inv.op # "up" /\ Ends(inv)
  <2>1. Finish(inv.bad) /\ inv.bad \in BOOLEAN
    BY <1>1, <1>7, EndPlain
  <2>. QED
    BY <2>1, <1>7 DEF Transition, ToEnd
<1>8. IsDown => inv.op \notin {"up", "restart", "excess"}
  BY <1>1, OpKinds
<1>. QED
  <2>1. CASE IsDown
    BY <1>3, <1>8, <2>1 DEF AfterStop
  <2>2. CASE inv.op = "restart"
    BY <1>4, <1>7, <1>8, <2>2 DEF AfterStop
  <2>3. CASE inv.op = "up"
    BY <1>5, <1>6, <1>8, <2>3 DEF AfterStop
  <2>4. CASE inv.op = "excess"
    BY <1>5, <1>7, <1>8, <2>4 DEF AfterStop
  <2>5. CASE ~IsDown /\ inv.op \notin {"restart", "up", "excess"}
    BY <1>7, <2>5 DEF AfterStop
  <2>. QED
    BY <2>1, <2>2, <2>3, <2>4, <2>5

LEMMA AfterRetryMoves ==
    ASSUME ReplicaInv, AfterRetry PROVE Transition
<1>. USE PhaseNames
<1>1. /\ ReplicaType /\ PendOK /\ inv.todo = <<>> /\ inv.phase = "retry" /\ Rest /\ LeftOK /\ UNCHANGED ghosts
      /\ IsDown
  BY OverFacts, WorldRests DEF AfterRetry, Goes, ReplicaInv, ShapeOK, PhaseOK
<1>2. CASE inv.kept
  <2>1. Plain("strand", <<>>)
    BY <1>1, <1>2, StepSeqs, GoPlain DEF AfterRetry, Goes
  <2>. QED
    BY <2>1, <1>1, <1>2 DEF Transition, ToStrand
<1>3. CASE ~inv.kept
  <2>1. Plain("remove", WithHooks("remove", stored, Forced))
    BY <1>1, <1>3, StepSeqs, GoPlain DEF AfterRetry, Goes, ToRemove, RemoveSteps
  <2>. QED
    BY <2>1, <1>1, <1>3 DEF Transition, ToRemoving
<1>. QED
  BY <1>2, <1>3

LEMMA AfterRemoveMoves ==
    ASSUME ReplicaInv, AfterRemove PROVE Transition
<1>. USE PhaseNames
<1>1. /\ ReplicaType /\ PendOK /\ inv.todo = <<>> /\ inv.phase = "remove" /\ Rest /\ LeftOK
      /\ inv.op \notin {"idle", "over"}
  BY OverFacts DEF AfterRemove, Rest, LeftOK
<1>2. inv.err # "none" => inv.bad
  BY DEF ReplicaInv, OutcomesOK, ErrOK
<1>3. CASE IsDown /\ Goes(Go(inv, "strand", <<>>))
  <2>1. Plain("strand", <<>>)
    BY <1>1, <1>3, StepSeqs, GoPlain DEF Goes
  <2>. QED
    BY <2>1, <1>1, <1>3 DEF Transition, ToStrand
<1>4. CASE inv.op \in {"up", "excess"} /\ Goes(Go(inv, "rerelease", ReleaseSteps(StopReleases, holder, FALSE)))
  <2>1. Plain("rerelease", ReleaseSteps(StopReleases, holder, FALSE))
    BY <1>1, <1>4, StepSeqs, GoPlain DEF Goes
  <2>. QED
    BY <2>1, <1>1, <1>4 DEF Transition, ToRereleasing
<1>5. CASE inv.op = "up" /\ inv.err = "none" /\ Goes(ToCreate(inv))
  <2>1. Plain("create", WithHooks("create", inv.want, FALSE))
    BY <1>1, <1>5, StepSeqs, GoPlain DEF ToCreate, Goes
  <2>. QED
    BY <2>1, <1>1, <1>5 DEF Transition, ToCreating
<1>6. CASE inv.op = "up" /\ inv.err # "none" /\ Goes(Hold(inv))
  <2>1. Move("relist", <<>>, inv.listed, inv.stopped, inv.kept, TRUE, inv.bad)
    BY <1>1, <1>6, GoHeld DEF Goes
  <2>. QED
    BY <2>1, <1>1, <1>2, <1>6 DEF Transition, ToRelisting
<1>7. CASE ~IsDown /\ inv.op # "up" /\ Ends(inv)
  <2>1. Finish(inv.bad) /\ inv.bad \in BOOLEAN
    BY <1>1, <1>7, EndPlain
  <2>. QED
    BY <2>1, <1>7 DEF Transition, ToEnd
<1>. QED
  BY <1>3, <1>4, <1>5, <1>6, <1>7 DEF AfterRemove

LEMMA UpMoves ==
    ASSUME ReplicaInv, AfterRerelease \/ AfterCreate PROVE Transition
<1>. USE PhaseNames
<1>1. /\ ReplicaType /\ PendOK /\ inv.todo = <<>> /\ Rest /\ LeftOK /\ inv.op \notin {"idle", "over"}
      /\ AfterRerelease => inv.phase = "rerelease" /\ inv.op \in {"up", "excess"}
      /\ AfterCreate => inv.phase = "create" /\ inv.op = "up"
  BY OverFacts, WorldRests DEF AfterRerelease, AfterCreate, ReplicaInv, ShapeOK, PhaseOK
<1>2. /\ inv.err # "none" => inv.bad
      /\ ~inv.bad /\ inv.op = "up" /\ inv.phase = "create" => stored = inv.want
  BY <1>1 DEF ReplicaInv, OutcomesOK, ErrOK, UpTrue
<1>3. CASE AfterRerelease /\ Ends(inv) /\ inv.op = "excess"
  <2>1. Finish(inv.bad) /\ inv.bad \in BOOLEAN
    BY <1>1, <1>3, EndPlain
  <2>. QED
    BY <2>1, <1>1, <1>3, OpKinds DEF Transition, ToEnd
<1>4. CASE inv.op = "up" /\ inv.bad /\ Goes(Hold(inv))
  <2>1. Move("relist", <<>>, inv.listed, inv.stopped, inv.kept, TRUE, inv.bad)
    BY <1>1, <1>4, GoHeld DEF Goes
  <2>. QED
    BY <2>1, <1>1, <1>4 DEF Transition, ToRelisting
<1>5. CASE AfterRerelease /\ inv.op = "up" /\ Goes(ToCreate(inv))
  <2>1. Plain("create", WithHooks("create", inv.want, FALSE))
    BY <1>1, <1>5, StepSeqs, GoPlain DEF ToCreate, Goes
  <2>. QED
    BY <2>1, <1>1, <1>5 DEF Transition, ToCreating
<1>6. CASE AfterCreate /\ Goes(Relist(inv))
  <2>1. Plain("relist", <<>>)
    BY <1>1, <1>6, StepSeqs, GoPlain DEF Relist, Goes
  <2>. QED
    BY <2>1, <1>1, <1>2, <1>6 DEF Transition, ToRelisting
<1>7. CASE AfterRerelease
  BY <1>1, <1>3, <1>4, <1>5, <1>7 DEF AfterRerelease
<1>8. CASE AfterCreate
  BY <1>1, <1>2, <1>4, <1>6, <1>8 DEF AfterCreate
<1>. QED
  BY <1>7, <1>8

LEMMA StartMoves ==
    ASSUME ReplicaInv, RelistUp \/ AfterStart PROVE Transition
<1>. USE PhaseNames
<1>1. /\ ReplicaType /\ PendOK /\ inv.todo = <<>> /\ Rest /\ LeftOK /\ inv.op \notin {"idle", "over"}
      /\ RelistUp => inv.phase = "relist" /\ inv.op = "up"
      /\ AfterStart => inv.phase = "start" /\ inv.op \in {"up", "start", "restart"}
  BY OverFacts, WorldRests DEF RelistUp, AfterStart, ReplicaInv, ShapeOK, PhaseOK
<1>2. inv.held => inv.bad
  BY DEF ReplicaInv, OutcomesOK, ErrOK
<1>3. ~IsDown
  BY <1>1, OpKinds
<1>4. CASE RelistUp /\ (inv.held \/ state \in Live)
  <2>1. Finish(inv.bad) /\ inv.bad \in BOOLEAN
    BY <1>1, <1>4, EndPlain DEF RelistUp
  <2>. QED
    BY <2>1, <1>1, <1>2, <1>3, <1>4 DEF Transition, ToEnd
<1>5. CASE RelistUp /\ ~inv.held /\ state \notin Live /\ state = "absent"
  <2>1. Finish(TRUE)
    BY <1>1, <1>5, EndBad DEF RelistUp
  <2>. QED
    BY <2>1, <1>3 DEF Transition, ToEnd
<1>6. CASE RelistUp /\ ~inv.held /\ state \notin Live /\ state # "absent"
  <2>1. Plain("start", WithHooks("start", StartHooks, FALSE)) /\ StartHooks \in HookLists
    BY <1>1, <1>6, StepSeqs, GoPlain DEF RelistUp, ToStart, Goes
  <2>. QED
    BY <2>1, <1>1, <1>6 DEF Transition, ToStarting
<1>7. CASE AfterStart
  <2>1. Finish(inv.bad) /\ inv.bad \in BOOLEAN
    BY <1>1, <1>7, EndPlain DEF AfterStart
  <2>. QED
    BY <2>1, <1>1, <1>3, <1>7 DEF Transition, ToEnd
<1>. QED
  BY <1>4, <1>5, <1>6, <1>7

LEMMA StrandMoves ==
    ASSUME ReplicaInv, Strand \/ AfterStranded PROVE Transition
<1>. USE PhaseNames
<1>1. /\ ReplicaType /\ PendOK /\ inv.todo = <<>> /\ Rest /\ LeftOK /\ inv.op \notin {"idle", "over"}
      /\ Strand => inv.phase = "strand"
      /\ AfterStranded => inv.phase = "stranded"
      /\ IsDown
  BY OverFacts, WorldRests DEF Strand, AfterStranded, ReplicaInv, ShapeOK, PhaseOK
<1>2. inv.op # "up"
  BY <1>1, OpKinds
<1>3. CASE Strand /\ inv.op = "downcmd" /\ Ends(inv)
  <2>1. Finish(inv.bad) /\ inv.bad \in BOOLEAN
    BY <1>1, <1>3, EndPlain
  <2>. QED
    BY <2>1, <1>1, <1>2, <1>3 DEF Transition, ToEnd
<1>4. CASE Strand /\ inv.op # "downcmd" /\ Goes(Go(inv, "stranded", ReleaseSteps(Stranded, holder, Forced)))
  <2>1. Plain("stranded", ReleaseSteps(Stranded, holder, Forced))
    BY <1>1, <1>4, StepSeqs, GoPlain DEF Goes
  <2>. QED
    BY <2>1, <1>1, <1>4 DEF Transition, ToStranding
<1>5. CASE Strand /\ Ends([inv EXCEPT !.bad = TRUE])
  <2>1. Finish(TRUE)
    BY <1>1, <1>5, EndBad
  <2>. QED
    BY <2>1, <1>1, <1>2, <1>5 DEF Transition, ToEnd
<1>6. CASE AfterStranded
  <2>1. Finish(inv.bad) /\ inv.bad \in BOOLEAN
    BY <1>1, <1>6, EndPlain DEF AfterStranded
  <2>. QED
    BY <2>1, <1>1, <1>2, <1>6 DEF Transition, ToEnd
<1>7. CASE Strand
  BY <1>3, <1>4, <1>5, <1>7 DEF Strand
<1>. QED
  BY <1>6, <1>7

PhaseActions ==
    \/ ListUp \/ ListOther \/ ListDown \/ SnapshotDown \/ AfterStop \/ AfterRetry \/ AfterRemove
    \/ AfterRerelease \/ AfterCreate \/ RelistUp \/ AfterStart \/ Strand \/ AfterStranded

LEMMA PhaseMoves ==
    ASSUME ReplicaInv, PhaseActions PROVE Transition
BY ListUpMoves, ListOtherMoves, ListDownMoves, AfterStopMoves, AfterRetryMoves, AfterRemoveMoves,
   UpMoves, StartMoves, StrandMoves DEF PhaseActions

-----------------------------------------------------------------------------
(* The steps of a phase                                                    *)

\* w are the hooks of an operation and the operation.
HookSteps(w, p, hooks, force) ==
    /\ w \in Seq(StepRecords)
    /\ \A n \in DOMAIN w :
          /\ w[n].what \in {"hook", p} /\ w[n].ev \in {Pre[p], Post[p]}
          /\ w[n].what = p => w[n].hook.res = Nothing
          /\ w[n].what = "hook" => 
                /\ w[n].hook.on[w[n].ev] # "unset" /\ (force => w[n].onError # "fail")
                /\ \E i \in DOMAIN hooks : w[n].hook = hooks[i]
    /\ \E n \in DOMAIN w : w[n].what = p
    /\ \A i \in DOMAIN hooks, ev \in {Pre[p], Post[p]} :
          hooks[i].on[ev] # "unset" => \E n \in DOMAIN w : w[n].hook = hooks[i]
    /\ \A n, m \in DOMAIN w : n # m /\ w[n].hook.res \in Keys => w[n].hook.res # w[m].hook.res

LEMMA HookStepsOf ==
    ASSUME NEW kind \in Pairs, NEW hooks \in HookLists, NEW force \in BOOLEAN,
           NEW w, w = WithHooks(kind, hooks, force)
    PROVE  HookSteps(w, kind, hooks, force)
<1>0. hooks \in Seq(Hooks) /\ Pre[kind] \in Events /\ Post[kind] \in Events /\ kind # "hook"
  BY HookListType, EventNames DEF Pairs
<1>1. /\ w \in Seq(StepRecords)
      /\ \A n, m \in DOMAIN w : n # m /\ w[n].hook.res \in Keys => w[n].hook.res # w[m].hook.res
  BY WithHooksFacts
<1>2. \A n \in DOMAIN w :
                 \/ w[n] = OpStep(kind)
                 \/ \E i \in DOMAIN hooks, ev \in {Pre[kind], Post[kind]} :
                       hooks[i].on[ev] # "unset" /\ w[n] = HookStep(hooks[i], ev, force)
  BY WithHooksFacts
<1>3. \E n \in DOMAIN w : w[n] = OpStep(kind)
  BY WithHooksFacts
<1>4. \A i \in DOMAIN hooks, ev \in {Pre[kind], Post[kind]} : hooks[i].on[ev] # "unset" =>
                 \E n \in DOMAIN w : w[n] = HookStep(hooks[i], ev, force)
  BY WithHooksFacts
<1>5. \A i \in DOMAIN hooks : hooks[i] \in Hooks
  BY <1>0
<1>6. ASSUME NEW i \in DOMAIN hooks, NEW ev \in {Pre[kind], Post[kind]}, hooks[i].on[ev] # "unset",
             NEW s, s = HookStep(hooks[i], ev, force)
      PROVE  s.what = "hook" /\ s.hook = hooks[i] /\ s.ev = ev /\ (force => s.onError # "fail")
  BY ONLY <1>0, <1>5, <1>6, HookStepFields
<1>7. ASSUME NEW s, s = OpStep(kind) PROVE s.what = kind /\ s.hook.res = Nothing /\ s.ev = Pre[kind]
  BY ONLY <1>7, OpStepFields, kind \in Pairs
<1>8. ASSUME NEW n \in DOMAIN w
      PROVE  /\ w[n].what \in {"hook", kind} /\ w[n].ev \in {Pre[kind], Post[kind]}
             /\ w[n].what = kind => w[n].hook.res = Nothing
             /\ w[n].what = "hook" => 
                  /\ w[n].hook.on[w[n].ev] # "unset" /\ (force => w[n].onError # "fail")
                  /\ \E i \in DOMAIN hooks : w[n].hook = hooks[i]
  <2>1. CASE w[n] = OpStep(kind)
    BY <2>1, <1>7, <1>0
  <2>2. CASE w[n] # OpStep(kind)
    <3>1. PICK i \in DOMAIN hooks, ev \in {Pre[kind], Post[kind]} :
                       hooks[i].on[ev] # "unset" /\ w[n] = HookStep(hooks[i], ev, force)
      BY ONLY <2>2, <1>2, <1>8
    <3>2. w[n].what = "hook" /\ w[n].hook = hooks[i] /\ w[n].ev = ev /\ (force => w[n].onError # "fail")
      BY <3>1, <1>6
    <3>. QED
      BY ONLY <3>1, <3>2, <1>0
  <2>. QED
    BY <2>1, <2>2
<1>9. \E n \in DOMAIN w : w[n].what = kind
  BY ONLY <1>3, <1>7
<1>10. ASSUME NEW i \in DOMAIN hooks, NEW ev \in {Pre[kind], Post[kind]}, hooks[i].on[ev] # "unset"
       PROVE  \E n \in DOMAIN w : w[n].hook = hooks[i]
  <2>1. PICK n \in DOMAIN w : w[n] = HookStep(hooks[i], ev, force)
    BY ONLY <1>4, <1>10
  <2>. QED
    BY <2>1, <1>6, <1>10
<1>. QED
  BY ONLY <1>1, <1>8, <1>9, <1>10 DEF HookSteps

LEMMA MoveType ==
    ASSUME ReplicaType, NEW p, NEW t, NEW l, NEW s, NEW k, NEW h, NEW b, Move(p, t, l, s, k, h, b)
    PROVE  ReplicaType'
<1>1. inv' \in Invocations /\ inv'.rec = inv.rec
  BY DEF Move, Stays
<1>2. left' \in Lefts
  <2>1. LeftOK
    BY DEF Move
  <2>. QED
    BY <2>1, LeftAfter
<1>3. /\ file' = file /\ state' = state /\ stored' = stored /\ holder' = holder
      /\ fate' = fate /\ twice' = twice
  BY DEF Move, Rest, ghosts
<1>. QED
  BY <1>1, <1>2, <1>3 DEF ReplicaType

LEMMA ShapeHooks ==
    ASSUME NEW p \in Pairs, inv'.phase = p, inv'.pend = "no", NEW hooks, NEW force,
           HookSteps(inv'.todo, p, hooks, force), Forced' => force
    PROVE  StepsOK' /\ StepsApart' /\ PendOK'
<1>1. StepsOK'
  BY DEF StepsOK, StepOK, HookSteps, Forced
<1>2. StepsApart'
  BY DEF StepsApart, HookSteps
<1>. QED
  BY <1>1, <1>2 DEF PendOK

LEMMA ShapeRels ==
    ASSUME inv'.phase \in {"retry", "rerelease", "stranded"}, inv'.pend = "no", NEW ks, NEW h,
           RelSteps(inv'.todo, ks, h)
    PROVE  StepsOK' /\ StepsApart' /\ PendOK'
<1>0. Nothing \notin HeldRecords
  <2>1. HeldRecords \subseteq HolderRecords
    BY EventNames DEF HeldRecords, HolderRecords
  <2>. QED
    BY <2>1, NothingAssumption
<1>1. StepsOK'
  BY <1>0 DEF StepsOK, StepOK, RelSteps, Pairs
<1>2. StepsApart'
  BY DEF StepsApart, RelSteps
<1>. QED
  BY <1>1, <1>2 DEF PendOK

LEMMA ShapeEmpty ==
    ASSUME inv'.pend = "no", inv'.todo = <<>>
    PROVE  StepsOK' /\ StepsApart' /\ PendOK'
<1>1. DOMAIN inv'.todo = {}
  OBVIOUS
<1>. QED
  BY <1>1 DEF StepsOK, StepsApart, PendOK

\* A move frees no value and names no new one.
LEMMA MoveValues ==
    ASSUME ReplicaInv, NEW p, NEW t, NEW ml, NEW ms, NEW mk, NEW mh, NEW mb, Move(p, t, ml, ms, mk, mh, mb),
           p = "stop" => inv.rec = NoRec,
           \A n \in DOMAIN t : t[n].what = "release" =>
               t[n].hook.res \in Keys /\ t[n].held \in HeldRecords /\ Slot(t[n].hook.res, t[n].held.value)
    PROVE  ValuesOK'
<1>1. /\ inv'.phase = p /\ inv'.todo = t /\ inv'.rec = inv.rec /\ inv'.was = inv.was /\ inv'.op = inv.op
      /\ inv.pend = "no" /\ inv'.pend = "no" /\ inv.todo = <<>> /\ holder' = holder /\ fate' = fate /\ twice' = twice
  BY DEF Move, Stays, Rest, ghosts
<1>2. ReplicaType /\ NothingLost /\ NoSecondRelease /\ SlotsOK /\ ReleasedOK /\ RecOK
  BY DEF ReplicaInv, ValuesOK
<1>3. DOMAIN inv.todo = {}
  BY <1>1
<1>4. \A k \in Keys, v \in Values : ~InTodo(k, v)
  BY <1>3 DEF InTodo
<1>6. ASSUME NEW k \in Keys, NEW v \in Values PROVE ~InRec(k, v)'
  BY <1>1 DEF InRec, NoRec
<1>7. ASSUME NEW k \in Keys, NEW v \in Values, Slot(k, v)' PROVE Slot(k, v)
  <2>1. CASE InHolder(k, v)'
    BY <2>1, <1>1 DEF Slot, InHolder
  <2>2. CASE InTodo(k, v)'
    BY <2>2, <1>1 DEF InTodo
  <2>. QED
    BY <1>6, <1>7, <2>1, <2>2 DEF Slot
<1>8. ASSUME NEW k \in Keys, NEW v \in Values, Slot(k, v) PROVE fate[v] # "released"
  BY <1>1, <1>2, <1>4, <1>8, ValuesAssumption DEF ReleasedOK, Slot, InHolder
<1>9. NothingLost' /\ NoSecondRelease'
  BY <1>1, <1>2, ValuesAssumption DEF NothingLost, NoSecondRelease, Held
<1>10. SlotsOK'
  BY <1>2, <1>7 DEF SlotsOK
<1>11. ReleasedOK'
  <2>1. \A k \in Keys : holder'[k] # Nothing => fate'[holder'[k].value] # "released"
    BY <1>1, <1>2 DEF ReleasedOK
  <2>2. ASSUME NEW i \in DOMAIN t, t[i].what = "release" PROVE fate'[t[i].held.value] # "released"
    <3>1. t[i].held.value \in Values
      BY <2>2 DEF HeldRecords
    <3>. QED
      BY <2>2, <3>1, <1>8, <1>1
  <2>3. \A k \in Keys, v \in Values : InRec(k, v)' => fate'[v] # "released"
    BY <1>6
  <2>. QED
    BY <2>1, <2>2, <2>3, <1>1 DEF ReleasedOK
<1>12. RecOK'
  <2>1. \A k \in Keys : p = "stop" => inv'.rec[k] = Nothing
    BY <1>1 DEF NoRec
  <2>. QED
    BY <2>1, <1>1, <1>2, ValuesAssumption DEF RecOK, IsDown, NoRec
<1>. QED
  BY <1>9, <1>10, <1>11, <1>12 DEF ValuesOK

LEMMA NotDownCounts ==
    ASSUME ~IsDown', inv'.was \notin DownOps, inv'.phase # "retry"
    PROVE  CountsOK'
BY DEF CountsOK, DownOK, RunsOK, RetriedWhenStopped

LEMMA NotDownOutcomes ==
    ASSUME ~IsDown', inv'.was \notin DownOps, ErrOK', UpTrue'
    PROVE  OutcomesOK'
BY DEF OutcomesOK, KeptStays, ForcePasses, Forced, ErrOK, IsOrWasDown, IsDown, DownOps, DownTrue, ExecsTrue

\* What a move of another verb than down needs of its own.
LEMMA NotDownMove ==
    ASSUME ReplicaInv, ~IsDown, NEW p, NEW t, NEW ml, NEW ms, NEW mk, NEW mh, NEW mb,
           inv.op \notin {"idle", "over"},
           Move(p, t, ml, ms, mk, mh, mb), mk = inv.kept, mb = inv.bad, mh => inv.bad, p # "retry", p # "list"
    PROVE  /\ ReplicaType' /\ ErrOK' /\ CountsOK' /\ ~IsDown' /\ inv'.was \notin DownOps
           /\ inv.rec = NoRec /\ inv.was = "idle" /\ (UpTrue' => OutcomesOK')
<1>1. /\ inv'.phase = p /\ inv'.was = inv.was /\ inv'.op = inv.op /\ inv'.err = "none"
      /\ inv'.kept = inv.kept /\ inv'.bad = inv.bad /\ (inv'.held => inv.bad)
  BY DEF Move, Stays, Flags
<1>2. inv.was = "idle"
  BY DEF ReplicaInv, ShapeOK, PhaseOK
<1>3. ReplicaType'
  BY MoveType DEF ReplicaInv
<1>4. ~IsDown' /\ inv'.was \notin DownOps /\ inv.was \notin DownOps
  BY <1>1, <1>2 DEF IsDown, DownOps
<1>5. ~inv.kept
  BY <1>4 DEF ReplicaInv, OutcomesOK, ErrOK, IsOrWasDown
<1>6. ErrOK'
  BY <1>1, <1>5 DEF ErrOK
<1>7. inv.rec = NoRec
  BY <1>4 DEF ReplicaInv, ValuesOK, RecOK
<1>. QED
  BY <1>1, <1>2, <1>3, <1>4, <1>6, <1>7, NotDownCounts, NotDownOutcomes

LEMMA CreatingKeeps ==
    ASSUME ReplicaInv, ToCreating PROVE ReplicaInv'
<1>. DEFINE w == WithHooks("create", inv.want, FALSE)
<1>1. /\ inv.op = "up" /\ ~IsDown /\ Move("create", w, inv.listed, inv.stopped, inv.kept, inv.held, inv.bad)
  BY DEF ToCreating, Plain, IsDown
<1>2. HookSteps(w, "create", inv.want, FALSE)
  <2>1. inv.want \in HookLists /\ "create" \in Pairs
    BY DEF ReplicaInv, ReplicaType, Invocations, Pairs
  <2>. QED
    BY <2>1, HookStepsOf
<1>. HIDE DEF w
<1>3. inv.held => inv.bad
  BY DEF ReplicaInv, OutcomesOK, ErrOK
<1>4. /\ ReplicaType' /\ ErrOK' /\ CountsOK' /\ ~IsDown' /\ inv'.was \notin DownOps
      /\ inv.rec = NoRec /\ inv.was = "idle" /\ (UpTrue' => OutcomesOK')
  BY <1>1, <1>3, NotDownMove
<1>5. inv'.phase = "create" /\ inv'.todo = w /\ inv'.pend = "no" /\ inv'.op = "up" /\ inv'.was = inv.was
  BY <1>1 DEF Move, Stays
<1>6. ShapeOK'
  <2>1. StepsOK' /\ StepsApart' /\ PendOK'
    BY <1>2, <1>5, ShapeHooks DEF Pairs, Forced
  <2>2. PhaseOK'
    BY <1>4, <1>5 DEF PhaseOK
  <2>. QED
    BY <2>1, <2>2 DEF ShapeOK
<1>7. ValuesOK'
  BY <1>1, <1>2, MoveValues DEF HookSteps
<1>8. UpTrue'
  BY <1>2, <1>4, <1>5 DEF UpTrue, HookSteps
<1>. QED
  BY <1>4, <1>6, <1>7, <1>8 DEF ReplicaInv

LEMMA RelistingKeeps ==
    ASSUME ReplicaInv, ToRelisting PROVE ReplicaInv'
<1>. DEFINE w == <<>>
<1>1. PICK h : /\ inv.op = "up" /\ ~IsDown /\ Move("relist", w, inv.listed, inv.stopped, inv.kept, h, inv.bad)
               /\ (h => inv.bad) /\ (~inv.bad => stored = inv.want)
  <2>1. inv.held => inv.bad
    BY DEF ReplicaInv, OutcomesOK, ErrOK
  <2>. QED
    BY <2>1 DEF ToRelisting, Plain, IsDown
<1>4. /\ ReplicaType' /\ ErrOK' /\ CountsOK' /\ ~IsDown' /\ inv'.was \notin DownOps
      /\ inv.rec = NoRec /\ inv.was = "idle" /\ (UpTrue' => OutcomesOK')
  BY <1>1, NotDownMove
<1>5. /\ inv'.phase = "relist" /\ inv'.todo = w /\ inv'.pend = "no" /\ inv'.op = "up" /\ inv'.was = inv.was
      /\ inv'.bad = inv.bad /\ inv'.want = inv.want /\ stored' = stored /\ DOMAIN w = {}
  BY <1>1 DEF Move, Stays, Flags, Rest
<1>6. ShapeOK'
  <2>1. StepsOK' /\ StepsApart' /\ PendOK'
    BY <1>5, ShapeEmpty
  <2>2. PhaseOK'
    BY <1>4, <1>5 DEF PhaseOK
  <2>. QED
    BY <2>1, <2>2 DEF ShapeOK
<1>. HIDE DEF w
<1>7. ValuesOK'
  BY <1>1, <1>5, MoveValues
<1>8. UpTrue'
  BY <1>1, <1>4, <1>5 DEF UpTrue
<1>. QED
  BY <1>4, <1>6, <1>7, <1>8 DEF ReplicaInv

LEMMA StartingKeeps ==
    ASSUME ReplicaInv, ToStarting PROVE ReplicaInv'
<1>1. PICK hooks \in HookLists :
        Move("start", WithHooks("start", hooks, FALSE), inv.listed, inv.stopped, inv.kept, inv.held, inv.bad)
  BY DEF ToStarting, Plain
<1>. DEFINE w == WithHooks("start", hooks, FALSE)
<1>2. HookSteps(w, "start", hooks, FALSE)
  BY HookStepsOf DEF Pairs
<1>. HIDE DEF w
<1>11. Move("start", w, inv.listed, inv.stopped, inv.kept, inv.held, inv.bad)
  BY <1>1 DEF w
<1>3. (inv.held => inv.bad) /\ ~IsDown /\ inv.op \notin {"idle", "over"}
  BY DEF ReplicaInv, OutcomesOK, ErrOK, ToStarting, IsDown
<1>4. /\ ReplicaType' /\ ErrOK' /\ CountsOK' /\ ~IsDown' /\ inv'.was \notin DownOps
      /\ inv.rec = NoRec /\ inv.was = "idle" /\ (UpTrue' => OutcomesOK')
  BY <1>11, <1>3, NotDownMove
<1>5. /\ inv'.phase = "start" /\ inv'.todo = w /\ inv'.pend = "no" /\ inv'.op = inv.op /\ inv'.was = inv.was
      /\ inv'.bad = inv.bad /\ inv'.want = inv.want /\ stored' = stored /\ state' = state
  BY <1>11 DEF Move, Stays, Flags, Rest
<1>6. ShapeOK'
  <2>1. StepsOK' /\ StepsApart' /\ PendOK'
    BY <1>2, <1>5, <1>3, ShapeHooks DEF Pairs, Forced, IsDown
  <2>2. PhaseOK'
    BY <1>4, <1>5 DEF PhaseOK, ToStarting
  <2>. QED
    BY <2>1, <2>2 DEF ShapeOK
<1>7. ValuesOK'
  BY <1>11, <1>2, MoveValues DEF HookSteps
<1>8. UpTrue'
  <2>1. inv.op = "up" /\ ~inv.bad => stored = inv.want /\ state # "absent"
    BY DEF ToStarting, ReplicaInv, OutcomesOK, UpTrue
  <2>. QED
    BY <1>2, <1>4, <1>5, <2>1 DEF UpTrue, HookSteps
<1>. QED
  BY <1>4, <1>6, <1>7, <1>8 DEF ReplicaInv

LEMMA RereleasingKeeps ==
    ASSUME ReplicaInv, ToRereleasing PROVE ReplicaInv'
<1>. DEFINE w == ReleaseSteps(StopReleases, holder, FALSE)
<1>1. /\ inv.op \in {"up", "excess"} /\ ~IsDown
      /\ Move("rerelease", w, inv.listed, inv.stopped, inv.kept, inv.held, inv.bad)
  BY DEF ToRereleasing, Plain, IsDown
<1>2. RelSteps(w, StopReleases, holder)
  <2>1. StopReleases \in SUBSET Keys
        /\ \A k \in StopReleases : holder[k] \in HeldRecords /\ holder[k].release # "none"
    BY DEF StopReleases, ReleasedAtStop, ReplicaInv, ReplicaType
  <2>. QED
    BY <2>1, ReleaseStepsFacts
<1>. HIDE DEF w
<1>3. inv.held => inv.bad
  BY DEF ReplicaInv, OutcomesOK, ErrOK
<1>4. /\ ReplicaType' /\ ErrOK' /\ CountsOK' /\ ~IsDown' /\ inv'.was \notin DownOps
      /\ inv.rec = NoRec /\ inv.was = "idle" /\ (UpTrue' => OutcomesOK')
  BY <1>1, <1>3, NotDownMove
<1>5. inv'.phase = "rerelease" /\ inv'.todo = w /\ inv'.pend = "no" /\ inv'.op = inv.op /\ inv'.was = inv.was
  BY <1>1 DEF Move, Stays
<1>6. ShapeOK'
  <2>1. StepsOK' /\ StepsApart' /\ PendOK'
    BY <1>2, <1>5, ShapeRels
  <2>2. PhaseOK'
    BY <1>1, <1>4, <1>5 DEF PhaseOK
  <2>. QED
    BY <2>1, <2>2 DEF ShapeOK
<1>7. ValuesOK'
  <2>1. \A n \in DOMAIN w : w[n].hook.res \in Keys /\ w[n].held \in HeldRecords
                            /\ InHolder(w[n].hook.res, w[n].held.value)
    BY <1>2 DEF RelSteps, InHolder, StopReleases
  <2>2. \A n \in DOMAIN w : w[n].what = "release" =>
           w[n].hook.res \in Keys /\ w[n].held \in HeldRecords /\ Slot(w[n].hook.res, w[n].held.value)
    BY <2>1 DEF Slot
  <2>. QED
    BY <1>1, <2>2, MoveValues
<1>8. UpTrue'
  BY <1>4, <1>5 DEF UpTrue
<1>. QED
  BY <1>4, <1>6, <1>7, <1>8 DEF ReplicaInv

LEMMA AtSame ==
    ASSUME inv'.old = inv.old, NEW k
    PROVE  AtStop(k)' = AtStop(k) /\ AtRemove(k)' = AtRemove(k)
BY DEF AtStop, AtRemove

\* Each resource has its release at the stop, at the remove, or at neither.
LEMMA OneRelease ==
    ASSUME inv.old \in HookLists, NEW k \in Keys, AtStop(k)
    PROVE  ~AtRemove(k)
<1>1. SUFFICES ASSUME AtRemove(k) PROVE FALSE
  OBVIOUS
<1>2. PICK i \in DOMAIN inv.old : inv.old[i].res = k /\
        (inv.old[i].on["stop_pre"] # "unset" \/ inv.old[i].on["stop_post"] # "unset")
  BY DEF AtStop
<1>3. PICK j \in DOMAIN inv.old : inv.old[j].res = k /\
        (inv.old[j].on["remove_pre"] # "unset" \/ inv.old[j].on["remove_post"] # "unset")
  BY <1>1 DEF AtRemove
<1>4. k # Nothing
  BY NothingAssumption
<1>5. i = j /\ inv.old[i] \in Hooks /\ ValidateResourceEvents(inv.old[i])
  BY <1>2, <1>3, <1>4, HookListType
<1>6. /\ {"stop_pre", "stop_post", "remove_pre", "remove_post"} \subseteq Events
      /\ \A ev \in {"stop_pre", "stop_post", "remove_pre", "remove_post"} : ~Acquires(ev)
  BY EventNames DEF RelEvents, Acquires
<1>7. PICK a \in {"stop_pre", "stop_post"} : inv.old[i].on[a] # "unset"
  BY <1>2
<1>8. PICK b \in {"remove_pre", "remove_post"} : inv.old[i].on[b] # "unset"
  BY <1>3, <1>5
<1>9. a # b /\ ~Acquires(a) /\ ~Acquires(b) /\ a \in Events /\ b \in Events
  BY <1>6
<1>. QED
  BY <1>5, <1>7, <1>8, <1>9, OneEventEach

LEMMA StopWaits ==
    ASSUME NEW w, NEW force, HookSteps(w, "stop", inv.old, force), NEW k \in Keys
    PROVE  (\E n \in DOMAIN w : w[n].hook.res = k) <=> AtStop(k)
<1>1. k # Nothing /\ Pre["stop"] = "stop_pre" /\ Post["stop"] = "stop_post"
  BY NothingAssumption, EventNames
<1>. QED
  BY <1>1 DEF HookSteps, AtStop

LEMMA RemoveWaits ==
    ASSUME NEW w, NEW force, HookSteps(w, "remove", inv.old, force), NEW k \in Keys
    PROVE  (\E n \in DOMAIN w : w[n].hook.res = k) <=> AtRemove(k)
<1>1. k # Nothing /\ Pre["remove"] = "remove_pre" /\ Post["remove"] = "remove_post"
  BY NothingAssumption, EventNames
<1>. QED
  BY <1>1 DEF HookSteps, AtRemove

\* What the moves of a down have in common.
DownMoved(p, t, ml, ms, mk, mh, mb) ==
    /\ ReplicaType' /\ IsDown' /\ inv.was = "idle" /\ inv'.was = "idle"
    /\ inv'.op = inv.op /\ inv.op \notin {"idle", "over", "up"} /\ Forced' = Forced
    /\ inv'.phase = p /\ inv'.todo = t /\ inv'.pend = "no" /\ inv.pend = "no" /\ inv.todo = <<>>
    /\ DOMAIN inv.todo = {} /\ inv'.err = "none" /\ inv'.cancelled = inv.cancelled
    /\ inv'.listed = ml /\ inv'.stopped = ms /\ inv'.kept = mk /\ inv'.held = mh /\ inv'.bad = mb
    /\ inv'.removed = inv.removed /\ inv'.rec = inv.rec /\ inv'.runs = inv.runs
    /\ inv'.old = inv.old /\ inv.old \in HookLists
    /\ state' = state /\ stored' = stored /\ holder' = holder
    /\ \A k \in Keys : AtStop(k)' = AtStop(k) /\ AtRemove(k)' = AtRemove(k)
    /\ \A k \in Keys : Settled(k)' = Settled(k) /\ ~Waits(k) /\ ~ToRun(k)
    /\ UpTrue'

LEMMA DownMove ==
    ASSUME ReplicaInv, IsDown, NEW p, NEW t, NEW ml, NEW ms, NEW mk, NEW mh, NEW mb,
           Move(p, t, ml, ms, mk, mh, mb)
    PROVE  DownMoved(p, t, ml, ms, mk, mh, mb)
<1>1. /\ inv'.op = inv.op /\ inv'.phase = p /\ inv'.todo = t /\ inv'.pend = "no" /\ inv.pend = "no"
      /\ inv.todo = <<>> /\ inv'.err = "none" /\ inv'.cancelled = inv.cancelled
      /\ inv'.listed = ml /\ inv'.stopped = ms /\ inv'.kept = mk /\ inv'.held = mh /\ inv'.bad = mb
      /\ inv'.removed = inv.removed /\ inv'.rec = inv.rec /\ inv'.runs = inv.runs
      /\ inv'.old = inv.old /\ inv'.was = inv.was
      /\ state' = state /\ stored' = stored /\ holder' = holder
  BY DEF Move, Stays, Flags, Rest
<1>2. inv.op \notin {"idle", "over", "up"}
  BY DEF IsDown
<1>3. inv.was = "idle"
  BY <1>2 DEF ReplicaInv, ShapeOK, PhaseOK
<1>4. ReplicaType'
  BY MoveType DEF ReplicaInv
<1>5. IsDown' /\ Forced' = Forced
  BY <1>1 DEF IsDown, Forced
<1>6. inv.old \in HookLists
  BY DEF ReplicaInv, ReplicaType, Invocations
<1>7. \A k \in Keys : AtStop(k)' = AtStop(k) /\ AtRemove(k)' = AtRemove(k)
  BY <1>1, AtSame
<1>8. DOMAIN inv.todo = {}
  BY <1>1
<1>9. \A k \in Keys : Settled(k)' = Settled(k) /\ ~Waits(k) /\ ~ToRun(k)
  BY <1>1, <1>8 DEF Settled, Waits, ToRun
<1>10. UpTrue'
  BY <1>1, <1>2, <1>3 DEF UpTrue
<1>. QED
  BY <1>1, <1>2, <1>3, <1>4, <1>5, <1>6, <1>7, <1>8, <1>9, <1>10 DEF DownMoved

LEMMA SnapshotKeeps ==
    ASSUME ReplicaInv, ToSnapshot PROVE ReplicaInv'
<1>. DEFINE w == <<>>
<1>1. /\ IsDown /\ inv.phase = "list" /\ state # "absent"
      /\ Move("snapshot", w, TRUE, inv.stopped, inv.kept, inv.held, inv.bad)
  BY DEF ToSnapshot
<1>. HIDE DEF w
<1>0. DownMoved("snapshot", w, TRUE, inv.stopped, inv.kept, inv.held, inv.bad)
  BY <1>1, DownMove
<1>6. ValuesOK'
  <2>1. DOMAIN w = {}
    BY DEF w
  <2>2. \A n \in DOMAIN w : w[n].what # "release"
    BY <2>1
  <2>. QED
    <3>1. ASSUME NEW l, Move("snapshot", w, l, inv.stopped, inv.kept, inv.held, inv.bad) PROVE ValuesOK'
      BY <2>2, <3>1, MoveValues
    <3>. QED
      BY <1>1, <3>1, Zenon
<1>. USE <1>1, <1>0 DEF DownMoved
<1>2. ReplicaType' 
  OBVIOUS
<1>3. DownOK /\ RunsOK /\ ErrOK
  BY DEF ReplicaInv, CountsOK, OutcomesOK
<1>5. ShapeOK'
  <2>1. StepsOK' /\ StepsApart' /\ PendOK'
    BY ShapeEmpty DEF w
  <2>2. PhaseOK'
    BY DEF PhaseOK, w
  <2>. QED
    BY <2>1, <2>2 DEF ShapeOK
<1>7. CountsOK'
  <2>1. DownOK'
    BY <1>3 DEF DownOK
  <2>2. RunsOK'
    BY <1>3 DEF RunsOK, DownOps
  <2>. QED
    BY <2>1, <2>2 DEF CountsOK, RetriedWhenStopped
<1>8. OutcomesOK'
  <2>1. ErrOK' /\ ~inv.kept
    BY <1>3 DEF ErrOK
  <2>2. KeptStays' /\ ForcePasses'
    BY <2>1 DEF KeptStays, ForcePasses
  <2>3. DownTrue'
    BY <1>3 DEF DownTrue, Past, DownOK
  <2>4. ExecsTrue'
    BY DEF ExecsTrue, Past
  <2>. QED
    BY <2>1, <2>2, <2>3, <2>4 DEF OutcomesOK
<1>. QED
  BY <1>2, <1>5, <1>6, <1>7, <1>8 DEF ReplicaInv

LEMMA DownStopping ==
    ASSUME ReplicaInv, IsDown, ToStopping PROVE ReplicaInv'
<1>. DEFINE w == WithHooks("stop", stored, Forced)
<1>1. /\ inv.phase = "snapshot" /\ state # "absent"
      /\ Move("stop", w, inv.listed, TRUE, inv.kept, inv.held, inv.bad)
  BY DEF ToStopping, NotDown, IsDown, DownOps
<1>3. DownOK /\ RunsOK /\ ErrOK
  BY DEF ReplicaInv, CountsOK, OutcomesOK
<1>2. HookSteps(w, "stop", inv.old, Forced)
  <2>1. stored = inv.old /\ stored \in HookLists /\ "stop" \in Pairs /\ Forced \in BOOLEAN
    BY <1>1, <1>3 DEF ReplicaInv, ReplicaType, DownOK, Pairs, Forced
  <2>. QED
    BY <2>1, HookStepsOf
<1>. HIDE DEF w
<1>0. DownMoved("stop", w, inv.listed, TRUE, inv.kept, inv.held, inv.bad)
  BY <1>1, DownMove
<1>4. \A k \in Keys : Waits(k)' <=> AtStop(k)
  <2>1. inv'.todo = w
    BY <1>0 DEF DownMoved
  <2>. QED
    BY <2>1, <1>2, StopWaits DEF Waits
<1>. USE <1>1, <1>0 DEF DownMoved
<1>5. ShapeOK'
  <2>1. StepsOK' /\ StepsApart' /\ PendOK'
    BY ONLY <1>0, <1>2, ShapeHooks DEF DownMoved, Pairs
  <2>2. PhaseOK'
    BY DEF PhaseOK
  <2>. QED
    BY <2>1, <2>2 DEF ShapeOK
<1>6. ValuesOK'
  <2>1. inv.rec = NoRec
    BY <1>3 DEF DownOK
  <2>2. \A n \in DOMAIN w : w[n].what # "release"
    BY <1>2 DEF HookSteps
  <2>. QED
    BY ONLY <1>1, <2>1, <2>2, ReplicaInv, MoveValues
<1>7. CountsOK'
  <2>1. DownOK'
    BY <1>3, <1>4 DEF DownOK, NoRec
  <2>2. RunsOK'
    BY <1>3 DEF RunsOK, DownOps
  <2>. QED
    BY <2>1, <2>2 DEF CountsOK, RetriedWhenStopped
<1>8. OutcomesOK'
  <2>1. ErrOK' /\ ~inv.kept
    BY <1>3 DEF ErrOK
  <2>2. KeptStays' /\ ForcePasses'
    BY <2>1 DEF KeptStays, ForcePasses
  <2>3. DownTrue'
    BY <1>3, <1>4 DEF DownTrue, Past
  <2>4. ExecsTrue'
    BY DEF ExecsTrue, Past
  <2>. QED
    BY <2>1, <2>2, <2>3, <2>4 DEF OutcomesOK
<1>. QED
  BY <1>5, <1>6, <1>7, <1>8 DEF ReplicaInv

LEMMA DownRemoving ==
    ASSUME ReplicaInv, IsDown, ToRemoving PROVE ReplicaInv'
<1>. DEFINE w == WithHooks("remove", stored, Forced)
<1>1. /\ inv.phase = "retry" /\ ~inv.kept
      /\ Move("remove", w, inv.listed, inv.stopped, inv.kept, inv.held, inv.bad)
  BY DEF ToRemoving, NotDown, IsDown, DownOps, Plain
<1>3. DownOK /\ RunsOK /\ ErrOK /\ DownTrue
  BY DEF ReplicaInv, CountsOK, OutcomesOK
<1>2. HookSteps(w, "remove", inv.old, Forced)
  <2>1. stored = inv.old /\ stored \in HookLists /\ "remove" \in Pairs /\ Forced \in BOOLEAN
    BY <1>1, <1>3 DEF ReplicaInv, ReplicaType, DownOK, Pairs, Forced
  <2>. QED
    BY <2>1, HookStepsOf
<1>. HIDE DEF w
<1>0. DownMoved("remove", w, inv.listed, inv.stopped, inv.kept, inv.held, inv.bad)
  BY <1>1, DownMove
<1>4. \A k \in Keys : (Waits(k)' <=> AtRemove(k)) /\ (AtStop(k) => ~AtRemove(k))
  <2>1. inv'.todo = w /\ inv.old \in HookLists
    BY <1>0 DEF DownMoved
  <2>. QED
    BY <2>1, <1>2, RemoveWaits, OneRelease DEF Waits
<1>. USE <1>1, <1>0 DEF DownMoved
<1>5. ShapeOK'
  <2>1. StepsOK' /\ StepsApart' /\ PendOK'
    BY ONLY <1>0, <1>2, ShapeHooks DEF DownMoved, Pairs
  <2>2. PhaseOK'
    BY DEF PhaseOK
  <2>. QED
    BY <2>1, <2>2 DEF ShapeOK
<1>6. ValuesOK'
  <2>2. \A n \in DOMAIN w : w[n].what # "release"
    BY <1>2 DEF HookSteps
  <2>. QED
    BY ONLY <1>1, <2>2, ReplicaInv, MoveValues
<1>7. CountsOK'
  <2>1. DownOK'
    BY <1>3, <1>4 DEF DownOK
  <2>2. ASSUME NEW k \in Keys
        PROVE  inv'.runs[k] <= (IF inv'.stopped /\ AtStop(k)' THEN 2 ELSE IF ToRun(k)' THEN 0 ELSE 1)
    <3>1. inv.runs[k] <= (IF ~inv.stopped \/ ~AtStop(k) THEN 0 ELSE 2) /\ inv.runs[k] \in Nat
      BY <1>3 DEF RunsOK, ReplicaInv, ReplicaType, Invocations
    <3>. QED
      BY <3>1
  <2>3. RunsOK'
    BY <2>2 DEF RunsOK, DownOps
  <2>. QED
    BY <2>1, <2>3 DEF CountsOK, RetriedWhenStopped
<1>8. OutcomesOK'
  <2>1. ErrOK'
    BY <1>3 DEF ErrOK
  <2>2. KeptStays' /\ ForcePasses'
    BY <2>1 DEF KeptStays, ForcePasses
  <2>3. DownTrue'
    <3>1. \A k \in Keys : ~inv.bad /\ AtStop(k) /\ inv.stopped => Settled(k)
      BY <1>3 DEF DownTrue, IsOrWasDown
    <3>2. \E i \in DOMAIN w : w[i].what = "remove"
      BY ONLY <1>2 DEF HookSteps
    <3>. QED
      BY <3>1, <3>2, <1>4 DEF DownTrue, Past
  <2>4. ExecsTrue'
    BY DEF ExecsTrue, Past
  <2>. QED
    BY <2>1, <2>2, <2>3, <2>4 DEF OutcomesOK
<1>. QED
  BY <1>5, <1>6, <1>7, <1>8 DEF ReplicaInv

LEMMA StoppingKeeps ==
    ASSUME ReplicaInv, ToStopping PROVE ReplicaInv'
<1>. DEFINE w == WithHooks("stop", stored, Forced)
<1>1. SUFFICES ASSUME ~IsDown PROVE ReplicaInv'
  BY DownStopping
<1>2. Move("stop", w, inv.listed, inv.stopped, inv.kept, inv.held, inv.bad) /\ inv.phase = "list"
  BY <1>1 DEF ToStopping, Plain
<1>3. HookSteps(w, "stop", stored, Forced)
  <2>1. stored \in HookLists /\ "stop" \in Pairs /\ Forced \in BOOLEAN
    BY DEF ReplicaInv, ReplicaType, Pairs, Forced
  <2>. QED
    BY <2>1, HookStepsOf
<1>. HIDE DEF w
<1>4. (inv.held => inv.bad) /\ inv.op \notin {"idle", "over"}
  BY <1>2 DEF ReplicaInv, OutcomesOK, ErrOK, ShapeOK, PhaseOK
<1>5. /\ ReplicaType' /\ ErrOK' /\ CountsOK' /\ ~IsDown' /\ inv'.was \notin DownOps
      /\ inv.rec = NoRec /\ inv.was = "idle" /\ (UpTrue' => OutcomesOK')
  BY <1>1, <1>2, <1>4, NotDownMove
<1>6. /\ inv'.phase = "stop" /\ inv'.todo = w /\ inv'.pend = "no" /\ inv'.op = inv.op /\ inv'.was = inv.was
  BY <1>2 DEF Move, Stays
<1>7. ShapeOK'
  <2>1. StepsOK' /\ StepsApart' /\ PendOK'
    BY <1>3, <1>6, ShapeHooks DEF Pairs, Forced
  <2>2. PhaseOK'
    BY <1>4, <1>5, <1>6 DEF PhaseOK
  <2>. QED
    BY <2>1, <2>2 DEF ShapeOK
<1>8. ValuesOK'
  BY <1>2, <1>3, <1>5, MoveValues DEF HookSteps
<1>9. UpTrue'
  BY <1>5, <1>6 DEF UpTrue
<1>. QED
  BY <1>5, <1>7, <1>8, <1>9 DEF ReplicaInv

LEMMA RemovingKeeps ==
    ASSUME ReplicaInv, ToRemoving PROVE ReplicaInv'
<1>. DEFINE w == WithHooks("remove", stored, Forced)
<1>1. SUFFICES ASSUME ~IsDown PROVE ReplicaInv'
  BY DownRemoving
<1>2. PICK s : /\ Move("remove", w, inv.listed, s, inv.kept, inv.held, inv.bad)
               /\ inv.phase \in {"list", "stop"}
  BY <1>1 DEF ToRemoving
<1>3. HookSteps(w, "remove", stored, Forced)
  <2>1. stored \in HookLists /\ "remove" \in Pairs /\ Forced \in BOOLEAN
    BY DEF ReplicaInv, ReplicaType, Pairs, Forced
  <2>. QED
    BY <2>1, HookStepsOf
<1>. HIDE DEF w
<1>4. (inv.held => inv.bad) /\ inv.op \notin {"idle", "over"}
  BY <1>2 DEF ReplicaInv, OutcomesOK, ErrOK, ShapeOK, PhaseOK
<1>5. /\ ReplicaType' /\ ErrOK' /\ CountsOK' /\ ~IsDown' /\ inv'.was \notin DownOps
      /\ inv.rec = NoRec /\ inv.was = "idle" /\ (UpTrue' => OutcomesOK')
  BY <1>1, <1>2, <1>4, NotDownMove
<1>6. /\ inv'.phase = "remove" /\ inv'.todo = w /\ inv'.pend = "no" /\ inv'.op = inv.op /\ inv'.was = inv.was
  BY <1>2 DEF Move, Stays
<1>7. ShapeOK'
  <2>1. StepsOK' /\ StepsApart' /\ PendOK'
    BY <1>3, <1>6, ShapeHooks DEF Pairs, Forced
  <2>2. PhaseOK'
    BY <1>4, <1>5, <1>6 DEF PhaseOK
  <2>. QED
    BY <2>1, <2>2 DEF ShapeOK
<1>8. ValuesOK'
  BY <1>2, <1>3, <1>5, MoveValues DEF HookSteps
<1>9. UpTrue'
  BY <1>5, <1>6 DEF UpTrue
<1>. QED
  BY <1>5, <1>7, <1>8, <1>9 DEF ReplicaInv

LEMMA RetryingKeeps ==
    ASSUME ReplicaInv, ToRetrying PROVE ReplicaInv'
<1>. DEFINE again == {k \in Keys : inv.rec[k] # Nothing /\ ~inv.rec[k].reportOnly}
            h == [k \in again |-> inv.rec[k].holder]
<1>3. DownOK /\ RunsOK /\ ErrOK /\ DownTrue /\ KeptStays /\ ForcePasses /\ IsDown
  BY DEF ReplicaInv, CountsOK, OutcomesOK, ToRetrying
<1>1. PICK w, mk : 
        /\ Move("retry", w, inv.listed, inv.stopped, mk, inv.held, inv.bad)
        /\ w = <<>> \/ (w = RetrySteps /\ inv.phase = "stop")
        /\ \/ inv.phase = "snapshot" /\ mk = inv.kept
           \/ inv.phase = "stop" /\ mk = (inv.err = "hook")
  BY DEF ToRetrying, Plain
<1>2. w = <<>> \/ (/\ RelSteps(w, again, h) /\ inv.phase = "stop" /\ state \in VerifiedStopped
                   /\ \A k \in again : h[k] = inv.rec[k].holder)
  <2>1. \A k \in again : h[k] = inv.rec[k].holder
    OBVIOUS
  <2>2. ASSUME NEW k \in again PROVE h[k] \in HeldRecords /\ h[k].release # "none"
    <3>1. k \in Keys /\ inv.rec[k] \in RecRecords /\ inv.rec[k].holder.value \in Values
      BY DEF ReplicaInv, ReplicaType, Invocations
    <3>2. inv.rec[k].holder \in [value : Values \cup {Nothing}, hook : Names, release : RelEvents, onError : OnErrors]
      BY <3>1 DEF RecRecords
    <3>3. inv.rec[k].holder \in HeldRecords
      BY <3>1, <3>2 DEF HeldRecords
    <3>4. inv.rec[k].holder.release # "none"
      BY <3>2 DEF RelEvents
    <3>. QED
      BY <3>3, <3>4
  <2>3. RetrySteps = <<>> \/ (RetrySteps = ReleaseSteps(again, h, Forced) /\ state \in VerifiedStopped)
    BY DEF RetrySteps
  <2>5. \A k \in again : h[k] \in HeldRecords /\ h[k].release # "none"
    BY <2>2
  <2>6. again \in SUBSET Keys /\ Forced \in BOOLEAN
    BY DEF Forced
  <2>. HIDE DEF again, h
  <2>4. RelSteps(ReleaseSteps(again, h, Forced), again, h)
    BY <2>5, <2>6, ReleaseStepsFacts
  <2>. QED
    BY <2>1, <2>3, <2>4, <1>1, Zenon
<1>. HIDE DEF h
<1>4. \A n \in DOMAIN w : w[n].what = "release" => 
         w[n].hook.res \in Keys /\ w[n].held \in HeldRecords /\ Slot(w[n].hook.res, w[n].held.value)
  <2>1. w = <<>> => DOMAIN w = {}
    OBVIOUS
  <2>2. w # <<>> => \A n \in DOMAIN w : w[n].hook.res \in Keys /\ w[n].held \in HeldRecords
                            /\ InRec(w[n].hook.res, w[n].held.value)
    BY <1>2 DEF RelSteps, InRec
  <2>. QED
    BY <2>1, <2>2 DEF Slot
<1>5. ValuesOK'
  BY <1>1, <1>4, MoveValues
<1>0. DownMoved("retry", w, inv.listed, inv.stopped, mk, inv.held, inv.bad)
  BY <1>1, <1>3, DownMove
<1>6. ShapeOK'
  <2>0. inv'.phase = "retry" /\ inv'.todo = w /\ inv'.pend = "no"
    BY <1>0 DEF DownMoved
  <2>1. StepsOK' /\ StepsApart' /\ PendOK'
    BY <2>0, <1>2, ShapeRels, ShapeEmpty
  <2>2. PhaseOK'
    BY <1>0 DEF PhaseOK, DownMoved
  <2>. QED
    BY <2>1, <2>2 DEF ShapeOK
<1>7. \A k \in Keys : Waits(k)' => inv.phase = "stop" /\ inv.rec[k] # Nothing
  <2>0. inv'.todo = w
    BY <1>0 DEF DownMoved
  <2>1. w = <<>> => DOMAIN w = {}
    OBVIOUS
  <2>. QED
    BY <1>2, <2>0, <2>1 DEF RelSteps, Waits
<1>. USE <1>0 DEF DownMoved
<1>8. mk => inv.bad /\ inv.phase = "stop"
  BY <1>1, <1>3 DEF ErrOK
<1>9. CountsOK'
  <2>1. DownOK'
    BY <1>1, <1>3 DEF DownOK
  <2>2. ASSUME NEW k \in Keys
        PROVE  /\ Waits(k)' => inv'.stopped /\ AtStop(k)'
               /\ inv'.runs[k] <= (IF ~inv'.stopped \/ ~AtStop(k)' THEN 0 ELSE IF ToRun(k)' THEN 1 ELSE 2)
    <3>1. Waits(k)' => inv.stopped /\ AtStop(k)
      BY <1>3, <1>7 DEF DownOK
    <3>2. inv.phase = "snapshot" => inv.runs[k] = 0
      BY <1>3 DEF RunsOK
    <3>3. inv.phase = "stop" => inv.runs[k] <= (IF ~AtStop(k) THEN 0 ELSE 1) /\ inv.stopped
      BY <1>3 DEF RunsOK, DownOK
    <3>4. inv.runs[k] \in Nat
      BY DEF ReplicaInv, ReplicaType, Invocations
    <3>. QED
      BY <3>1, <3>2, <3>3, <3>4, <1>1
  <2>3. RunsOK'
    BY <2>2 DEF RunsOK, DownOps
  <2>4. RetriedWhenStopped'
    BY <1>2 DEF RetriedWhenStopped
  <2>. QED
    BY <2>1, <2>3, <2>4 DEF CountsOK
<1>10. OutcomesOK'
  <2>1. ErrOK'
    BY <1>3, <1>8 DEF ErrOK, IsOrWasDown
  <2>2. KeptStays'
    BY <1>3, <1>8 DEF KeptStays, DownOK
  <2>3. ForcePasses'
    BY <1>1, <1>3 DEF ForcePasses
  <2>4. DownTrue'
    <3>1. \A k \in Keys : ~inv.bad /\ AtStop(k) /\ inv.stopped => Settled(k)
      BY <1>3 DEF DownTrue, IsOrWasDown
    <3>. QED
      BY <3>1 DEF DownTrue, Past
  <2>5. ExecsTrue'
    BY DEF ExecsTrue, Past
  <2>. QED
    BY <2>1, <2>2, <2>3, <2>4, <2>5 DEF OutcomesOK
<1>. QED
  BY <1>5, <1>6, <1>9, <1>10 DEF ReplicaInv

LEMMA StrandKeeps ==
    ASSUME ReplicaInv, ToStrand PROVE ReplicaInv'
<1>. DEFINE w == <<>>
<1>1. /\ IsDown /\ inv.phase \in {"list", "retry", "remove"}
      /\ inv.phase = "list" => state = "absent"
      /\ inv.phase = "retry" => inv.kept
      /\ Move("strand", w, inv.listed, inv.stopped, inv.kept, inv.held, inv.bad)
  BY DEF ToStrand, Plain
<1>3. DownOK /\ RunsOK /\ ErrOK /\ DownTrue /\ KeptStays /\ ForcePasses
  BY DEF ReplicaInv, CountsOK, OutcomesOK
<1>4. ValuesOK'
  <2>1. DOMAIN w = {}
    OBVIOUS
  <2>. QED
    BY <1>1, <2>1, MoveValues
<1>0. DownMoved("strand", w, inv.listed, inv.stopped, inv.kept, inv.held, inv.bad)
  BY <1>1, DownMove
<1>5. ShapeOK'
  <2>1. StepsOK' /\ StepsApart' /\ PendOK'
    BY <1>0, ShapeEmpty DEF DownMoved
  <2>2. PhaseOK'
    BY <1>0 DEF PhaseOK, DownMoved
  <2>. QED
    BY <2>1, <2>2 DEF ShapeOK
<1>. HIDE DEF w
<1>6. inv.phase = "remove" /\ inv.removed => left' \in {"none", "kept"}
  <2>1. ReplicaType /\ LeftOK
    BY <1>1 DEF Move, ReplicaInv
  <2>. QED
    BY <2>1, LeftAfter
<1>. USE <1>0, <1>1 DEF DownMoved
<1>7. CountsOK'
  <2>1. DownOK'
    BY <1>3 DEF DownOK
  <2>2. ASSUME NEW k \in Keys PROVE inv'.runs[k] <= (IF inv'.stopped THEN 2 ELSE 1)
    <3>1. inv.runs[k] \in Nat
      BY DEF ReplicaInv, ReplicaType, Invocations
    <3>. QED
      BY <1>3, <3>1 DEF RunsOK
  <2>3. RunsOK'
    BY <2>2 DEF RunsOK, DownOps
  <2>. QED
    BY <2>1, <2>3 DEF CountsOK, RetriedWhenStopped
<1>8. OutcomesOK'
  <2>1. ErrOK'
    BY <1>3 DEF ErrOK, IsOrWasDown
  <2>2. KeptStays' /\ ForcePasses'
    BY <1>3 DEF KeptStays, ForcePasses, Forced
  <2>4. DownTrue'
    <3>1. CASE inv.phase = "list"
      BY <3>1, <1>3 DEF DownTrue, Past, DownOK
    <3>2. CASE inv.phase = "retry"
      BY <3>2, <1>3 DEF DownTrue, ErrOK
    <3>3. CASE inv.phase = "remove"
      BY <3>3, <1>3 DEF DownTrue, IsOrWasDown
    <3>. QED
      BY <3>1, <3>2, <3>3
  <2>5. ExecsTrue'
    BY <1>3, <1>6 DEF ExecsTrue, DownOK
  <2>. QED
    BY <2>1, <2>2, <2>4, <2>5 DEF OutcomesOK
<1>. QED
  BY <1>4, <1>5, <1>7, <1>8 DEF ReplicaInv

LEMMA StrandingKeeps ==
    ASSUME ReplicaInv, ToStranding PROVE ReplicaInv'
<1>. DEFINE w == ReleaseSteps(Stranded, holder, Forced)
<1>1. /\ IsDown /\ inv.phase = "strand"
      /\ Move("stranded", w, inv.listed, inv.stopped, inv.kept, inv.held, inv.bad)
  BY DEF ToStranding, Plain
<1>2. RelSteps(w, Stranded, holder)
  <2>1. Stranded \in SUBSET Keys /\ Forced \in BOOLEAN
        /\ \A k \in Stranded : holder[k] \in HeldRecords /\ holder[k].release # "none"
    BY DEF Stranded, ReplicaInv, ReplicaType, Forced
  <2>. QED
    BY <2>1, ReleaseStepsFacts
<1>. HIDE DEF w
<1>3. DownOK /\ RunsOK /\ ErrOK /\ DownTrue /\ KeptStays /\ ForcePasses /\ ExecsTrue
  BY DEF ReplicaInv, CountsOK, OutcomesOK
<1>4. ValuesOK'
  <2>1. \A n \in DOMAIN w : w[n].hook.res \in Keys /\ w[n].held \in HeldRecords
                            /\ InHolder(w[n].hook.res, w[n].held.value)
    BY <1>2 DEF RelSteps, InHolder, Stranded
  <2>2. \A n \in DOMAIN w : w[n].what = "release" =>
           w[n].hook.res \in Keys /\ w[n].held \in HeldRecords /\ Slot(w[n].hook.res, w[n].held.value)
    BY <2>1 DEF Slot
  <2>. QED
    BY <1>1, <2>2, MoveValues
<1>0. DownMoved("stranded", w, inv.listed, inv.stopped, inv.kept, inv.held, inv.bad)
  BY <1>1, DownMove
<1>5. ShapeOK'
  <2>0. inv'.phase = "stranded" /\ inv'.todo = w /\ inv'.pend = "no"
    BY <1>0 DEF DownMoved
  <2>1. StepsOK' /\ StepsApart' /\ PendOK'
    BY <2>0, <1>2, ShapeRels
  <2>2. PhaseOK'
    BY <1>0 DEF PhaseOK, DownMoved
  <2>. QED
    BY <2>1, <2>2 DEF ShapeOK
<1>6. \A k \in Keys : Waits(k)' <=> k \in Stranded
  <2>0. inv'.todo = w
    BY <1>0 DEF DownMoved
  <2>. QED
    BY <1>2, <2>0 DEF RelSteps, Waits
<1>9. left' = left
  BY <1>1 DEF Move, LeftOK
<1>. USE <1>0, <1>1 DEF DownMoved
<1>7. CountsOK'
  <2>1. DownOK'
    BY <1>3 DEF DownOK
  <2>2. ASSUME NEW k \in Keys PROVE inv'.runs[k] <= (IF ToRun(k)' THEN 1 ELSE 2)
    <3>1. inv.runs[k] \in Nat
      BY DEF ReplicaInv, ReplicaType, Invocations
    <3>2. inv.runs[k] <= (IF inv.stopped THEN 2 ELSE 1)
      BY <1>3 DEF RunsOK
    <3>3. ToRun(k)' => ~inv.stopped
      <4>1. ToRun(k)' => Waits(k)'
        BY DEF ToRun, Waits
      <4>. QED
        BY <4>1, <1>3, <1>6 DEF Stranded, DownOK
    <3>. QED
      BY <3>1, <3>2, <3>3
  <2>3. RunsOK'
    BY <2>2 DEF RunsOK, DownOps
  <2>. QED
    BY <2>1, <2>3 DEF CountsOK, RetriedWhenStopped
<1>8. OutcomesOK'
  <2>1. ErrOK'
    BY <1>3 DEF ErrOK, IsOrWasDown
  <2>2. KeptStays' /\ ForcePasses'
    BY <1>3 DEF KeptStays, ForcePasses, Forced
  <2>4. DownTrue'
    <3>1. ASSUME ~inv.bad, NEW k \in Keys, holder[k] # Nothing, holder[k].release # "none",
                 ~inv.listed \/ (~inv.stopped /\ ReleasedAtStop(holder[k]))
          PROVE  Waits(k)'
      <4>1. inv.listed => inv.removed
        BY <1>3, <3>1 DEF DownTrue, IsOrWasDown, Past
      <4>. QED
        BY <4>1, <3>1, <1>6 DEF Stranded
    <3>2. ~inv.bad =>
        /\ \A k \in Keys : AtStop(k) /\ inv.stopped => Settled(k)
        /\ \A k \in Keys : AtRemove(k) /\ inv.listed => Settled(k)
        /\ inv.listed => inv.removed
      BY <1>3 DEF DownTrue, IsOrWasDown, Past
    <3>. QED
      BY <3>1, <3>2 DEF DownTrue, Past
  <2>5. ExecsTrue'
    BY <1>3, <1>9 DEF ExecsTrue, Past, IsOrWasDown
  <2>. QED
    BY <2>1, <2>2, <2>4, <2>5 DEF OutcomesOK
<1>. QED
  BY <1>4, <1>5, <1>7, <1>8 DEF ReplicaInv

LEMMA EndKeeps ==
    ASSUME ReplicaInv, ToEnd PROVE ReplicaInv'
<1>1. PICK b \in BOOLEAN :
        /\ Finish(b) /\ (b \/ ~inv.bad)
        /\ inv.op = "up" /\ ~b =>
              (inv.phase = "relist" /\ state \in Live) \/ inv.phase = "start"
        /\ IsDown => \/ inv.phase = "strand" /\ (b \/ inv.op = "downcmd")
                     \/ inv.phase = "stranded"
  BY DEF ToEnd
<1>2. /\ inv' \in Invocations
      /\ inv'.op = "over" /\ inv'.was = inv.op /\ inv'.phase = "done" /\ inv'.err = "none"
      /\ inv'.todo = <<>> /\ inv'.pend = "no" /\ inv'.bad = b
      /\ inv'.want = inv.want /\ inv'.old = inv.old
      /\ inv'.listed = inv.listed /\ inv'.stopped = inv.stopped /\ inv'.removed = inv.removed
      /\ inv'.kept = inv.kept /\ inv'.held = inv.held /\ inv'.rec = inv.rec /\ inv'.runs = inv.runs
      /\ inv.todo = <<>> /\ inv.op \notin {"idle", "over"}
      /\ state' = state /\ stored' = stored /\ holder' = holder /\ file' = file
      /\ LeftOK /\ fate' = Forget(fate) /\ twice' = twice
  BY <1>1 DEF Finish, Rest
<1>3. DOMAIN inv.todo = {} /\ DOMAIN inv'.todo = {}
  BY <1>2
<1>4. /\ ReplicaType /\ ShapeOK /\ NothingLost /\ NoSecondRelease /\ SlotsOK /\ ReleasedOK /\ RecOK
      /\ DownOK /\ RunsOK /\ KeptStays /\ ErrOK /\ DownTrue /\ ExecsTrue /\ UpTrue
  BY DEF ReplicaInv, ValuesOK, CountsOK, OutcomesOK
<1>5. inv.was = "idle" /\ inv.pend = "no"
  BY <1>2, <1>4 DEF ShapeOK, PhaseOK, PendOK
<1>6. /\ ~IsDown' /\ (IsDown <=> inv'.was \in DownOps) /\ (IsOrWasDown' <=> IsOrWasDown) /\ (IsOrWasDown <=> IsDown)
      /\ Past'
  BY <1>2, <1>5 DEF IsDown, DownOps, IsOrWasDown, Past
<1>7. \A v \in Values : fate'[v] = (IF v \in Held \/ fate[v] = "owned" THEN fate[v] ELSE "unused")
  BY <1>2 DEF Forget
<1>8. Held' = Held
  BY <1>2 DEF Held
<1>9. ReplicaType'
  <2>1. left' \in Lefts
    BY <1>2, <1>4, LeftAfter
  <2>2. fate' \in [Values -> Fates]
    BY <1>2, <1>4 DEF Forget, ReplicaType, Fates
  <2>. QED
    BY <2>1, <2>2, <1>2, <1>4 DEF ReplicaType
<1>10. ShapeOK'
  BY <1>2, ShapeEmpty, <1>6 DEF ShapeOK, PhaseOK
<1>11. ValuesOK'
  <2>1. NothingLost' /\ NoSecondRelease'
    BY <1>2, <1>4, <1>5, <1>7, <1>8, ValuesAssumption DEF NothingLost, NoSecondRelease
  <2>2. ASSUME NEW k \in Keys, NEW v \in Values, Slot(k, v)' PROVE InHolder(k, v)
    BY <2>2, <1>2, <1>3 DEF Slot, InHolder, InRec, InTodo
  <2>3. SlotsOK'
    BY <2>2, <1>4 DEF SlotsOK, Slot
  <2>4. \A k \in Keys : holder'[k] # Nothing => fate'[holder'[k].value] # "released"
    <3>1. \A k \in Keys : holder[k] # Nothing => holder[k].value \in Values
      BY <1>4 DEF ReplicaType, HeldRecords
    <3>. QED
      BY <3>1, <1>2, <1>4, <1>5, <1>7 DEF ReleasedOK
  <2>5. ReleasedOK'
    BY <2>4, <1>2, <1>3 DEF ReleasedOK, InRec
  <2>6. RecOK'
    BY <1>2, <1>4, <1>5, <1>6, ValuesAssumption DEF RecOK, DownOps, NoRec
  <2>. QED
    BY <2>1, <2>3, <2>5, <2>6 DEF ValuesOK
<1>12. CountsOK'
  <2>1. ASSUME IsDown, NEW k \in Keys PROVE inv.runs[k] <= 2
    <3>1. inv.runs[k] \in Nat
      BY <1>4 DEF ReplicaType, Invocations
    <3>. QED
      BY <2>1, <3>1, <1>1, <1>4, <1>3 DEF RunsOK, ToRun
  <2>. QED
    BY <2>1, <1>2, <1>6 DEF CountsOK, DownOK, RunsOK, RetriedWhenStopped
<1>13. OutcomesOK'
  <2>1. KeptStays' /\ ForcePasses'
    BY <1>2, <1>4 DEF KeptStays, ForcePasses, Forced
  <2>2. ErrOK'
    BY <1>1, <1>2, <1>4, <1>6 DEF ErrOK
  <2>3. ASSUME IsDown PROVE DownTrue'
    <3>1. \A k \in Keys : /\ AtStop(k)' = AtStop(k) /\ AtRemove(k)' = AtRemove(k)
                          /\ Settled(k)' = Settled(k) /\ ~Waits(k)
      BY <1>2, <1>3, AtSame DEF Settled, Waits
    <3>2. Past
      BY <2>3, <1>1 DEF Past
    <3>3. ~inv.bad => 
        /\ \A k \in Keys : AtStop(k) /\ inv.stopped => Settled(k)
        /\ \A k \in Keys : AtRemove(k) /\ inv.listed => Settled(k)
        /\ inv.listed => inv.removed
      BY <2>3, <3>1, <3>2, <1>4, <1>6 DEF DownTrue
    <3>4. ~inv.bad /\ inv.phase = "stranded" => \A k \in Keys :
              /\ holder[k] # Nothing /\ holder[k].release # "none"
              /\ ~inv.listed \/ (~inv.stopped /\ ReleasedAtStop(holder[k]))
              => inv.rec[k] # Nothing
      BY <2>3, <3>1, <1>4, <1>5, <1>6 DEF DownTrue
    <3>. QED
      BY <2>3, <3>1, <3>3, <3>4, <1>1, <1>2 DEF DownTrue
  <2>4. ~IsDown => DownTrue'
    BY <1>6 DEF DownTrue
  <2>5. ExecsTrue'
    BY <1>1, <1>2, <1>4, <1>6, LeftAfter DEF ExecsTrue, Past, LeftOK
  <2>6. UpTrue'
    BY <1>1, <1>2, <1>3, <1>4 DEF UpTrue, Live
  <2>. QED
    BY <2>1, <2>2, <2>3, <2>4, <2>5, <2>6 DEF OutcomesOK
<1>. QED
  BY <1>9, <1>10, <1>11, <1>12, <1>13 DEF ReplicaInv

LEMMA TransitionKeeps ==
    ASSUME ReplicaInv, Transition PROVE ReplicaInv'
BY CreatingKeeps, RelistingKeeps, StoppingKeeps, RemovingKeeps, StartingKeeps, SnapshotKeeps,
   RetryingKeeps, StrandKeeps, RereleasingKeeps, StrandingKeeps, EndKeeps DEF Transition

-----------------------------------------------------------------------------
(* A step inside a phase                                                   *)

LEMMA PhaseKeeps ==
    ASSUME PhaseOK, Kin(inv', inv), Sub(inv'.todo, inv.todo) \/ inv'.todo = inv.todo, inv.todo # <<>>
    PROVE  PhaseOK' /\ IsDown' = IsDown /\ Forced' = Forced
           /\ inv.phase \notin {"list", "snapshot", "relist", "strand", "done"}
           /\ inv.op \notin {"idle", "over"} /\ inv.was = "idle" /\ inv'.was = "idle"
<1>1. inv.phase \notin {"list", "snapshot", "relist", "strand", "done"}
  BY DEF PhaseOK
<1>2. inv.op \notin {"idle", "over"} /\ inv.was = "idle"
  BY <1>1 DEF PhaseOK
<1>3. IsDown' = IsDown /\ Forced' = Forced
  BY DEF Kin, IsDown, Forced
<1>. QED
  BY <1>1, <1>2, <1>3 DEF PhaseOK, Kin

LEMMA StepsKeep ==
    ASSUME StepsOK, StepsApart, Kin(inv', inv), Sub(inv'.todo, inv.todo), inv'.todo \in Seq(StepRecords)
    PROVE  StepsOK' /\ StepsApart'
<1>1. \A s : StepOK(s)' = StepOK(s)
  BY DEF StepOK, Kin, Forced
<1>2. StepsOK'
  BY <1>1 DEF StepsOK, Sub
<1>3. \A n \in DOMAIN inv'.todo : n \in Int
  OBVIOUS
<1>4. StepsApart'
  <2>1. SUFFICES ASSUME NEW n \in DOMAIN inv'.todo, NEW m \in DOMAIN inv'.todo, n # m,
                        inv'.todo[n].hook.res \in Keys
                 PROVE  inv'.todo[n].hook.res # inv'.todo[m].hook.res
    BY DEF StepsApart
  <2>2. n + 1 \in DOMAIN inv.todo /\ m + 1 \in DOMAIN inv.todo /\ n + 1 # m + 1
    BY <1>3, <2>1 DEF Sub
  <2>. QED
    BY <2>1, <2>2 DEF StepsApart, Sub
<1>. QED
  BY <1>2, <1>4

LEMMA ShapeKeeps ==
    ASSUME ReplicaInv, inv' \in Invocations, Kin(inv', inv), Sub(inv'.todo, inv.todo), inv.todo # <<>>, inv'.pend = "no"
    PROVE  ShapeOK'
<1>1. inv'.todo \in Seq(StepRecords)
  BY DEF Invocations
<1>. QED
  BY <1>1, PhaseKeeps, StepsKeep DEF ReplicaInv, ShapeOK, PendOK

LEMMA ShapeStays ==
    ASSUME ReplicaInv, Kin(inv', inv), inv'.todo = inv.todo, inv.todo # <<>>, PendOK'
    PROVE  ShapeOK'
<1>1. \A s : StepOK(s)' = StepOK(s)
  BY DEF StepOK, Kin, Forced
<1>2. StepsOK'
  BY <1>1 DEF StepsOK, ReplicaInv, ShapeOK
<1>3. StepsApart'
  BY DEF StepsApart, ReplicaInv, ShapeOK
<1>. QED
  BY <1>2, <1>3, PhaseKeeps DEF ReplicaInv, ShapeOK

\* The current step.
LEMMA CurFacts ==
    ASSUME ReplicaInv, inv.todo # <<>>
    PROVE  /\ Cur \in StepRecords /\ Cur = inv.todo[1] /\ 1 \in DOMAIN inv.todo /\ StepOK(Cur)
           /\ DOMAIN inv.todo \subseteq Nat \ {0}
           /\ inv.todo \in Seq(StepRecords)
<1>1. inv.todo \in Seq(StepRecords)
  BY DEF ReplicaInv, ReplicaType, Invocations
<1>2. Cur = inv.todo[1] /\ Cur \in StepRecords /\ 1 \in DOMAIN inv.todo
  BY <1>1, TailFacts DEF Cur
<1>3. DOMAIN inv.todo \subseteq Nat \ {0}
  BY <1>1
<1>. QED
  BY <1>1, <1>2, <1>3 DEF ReplicaInv, ShapeOK, StepsOK

\* What waits for its run or its turn after a step did before it.
LEMMA WaitsShrink ==
    ASSUME ReplicaInv, Sub(inv'.todo, inv.todo), inv.todo # <<>>, inv'.todo \in Seq(StepRecords), NEW k \in Keys
    PROVE  /\ Waits(k)' => Waits(k) /\ k # Cur.hook.res
           /\ ToRun(k)' => ToRun(k) /\ k # Cur.hook.res
<1>1. ASSUME NEW n \in DOMAIN inv'.todo, inv'.todo[n].hook.res = k
      PROVE  /\ n + 1 \in DOMAIN inv.todo /\ inv.todo[n + 1].hook.res = k /\ n + 1 > 1 /\ k # Cur.hook.res
  <2>1. n \in Nat /\ n >= 1
    OBVIOUS
  <2>2. n + 1 \in DOMAIN inv.todo /\ inv.todo[n + 1].hook.res = k
    BY <1>1 DEF Sub
  <2>3. n + 1 # 1 /\ n + 1 > 1
    BY <2>1
  <2>. QED
    BY <2>1, <2>2, <2>3, CurFacts DEF ReplicaInv, ShapeOK, StepsApart
<1>2. Waits(k)' => Waits(k) /\ k # Cur.hook.res
  BY <1>1 DEF Waits
<1>3. ToRun(k)' => ToRun(k) /\ k # Cur.hook.res
  BY <1>1 DEF ToRun
<1>. QED
  BY <1>2, <1>3

\* The counts of the releases of a down add up over a step.
LEMMA RunsKeep ==
    ASSUME ReplicaInv, inv' \in Invocations, Kin(inv', inv), inv.todo # <<>>, PhaseOK',
           \A k \in Keys : (Waits(k)' => Waits(k)) /\ (ToRun(k)' => ToRun(k)),
           \A k \in Keys : \/ inv'.runs[k] = inv.runs[k]
                           \/ inv'.runs[k] = inv.runs[k] + 1 /\ ToRun(k) /\ ~ToRun(k)'
    PROVE  RunsOK'
<1>1. PhaseOK /\ RunsOK /\ DownOK
  BY DEF ReplicaInv, ShapeOK, CountsOK
<1>2. /\ inv'.phase = inv.phase /\ inv'.stopped = inv.stopped /\ inv'.op = inv.op
      /\ \A k \in Keys : AtStop(k)' = AtStop(k) /\ inv'.runs[k] \in Nat /\ inv.runs[k] \in Nat
  <2>1. \A k \in Keys : AtStop(k)' = AtStop(k)
    BY AtSame DEF Kin
  <2>. QED
    BY <2>1 DEF Kin, Invocations, ReplicaInv, ReplicaType
<1>3. inv.phase \notin {"list", "snapshot", "relist", "strand", "done"} /\ inv'.was \notin DownOps
  BY <1>1 DEF PhaseOK, Kin, DownOps
<1>4. \A k \in Keys : ToRun(k) => Waits(k)
  BY DEF ToRun, Waits
<1>5. SUFFICES ASSUME IsDown, NEW k \in Keys
               PROVE  /\ inv'.phase = "stop" => inv'.runs[k] <= (IF ToRun(k)' \/ ~AtStop(k)' THEN 0 ELSE 1)
                      /\ inv'.phase = "retry" =>
                          /\ Waits(k)' => inv'.stopped /\ AtStop(k)'
                          /\ inv'.runs[k] <= (IF ~inv'.stopped \/ ~AtStop(k)' THEN 0 ELSE IF ToRun(k)' THEN 1 ELSE 2)
                      /\ inv'.phase = "remove" =>
                          inv'.runs[k] <= (IF inv'.stopped /\ AtStop(k)' THEN 2 ELSE IF ToRun(k)' THEN 0 ELSE 1)
                      /\ inv'.phase = "stranded" => inv'.runs[k] <= (IF ToRun(k)' THEN 1 ELSE 2)
  <2>1. IsDown' = IsDown
    BY <1>2 DEF IsDown
  <2>. QED
    BY <2>1, <1>2, <1>3 DEF RunsOK
<1>6. CASE inv.phase = "stop"
  <2>1. inv.runs[k] <= (IF ToRun(k) \/ ~AtStop(k) THEN 0 ELSE 1) /\ (Waits(k) => AtStop(k))
    BY <1>1, <1>5, <1>6 DEF RunsOK, DownOK
  <2>. QED
    BY <2>1, <1>2, <1>4, <1>6
<1>7. CASE inv.phase = "retry"
  <2>1. /\ Waits(k) => inv.stopped /\ AtStop(k)
        /\ inv.runs[k] <= (IF ~inv.stopped \/ ~AtStop(k) THEN 0 ELSE IF ToRun(k) THEN 1 ELSE 2)
    BY <1>1, <1>5, <1>7 DEF RunsOK
  <2>. QED
    BY <2>1, <1>2, <1>4, <1>7
<1>8. CASE inv.phase = "remove"
  <2>1. /\ inv.runs[k] <= (IF inv.stopped /\ AtStop(k) THEN 2 ELSE IF ToRun(k) THEN 0 ELSE 1)
        /\ Waits(k) => ~AtStop(k)
    BY <1>1, <1>5, <1>8 DEF RunsOK, DownOK
  <2>. QED
    BY <2>1, <1>2, <1>4, <1>8
<1>9. CASE inv.phase = "stranded"
  <2>1. inv.runs[k] <= (IF ToRun(k) THEN 1 ELSE 2)
    BY <1>1, <1>5, <1>9 DEF RunsOK
  <2>. QED
    BY <2>1, <1>2, <1>4, <1>9
<1>. QED
  BY <1>2, <1>6, <1>7, <1>8, <1>9

LEMMA CountsKeep ==
    ASSUME ReplicaInv, inv' \in Invocations, Kin(inv', inv), inv.todo # <<>>, PhaseOK',
           inv'.removed = inv.removed, stored' = stored,
           state' = state \/ (inv.phase = "stop" /\ state' # "absent"),
           \A k \in Keys : (Waits(k)' => Waits(k)) /\ (ToRun(k)' => ToRun(k)),
           \A k \in Keys : \/ inv'.runs[k] = inv.runs[k]
                           \/ inv'.runs[k] = inv.runs[k] + 1 /\ ToRun(k) /\ ~ToRun(k)',
           \A k \in Keys : inv.phase = "stop" /\ inv'.rec[k] # Nothing => inv.rec[k] # Nothing \/ Waits(k)
    PROVE  CountsOK'
<1>1. RunsOK'
  BY RunsKeep
<1>2. PhaseOK /\ DownOK /\ RetriedWhenStopped
  BY DEF ReplicaInv, ShapeOK, CountsOK
<1>3. inv.phase \notin {"list", "snapshot", "relist", "strand", "done"}
  BY <1>2 DEF PhaseOK
<1>4. \A k \in Keys : AtStop(k)' = AtStop(k)
  BY AtSame DEF Kin
<1>5. DownOK'
  BY <1>2, <1>3, <1>4 DEF DownOK, Kin, IsDown
<1>6. RetriedWhenStopped'
  BY <1>2 DEF RetriedWhenStopped, Kin
<1>. QED
  BY <1>1, <1>5, <1>6 DEF CountsOK

LEMMA OutcomesKeep ==
    ASSUME ReplicaInv, inv' \in Invocations, Kin(inv', inv), inv.todo # <<>>, PhaseOK',
           inv'.removed = inv.removed, stored' = stored,
           state' = state \/ (inv.phase = "stop" /\ state' # "absent"),
           inv.bad => inv'.bad, inv'.err # "none" => inv'.bad, ForcePasses',
           IsDown => \A k \in Keys : 
               /\ holder'[k] = holder[k] \/ holder'[k] = Nothing
               /\ inv.rec[k] # Nothing => inv'.rec[k] # Nothing \/ (inv.phase = "retry" /\ holder'[k] = Nothing)
               /\ ~inv'.bad /\ Waits(k) => Waits(k)' \/ Settled(k)',
           ~inv'.bad => \A p \in {"create", "start", "remove"} : (\E i \in DOMAIN inv.todo : inv.todo[i].what = p) =>
               \E i \in DOMAIN inv'.todo : inv'.todo[i].what = p,
           IsDown /\ inv.phase = "stranded" /\ left \in {"none", "kept"} =>
               left' \in {"none", "kept"} \/ \E k \in Keys : inv'.rec[k] # Nothing
    PROVE  OutcomesOK'
<1>2. PhaseOK /\ KeptStays /\ ErrOK /\ DownTrue /\ ExecsTrue /\ UpTrue
  BY DEF ReplicaInv, ShapeOK, OutcomesOK
<1>3. inv.phase \notin {"list", "snapshot", "relist", "strand", "done"} /\ inv.was = "idle" /\ inv'.was = "idle"
  BY <1>2 DEF PhaseOK, Kin
<1>4. \A k \in Keys : AtStop(k)' = AtStop(k) /\ AtRemove(k)' = AtRemove(k)
  BY AtSame DEF Kin
<1>5. /\ IsDown' = IsDown /\ (IsOrWasDown <=> IsDown) /\ (IsOrWasDown' <=> IsDown)
      /\ Past' = Past /\ (Past <=> inv.phase = "stranded")
  BY <1>3 DEF IsDown, IsOrWasDown, DownOps, Past, Kin
<1>6. KeptStays'
  BY <1>2 DEF KeptStays, Kin
<1>7. ErrOK'
  BY <1>2, <1>3, <1>5 DEF ErrOK, Kin
<1>8. ASSUME IsDown, ~inv'.bad PROVE DownTrue'
  <2>1. \A k \in Keys : Settled(k) => Settled(k)'
    BY <1>8 DEF Settled
  <2>2. \A k \in Keys : AtStop(k) /\ inv.stopped => Settled(k)' \/ (inv.phase = "stop" /\ Waits(k)')
    BY <1>2, <1>5, <1>8, <2>1 DEF DownTrue
  <2>3. \A k \in Keys : AtRemove(k) /\ (inv.phase = "remove" \/ (Past /\ inv.listed)) =>
              Settled(k)' \/ (inv.phase = "remove" /\ Waits(k)')
    BY <1>2, <1>5, <1>8, <2>1 DEF DownTrue
  <2>4. Past /\ inv.listed => inv.removed
    BY <1>2, <1>5, <1>8 DEF DownTrue
  <2>5. inv.phase = "remove" => inv.removed \/ \E i \in DOMAIN inv'.todo : inv'.todo[i].what = "remove"
    BY <1>2, <1>5, <1>8 DEF DownTrue, Pairs
  <2>6. ASSUME inv.phase = "stranded", NEW k \in Keys, holder'[k] # Nothing, holder'[k].release # "none",
               ~inv.listed \/ (~inv.stopped /\ ReleasedAtStop(holder'[k]))
        PROVE  inv'.rec[k] # Nothing \/ Waits(k)'
    <3>1. holder'[k] = holder[k]
      BY <1>8, <2>6
    <3>2. inv.rec[k] # Nothing \/ Waits(k)
      BY <1>2, <1>3, <1>5, <1>8, <2>6, <3>1 DEF DownTrue
    <3>. QED
      BY <3>1, <3>2, <1>8, <2>6 DEF Settled
  <2>. QED
    BY <2>2, <2>3, <2>4, <2>5, <2>6, <1>3, <1>4, <1>5 DEF DownTrue, Kin
<1>9. DownTrue'
  BY <1>5, <1>8 DEF DownTrue
<1>10. ExecsTrue'
  BY <1>2, <1>5 DEF ExecsTrue
<1>11. UpTrue'
  BY <1>2, <1>3 DEF UpTrue, Kin, Pairs
<1>. QED
  BY <1>6, <1>7, <1>9, <1>10, <1>11 DEF OutcomesOK

LEMMA NothingFacts ==
    /\ Nothing \notin HeldRecords /\ Nothing \notin RecRecords /\ Nothing \notin Keys /\ Nothing \notin Values
<1>1. HeldRecords \subseteq HolderRecords
  BY EventNames DEF HeldRecords, HolderRecords
<1>2. RecRecords \subseteq Releasings
  <2>1. RelEvents \subseteq Events
    BY EventNames
  <2>. DEFINE R == [value : Values \cup {Nothing}, hook : Names, release : RelEvents, onError : OnErrors]
              E == [value : Values \cup {Nothing}, hook : Names, release : Events, onError : OnErrors]
  <2>2. R \subseteq E
    BY <2>1
  <2>. HIDE DEF R, E
  <2>3. [holder : R, reportOnly : BOOLEAN, retried : BOOLEAN] \subseteq [holder : E, reportOnly : BOOLEAN, retried : BOOLEAN]
    BY <2>2
  <2>. QED
    BY <2>3 DEF RecRecords, Releasings, R, E
<1>. QED
  BY <1>1, <1>2, NothingAssumption

\* The step at hand, when it has a resource.
LEMMA CurKey ==
    ASSUME ReplicaInv, inv.todo # <<>>, Cur.hook.res # Nothing
    PROVE  /\ Cur.hook.res \in Keys /\ Cur.hook \in Hooks /\ Cur.ev \in Events
           /\ Cur.what \in {"hook", "release"} /\ Cur.hook.on[Cur.ev] \in OnErrors
           /\ IsRelease(Cur) <=> Cur.ev \in RelEvents
           /\ Cur.what = "release" => Cur.ev \in RelEvents /\ Cur.held \in HeldRecords
           /\ IsRelease(Cur) <=> inv.phase \notin {"create", "start"}
           /\ inv.phase = "stop" => Cur.what = "hook"
           /\ Waits(Cur.hook.res)
<1>1. Cur \in StepRecords /\ Cur = inv.todo[1] /\ 1 \in DOMAIN inv.todo /\ StepOK(Cur)
  BY CurFacts
<1>2. Cur.hook \in Hooks /\ Cur.ev \in Events /\ Cur.held \in HeldRecords \cup {Nothing}
  BY <1>1 DEF StepRecords
<1>3. Cur.hook.res \in Keys /\ Cur.hook.on[Cur.ev] \in OnErrors \cup {"unset"}
  BY <1>2 DEF Hooks
<1>4. /\ Cur.what \in {"hook", "release"} /\ Cur.hook.on[Cur.ev] # "unset"
      /\ Cur.what = "release" => Cur.ev \in RelEvents /\ Cur.held # Nothing
      /\ inv.phase = "stop" => Cur.what = "hook"
  BY <1>1 DEF StepOK, Pairs
<1>5. IsRelease(Cur) <=> Cur.ev \in RelEvents
  BY <1>2, EventNames DEF IsRelease
<1>6. Cur.ev \in RelEvents <=> inv.phase \notin {"create", "start"}
  BY <1>1, EventNames DEF StepOK, Pairs, RelEvents
<1>7. Waits(Cur.hook.res)
  BY <1>1 DEF Waits
<1>. QED
  BY <1>2, <1>3, <1>4, <1>5, <1>6, <1>7

\* The holder a run works from is the one its resource has.
LEMMA HolderOfFacts ==
    ASSUME ReplicaInv, inv.todo # <<>>
    PROVE  /\ HolderOf(Cur) \in HeldRecords \cup {Nothing}
           /\ HolderOf(Cur) # Nothing =>
                 /\ Cur.hook.res \in Keys /\ HolderOf(Cur).value \in Values
                 /\ Slot(Cur.hook.res, HolderOf(Cur).value)
           /\ inv.phase = "stop" /\ Cur.hook.res # Nothing => HolderOf(Cur) = holder[Cur.hook.res]
           /\ HolderOf(Cur) = Nothing /\ Cur.hook.res # Nothing => Cur.what = "hook" /\ holder[Cur.hook.res] = Nothing
<1>1. CASE Cur.hook.res = Nothing
  BY <1>1 DEF HolderOf
<1>2. CASE Cur.hook.res # Nothing
  <2>1. Cur.hook.res \in Keys /\ Cur.what \in {"hook", "release"} /\ (inv.phase = "stop" => Cur.what = "hook")
        /\ (Cur.what = "release" => Cur.held \in HeldRecords)
    BY <1>2, CurKey
  <2>2. HolderOf(Cur) = (IF Cur.what = "release" THEN Cur.held ELSE holder[Cur.hook.res])
    BY <1>2 DEF HolderOf
  <2>3. holder[Cur.hook.res] \in HeldRecords \cup {Nothing}
    BY <2>1 DEF ReplicaInv, ReplicaType
  <2>4. \A h \in HeldRecords : h.value \in Values
    BY DEF HeldRecords
  <2>5. Cur = inv.todo[1] /\ 1 \in DOMAIN inv.todo
    BY CurFacts
  <2>6. HolderOf(Cur) # Nothing => Slot(Cur.hook.res, HolderOf(Cur).value)
    <3>1. Cur.what = "release" => InTodo(Cur.hook.res, Cur.held.value)
      BY <2>5 DEF InTodo
    <3>2. holder[Cur.hook.res] # Nothing => InHolder(Cur.hook.res, holder[Cur.hook.res].value)
      BY DEF InHolder
    <3>. QED
      BY <2>2, <3>1, <3>2 DEF Slot
  <2>. QED
    BY <2>1, <2>2, <2>3, <2>4, <2>6, NothingFacts
<1>. QED
  BY <1>1, <1>2

LEMMA RecordedFacts ==
    ASSUME ReplicaInv, inv.todo # <<>>, IsRelease(Cur), NEW found \in HeldRecords \cup {Nothing},
           NEW r, r = Recorded(Cur, found)
    PROVE  /\ r \in RecRecords /\ r # Nothing /\ (r.reportOnly <=> found = Nothing)
           /\ found # Nothing => r.holder.value = found.value /\ found.value \in Values
<1>1. Cur.hook \in Hooks /\ Cur.ev \in RelEvents /\ Cur.hook.on[Cur.ev] \in OnErrors
  BY CurKey DEF IsRelease
<1>2. Cur.hook.name \in Names
  BY <1>1 DEF Hooks
<1>. DEFINE R == [value : Values \cup {Nothing}, hook : Names, release : RelEvents, onError : OnErrors]
            rel == IF found # Nothing /\ found.release # "none"
                   THEN found
                   ELSE [value |-> IF found = Nothing THEN Nothing ELSE found.value,
                         release |-> Cur.ev, onError |-> Cur.hook.on[Cur.ev], hook |-> Cur.hook.name]
<1>3. r = [holder |-> rel, reportOnly |-> found = Nothing, retried |-> inv.phase = "retry"]
  BY DEF Recorded
<1>4. rel \in R /\ (found # Nothing => rel.value = found.value /\ found.value \in Values)
  <2>1. CASE found = Nothing
    BY <2>1, <1>1, <1>2
  <2>2. CASE found \in HeldRecords
    BY <2>2, <1>1, <1>2 DEF HeldRecords
  <2>. QED
    BY <2>1, <2>2
<1>. HIDE DEF rel, R
<1>5. r \in [holder : R, reportOnly : BOOLEAN, retried : BOOLEAN] /\ r.holder = rel /\ r.reportOnly = (found = Nothing)
  BY ONLY <1>3, <1>4
<1>6. r \in RecRecords
  BY ONLY <1>5 DEF RecRecords, R
<1>. QED
  BY <1>4, <1>5, <1>6, NothingFacts

\* The step at hand is over, and noted if it was a release and a down runs it.
Noted(found) ==
    /\ inv' \in Invocations /\ Kin(inv', inv) /\ inv'.pend = "no" /\ Sub(inv'.todo, inv.todo)
    /\ IsRelease(Cur) /\ HasRecorder => inv'.rec = [inv.rec EXCEPT ![Cur.hook.res] = Recorded(Cur, found)]
    /\ ~(IsRelease(Cur) /\ HasRecorder) => inv'.rec = inv.rec

\* What a failed run of the step at hand does to the invocation.
Failed(i, found) ==
    /\ Noted(found) /\ inv'.removed = inv.removed /\ inv'.runs = i.runs
    /\ inv'.bad \/ IsTail(inv'.todo, inv.todo)
    /\ (inv.bad => inv'.bad) /\ (inv'.err = inv.err \/ inv'.bad)
    /\ inv'.err = "hook" => \/ inv.err = "hook" \/ inv.cancelled
                            \/ Cur.what # "release" /\ Cur.onError = "fail"

\* i is the invocation, up to the count of its runs.
Counted(i) ==
    /\ i \in Invocations /\ Kin(i, inv) /\ i.todo = inv.todo /\ i.removed = inv.removed /\ i.bad = inv.bad
    /\ i.rec = inv.rec /\ i.err = inv.err

LEMMA FailedFields ==
    ASSUME ReplicaInv, inv.todo # <<>>, NEW i, Counted(i), NEW found \in HeldRecords \cup {Nothing},
           NEW f, AfterFailure(Cur, found, i, f)
    PROVE  Failed(i, found)
<1>. DEFINE k == Cur.hook.res
            r == Recorded(Cur, found)
            noted == IF IsRelease(Cur) /\ HasRecorder THEN [i EXCEPT !.rec[k] = r] ELSE i
            onError == IF i.cancelled THEN "fail" ELSE Cur.onError
<1>1. inv' = IF onError # "fail" THEN Then(noted)
             ELSE IF Cur.what = "release" THEN [Then(noted) EXCEPT !.bad = TRUE]
             ELSE Fails(noted, "hook")
  BY DEF AfterFailure
<1>2. IsRelease(Cur) => k \in Keys /\ r \in RecRecords
  BY CurKey, RecordedFacts DEF IsRelease
<1>3. i \in Invocations
  BY DEF Counted
<1>. HIDE DEF r
<1>4. /\ noted \in Invocations /\ Kin(noted, inv) /\ noted.todo = inv.todo /\ noted.removed = inv.removed
      /\ noted.bad = inv.bad /\ noted.err = inv.err /\ noted.runs = i.runs
      /\ IsRelease(Cur) /\ HasRecorder => noted.rec = [inv.rec EXCEPT ![k] = r]
      /\ ~(IsRelease(Cur) /\ HasRecorder) => noted.rec = inv.rec
  <2>1. CASE ~(IsRelease(Cur) /\ HasRecorder)
    BY <2>1 DEF Counted
  <2>2. CASE IsRelease(Cur) /\ HasRecorder
    <3>. DEFINE rr == [i.rec EXCEPT ![k] = r]
    <3>1. noted = [i EXCEPT !.rec = rr]
      BY <2>2
    <3>2. rr \in [Keys -> RecRecords \cup {Nothing}]
      BY <1>2, <1>3, <2>2 DEF Invocations
    <3>3. rr = [inv.rec EXCEPT ![k] = r]
      BY DEF Counted
    <3>. HIDE DEF rr, noted, k
    <3>4. noted \in Invocations
      BY <3>1, <3>2, <1>3 DEF Invocations
    <3>5. Kin(noted, inv)
      BY <3>1, <1>3 DEF Kin, Counted, Invocations
    <3>6. /\ noted.todo = inv.todo /\ noted.removed = inv.removed
          /\ noted.bad = inv.bad /\ noted.err = inv.err /\ noted.runs = i.runs /\ noted.rec = rr
      BY <3>1, <1>3 DEF Counted, Invocations
    <3>. QED
      BY <3>3, <3>4, <3>5, <3>6, <2>2
  <2>. QED
    BY <2>1, <2>2
<1>. HIDE DEF noted, onError, k
<1>5. onError = "fail" => inv.cancelled \/ Cur.onError = "fail"
  BY DEF onError, Counted, Kin
<1>6. CASE inv' = Then(noted) \/ inv' = [Then(noted) EXCEPT !.bad = TRUE]
  <2>. DEFINE t == Then(noted)
  <2>1. /\ t \in Invocations /\ Kin(t, noted) /\ Kin2(t, noted)
        /\ t.pend = "no" /\ IsTail(t.todo, noted.todo)
    BY <1>4, ThenFields
  <2>. HIDE DEF t
  <2>2. /\ inv' \in Invocations /\ Kin(inv', noted) /\ inv'.removed = noted.removed /\ inv'.rec = noted.rec
        /\ inv'.runs = noted.runs /\ inv'.err = noted.err /\ inv'.pend = "no" /\ IsTail(inv'.todo, noted.todo)
        /\ (noted.bad => inv'.bad)
    <3>1. CASE inv' = t
      BY <3>1, <2>1 DEF Kin2
    <3>2. CASE inv' = [t EXCEPT !.bad = TRUE]
      <4>1. inv' \in Invocations
        BY <3>2, <2>1 DEF Invocations
      <4>2. Kin(inv', noted)
        BY <3>2, <2>1 DEF Invocations, Kin
      <4>3. /\ inv'.removed = noted.removed /\ inv'.rec = noted.rec
            /\ inv'.runs = noted.runs /\ inv'.err = noted.err /\ inv'.pend = "no" /\ inv'.todo = t.todo
            /\ inv'.bad
        BY <3>2, <2>1 DEF Invocations, Kin2
      <4>. QED
        BY <4>1, <4>2, <4>3, <2>1
    <3>. QED
      BY <1>6, <3>1, <3>2 DEF t
  <2>3. Sub(inv'.todo, inv.todo) /\ IsTail(inv'.todo, inv.todo)
    BY <2>2, <1>4 DEF IsTail
  <2>4. Kin(inv', inv)
    BY <2>2, <1>4 DEF Kin
  <2>. QED
    BY ONLY <2>2, <2>3, <2>4, <1>4 DEF Failed, Noted, r, k
<1>7. CASE inv' = Fails(noted, "hook") /\ onError = "fail" /\ Cur.what # "release"
  <2>1. /\ inv' \in Invocations /\ Kin(inv', noted) /\ inv'.removed = noted.removed /\ inv'.rec = noted.rec
        /\ inv'.runs = noted.runs /\ inv'.pend = "no" /\ inv'.todo = <<>> /\ inv'.err = "hook" /\ inv'.bad
    BY <1>4, <1>7, FailsFields
  <2>2. Sub(inv'.todo, inv.todo)
    <3>1. DOMAIN inv'.todo = {}
      BY <2>1
    <3>. QED
      BY <3>1 DEF Sub
  <2>4. Kin(inv', inv)
    BY <2>1, <1>4 DEF Kin
  <2>. QED
    BY ONLY <2>1, <2>2, <2>4, <1>4, <1>5, <1>7 DEF Failed, Noted, r, k
<1>. QED
  BY <1>1, <1>6, <1>7

\* f is fate after a failure: nothing is owned or released anew, what was
\* pending is no longer owned, and no longer released.
Loses(f) ==
    /\ f \in [Values -> Fates]
    /\ \A v \in Values : f[v] = "owned" => fate[v] = "owned" /\ inv.pend # v
    /\ \A v \in Values : f[v] = "released" =>
          fate[v] = "released" /\ ~(inv.pend = "drop" /\ Slot(Cur.hook.res, v))

\* Holders only go, and what they held is given up.
Drops(f) ==
    /\ fate' \in [Values -> Fates]
    /\ \A k \in Keys : holder'[k] = holder[k] \/ holder'[k] = Nothing
    /\ \A v \in Values : (fate'[v] = "owned" => f[v] = "owned") /\ (fate'[v] = "released" => f[v] = "released")
    /\ \A k \in Keys : holder'[k] # holder[k] => fate'[holder[k].value] # "owned"

LEMMA GiveUpFacts ==
    ASSUME NEW f \in [Values -> Fates], NEW h \in HeldRecords \cup {Nothing}, NEW g, g = GiveUp(f, h)
    PROVE  /\ g \in [Values -> Fates]
           /\ \A v \in Values : (g[v] = "owned" => f[v] = "owned") /\ (g[v] = "released" => f[v] = "released")
           /\ h # Nothing => g[h.value] # "owned"
<1>1. h # Nothing => h.value \in Values
  BY DEF HeldRecords
<1>. QED
  BY <1>1 DEF GiveUp, Fates

LEMMA FailedDrops ==
    ASSUME ReplicaInv, inv.todo # <<>>, NEW i, NEW found, NEW f \in [Values -> Fates], AfterFailure(Cur, found, i, f)
    PROVE  holder' \in [Keys -> HeldRecords \cup {Nothing}] /\ Drops(f)
<1>1. holder \in [Keys -> HeldRecords \cup {Nothing}]
  BY DEF ReplicaInv, ReplicaType
<1>2. CASE holder' = holder /\ fate' = f
  BY <1>1, <1>2 DEF Drops
<1>3. CASE /\ IsRelease(Cur) /\ holder' = [holder EXCEPT ![Cur.hook.res] = Nothing]
           /\ fate' = GiveUp(f, holder[Cur.hook.res])
  <2>1. Cur.hook.res \in Keys
    BY <1>3, CurKey DEF IsRelease
  <2>2. holder[Cur.hook.res] \in HeldRecords \cup {Nothing}
    BY <1>1, <2>1
  <2>3. /\ fate' \in [Values -> Fates]
        /\ \A v \in Values : (fate'[v] = "owned" => f[v] = "owned") /\ (fate'[v] = "released" => f[v] = "released")
        /\ holder[Cur.hook.res] # Nothing => fate'[holder[Cur.hook.res].value] # "owned"
    BY <1>3, <2>2, GiveUpFacts
  <2>4. \A k \in Keys : holder'[k] = (IF k = Cur.hook.res THEN Nothing ELSE holder[k])
    BY <1>1, <1>3, <2>1
  <2>5. holder' \in [Keys -> HeldRecords \cup {Nothing}]
    BY <1>1, <1>3
  <2>. QED
    BY <2>3, <2>4, <2>5 DEF Drops
<1>. QED
  BY <1>2, <1>3 DEF AfterFailure

\* The values over a failure.
LEMMA FailedValues ==
    ASSUME ReplicaInv, inv.todo # <<>>, NEW found \in {HolderOf(Cur), Nothing}, Noted(found),
           NEW f, Loses(f), Drops(f), UNCHANGED twice
    PROVE  ValuesOK'
<1>1. ReplicaType /\ ShapeOK /\ NothingLost /\ NoSecondRelease /\ SlotsOK /\ ReleasedOK /\ RecOK
  BY DEF ReplicaInv, ValuesOK
<1>2. /\ inv' \in Invocations /\ Kin(inv', inv) /\ inv'.pend = "no" /\ Sub(inv'.todo, inv.todo)
      /\ inv'.phase = inv.phase /\ inv'.todo \in Seq(StepRecords)
  BY DEF Noted, Kin, Invocations
<1>3. /\ \A k \in Keys : holder[k] # Nothing => holder[k].value \in Values
      /\ \A k \in Keys : holder'[k] # Nothing => holder'[k] = holder[k]
  BY <1>1 DEF ReplicaType, HeldRecords, Drops
<1>4. ASSUME NEW v \in Values, fate'[v] = "released"
      PROVE  fate[v] = "released" /\ ~(inv.pend = "drop" /\ Slot(Cur.hook.res, v))
  BY <1>4 DEF Drops, Loses
<1>5. ASSUME NEW k \in Keys
      PROVE  \/ inv'.rec[k] = inv.rec[k]
             \/ /\ k = Cur.hook.res /\ IsRelease(Cur) /\ IsDown /\ inv'.rec[k] # Nothing
                /\ inv'.rec[k].reportOnly <=> found = Nothing
                /\ found # Nothing => inv'.rec[k].holder.value = found.value
  <2>1. CASE IsRelease(Cur) /\ HasRecorder /\ k = Cur.hook.res
    <3>1. inv'.rec[k] = Recorded(Cur, found)
      BY <2>1, <1>1 DEF Noted, ReplicaType, Invocations
    <3>2. found \in HeldRecords \cup {Nothing}
      BY HolderOfFacts
    <3>. QED
      BY <2>1, <3>1, <3>2, RecordedFacts DEF HasRecorder, IsDown
  <2>2. CASE ~(IsRelease(Cur) /\ HasRecorder /\ k = Cur.hook.res)
    BY <2>2, <1>1 DEF Noted, ReplicaType, Invocations
  <2>. QED
    BY <2>1, <2>2
<1>6. ASSUME NEW k \in Keys, NEW v \in Values, InRec(k, v)'
      PROVE  InRec(k, v) \/ (k = Cur.hook.res /\ InHolder(k, v))
  <2>1. CASE inv'.rec[k] = inv.rec[k]
    BY <1>2, <1>6, <2>1 DEF InRec
  <2>2. CASE inv'.rec[k] # inv.rec[k]
    <3>1. k = Cur.hook.res /\ found # Nothing /\ found.value = v /\ inv.phase = "stop"
      BY <1>2, <1>5, <1>6, <2>2 DEF InRec
    <3>2. found = holder[k]
      BY <3>1, HolderOfFacts, NothingFacts
    <3>. QED
      BY <3>1, <3>2 DEF InHolder
  <2>. QED
    BY <2>1, <2>2
<1>7. ASSUME NEW k \in Keys, NEW v \in Values, Slot(k, v)' PROVE Slot(k, v)
  <2>1. InHolder(k, v)' => InHolder(k, v)
    BY <1>3 DEF InHolder
  <2>2. InTodo(k, v)' => InTodo(k, v)
    BY <1>2 DEF InTodo, Sub
  <2>. QED
    BY <1>6, <1>7, <2>1, <2>2 DEF Slot
<1>8. NothingLost'
  <2>1. SUFFICES ASSUME NEW v \in Values, fate'[v] = "owned" PROVE v \in Held'
    BY DEF NothingLost
  <2>2. fate[v] = "owned" /\ inv.pend # v
    BY <2>1 DEF Drops, Loses
  <2>3. PICK k \in Keys : holder[k] # Nothing /\ holder[k].value = v
    BY <2>2, <1>1 DEF NothingLost, Held
  <2>4. holder'[k] = holder[k]
    BY <2>1, <2>3 DEF Drops
  <2>. QED
    BY <2>3, <2>4 DEF Held
<1>9. NoSecondRelease' /\ SlotsOK'
  BY <1>1, <1>7 DEF NoSecondRelease, SlotsOK
<1>10. ReleasedOK'
  <2>1. ASSUME NEW k \in Keys, holder'[k] # Nothing PROVE fate'[holder'[k].value] # "released"
    <3>1. holder'[k] = holder[k] /\ InHolder(k, holder[k].value) /\ holder[k].value \in Values
      BY <2>1, <1>3 DEF InHolder
    <3>2. Slot(k, holder[k].value)
      BY <3>1 DEF Slot
    <3>3. fate[holder[k].value] = "released" => inv.pend = "drop" /\ Cur.hook.res = k
      BY <2>1, <3>1, <1>1 DEF ReleasedOK
    <3>. QED
      BY <3>1, <3>2, <3>3, <1>4
  <2>2. ASSUME NEW n \in DOMAIN inv'.todo, inv'.todo[n].what = "release"
        PROVE  fate'[inv'.todo[n].held.value] # "released"
    <3>1. n \in Nat \ {0} /\ n + 1 \in DOMAIN inv.todo /\ inv'.todo[n] = inv.todo[n + 1] /\ inv'.todo[n] \in StepRecords
      BY <1>2 DEF Sub
    <3>2. fate[inv.todo[n + 1].held.value] # "released"
      BY <3>1, <2>2, <1>1 DEF ReleasedOK
    <3>3. inv.todo[n + 1].held.value \in Values
      <4>1. StepOK(inv.todo[n + 1])
        BY <3>1, <1>1 DEF ShapeOK, StepsOK
      <4>2. inv.todo[n + 1].held # Nothing
        BY <4>1, <2>2, <3>1 DEF StepOK, Pairs
      <4>3. inv.todo[n + 1].held \in HeldRecords
        BY <4>2, <3>1 DEF StepRecords
      <4>. QED
        BY <4>3 DEF HeldRecords
    <3>. QED
      BY <3>1, <3>2, <3>3, <1>4
  <2>3. ASSUME NEW k \in Keys, NEW v \in Values, InRec(k, v)' PROVE fate'[v] # "released"
    <3>1. CASE InRec(k, v)
      BY <3>1, <1>1, <1>4 DEF ReleasedOK
    <3>2. CASE k = Cur.hook.res /\ InHolder(k, v)
      <4>1. Slot(k, v)
        BY <3>2 DEF Slot
      <4>2. fate[v] = "released" => inv.pend = "drop"
        BY <3>2, <1>1 DEF ReleasedOK, InHolder
      <4>. QED
        BY <4>1, <4>2, <3>2, <1>4
    <3>. QED
      BY <3>1, <3>2, <2>3, <1>6
  <2>. QED
    BY <2>1, <2>2, <2>3 DEF ReleasedOK
<1>11. RecOK'
  <2>1. ASSUME inv.phase = "stop", NEW n \in DOMAIN inv'.todo, inv'.todo[n].hook.res \in Keys
        PROVE  inv'.rec[inv'.todo[n].hook.res] = Nothing
    <3>0. PICK k \in Keys : k = inv'.todo[n].hook.res
      BY <2>1
    <3>1. Waits(k)'
      BY <3>0 DEF Waits
    <3>2. k # Cur.hook.res
      BY <2>1, <3>1, <1>2, WaitsShrink
    <3>3. inv.rec[k] = Nothing
      BY <2>1, <3>0, <1>1, <1>2 DEF RecOK, Sub
    <3>. QED
      BY <2>1, <3>0, <3>2, <3>3, <1>5
  <2>2. ~IsDown' /\ inv'.was \notin DownOps => inv'.rec = NoRec
    <3>1. ~HasRecorder => inv'.rec = inv.rec
      BY DEF Noted
    <3>. QED
      BY <3>1, <1>1, <1>2 DEF RecOK, HasRecorder, IsDown, Kin
  <2>. QED
    BY <2>1, <2>2, <1>2, ValuesAssumption DEF RecOK
<1>. QED
  BY <1>8, <1>9, <1>10, <1>11 DEF ValuesOK

LEMMA FailureKeeps ==
    ASSUME ReplicaInv, inv.todo # <<>>, Cur.what \in {"hook", "release"}, NEW i, Counted(i),
           \/ i.runs = inv.runs
           \/ /\ inv.pend = "no" /\ IsRelease(Cur)
              /\ i.runs = [inv.runs EXCEPT ![Cur.hook.res] = inv.runs[Cur.hook.res] + 1],
           NEW found \in {HolderOf(Cur), Nothing}, NEW f, Loses(f), AfterFailure(Cur, found, i, f),
           UNCHANGED <<file, state, stored, twice>>, left' \in Lefts
    PROVE  ReplicaInv'
<1>0. found \in HeldRecords \cup {Nothing}
  BY HolderOfFacts
<1>1. Failed(i, found)
  BY <1>0, FailedFields
<1>2. holder' \in [Keys -> HeldRecords \cup {Nothing}] /\ Drops(f)
  BY FailedDrops DEF Loses
<1>3. ReplicaType /\ ShapeOK /\ ErrOK /\ ForcePasses
  BY DEF ReplicaInv, OutcomesOK
<1>4. ValuesOK'
  BY <1>1, <1>2, FailedValues DEF Failed
<1>5. /\ inv' \in Invocations /\ Kin(inv', inv) /\ inv'.pend = "no" /\ inv'.removed = inv.removed
      /\ inv'.runs = i.runs
      /\ Sub(inv'.todo, inv.todo) /\ (inv'.bad \/ IsTail(inv'.todo, inv.todo))
      /\ (inv.bad => inv'.bad) /\ (inv'.err = inv.err \/ inv'.bad)
      /\ inv'.err = "hook" => \/ inv.err = "hook" \/ inv.cancelled
                              \/ Cur.what # "release" /\ Cur.onError = "fail"
      /\ inv'.todo \in Seq(StepRecords)
  BY <1>1 DEF Failed, Noted, Invocations
<1>6. ASSUME NEW k \in Keys
      PROVE  \/ inv'.rec[k] = inv.rec[k] /\ ~(k = Cur.hook.res /\ IsDown /\ IsRelease(Cur))
             \/ /\ inv'.rec[k] # Nothing /\ k = Cur.hook.res /\ IsRelease(Cur)
                /\ ~inv'.rec[k].reportOnly => inv'.rec[k].holder.value \in Values
  <2>1. CASE IsRelease(Cur) /\ HasRecorder /\ k = Cur.hook.res
    <3>1. inv'.rec[k] = Recorded(Cur, found)
      BY <2>1, <1>1, <1>3 DEF Failed, Noted, ReplicaType, Invocations
    <3>. QED
      BY <2>1, <3>1, <1>0, RecordedFacts
  <2>2. CASE ~(IsRelease(Cur) /\ HasRecorder /\ k = Cur.hook.res)
    BY <2>2, <1>1, <1>3 DEF Failed, Noted, ReplicaType, Invocations, HasRecorder, IsDown
  <2>. QED
    BY <2>1, <2>2
<1>7. ReplicaType'
  <2>1. fate' \in [Values -> Fates]
    BY <1>2 DEF Drops
  <2>2. \A k \in Keys : inv'.rec[k] # Nothing /\ ~inv'.rec[k].reportOnly => inv'.rec[k].holder.value \in Values
    BY <1>3, <1>6 DEF ReplicaType
  <2>. QED
    BY <2>1, <2>2, <1>2, <1>3, <1>5 DEF ReplicaType
<1>8. ShapeOK' /\ PhaseOK' /\ IsDown' = IsDown /\ Forced' = Forced
  BY <1>3, <1>5, ShapeKeeps, PhaseKeeps DEF ShapeOK
<1>9. \A k \in Keys : /\ Waits(k)' => Waits(k) /\ k # Cur.hook.res
                      /\ ToRun(k)' => ToRun(k) /\ k # Cur.hook.res
  BY <1>5, WaitsShrink
<1>10. CountsOK'
  <2>1. ASSUME NEW k \in Keys
        PROVE  \/ inv'.runs[k] = inv.runs[k]
               \/ inv'.runs[k] = inv.runs[k] + 1 /\ ToRun(k) /\ ~ToRun(k)'
    <3>1. CASE i.runs = inv.runs \/ k # Cur.hook.res
      BY <3>1, <1>3, <1>5 DEF ReplicaType, Invocations
    <3>2. CASE i.runs # inv.runs /\ k = Cur.hook.res
      <4>1. inv'.runs[k] = inv.runs[k] + 1 /\ inv.pend = "no"
        BY <3>2, <1>3, <1>5 DEF ReplicaType, Invocations
      <4>2. ToRun(k)
        BY <4>1, <3>2, CurFacts DEF ToRun
      <4>. QED
        BY <4>1, <4>2, <3>2, <1>9
    <3>. QED
      BY <3>1, <3>2
  <2>2. \A k \in Keys : inv'.rec[k] # Nothing => inv.rec[k] # Nothing \/ Waits(k)
    <3>1. IsRelease(Cur) => Waits(Cur.hook.res)
      BY CurKey DEF IsRelease
    <3>. QED
      BY <3>1, <1>6
  <2>. QED
    BY <2>1, <2>2, <1>5, <1>8, <1>9, CountsKeep
<1>11. ForcePasses'
  <2>1. Forced /\ Cur.what # "release" => Cur.onError # "fail"
    <3>1. StepOK(Cur)
      BY CurFacts
    <3>. QED
      BY <3>1 DEF StepOK
  <2>. QED
    BY <2>1, <1>3, <1>5, <1>8 DEF ForcePasses, Kin
<1>12. OutcomesOK'
  <2>1. ASSUME IsDown, NEW k \in Keys
        PROVE  /\ holder'[k] = holder[k] \/ holder'[k] = Nothing
               /\ inv.rec[k] # Nothing => inv'.rec[k] # Nothing
               /\ ~inv'.bad /\ Waits(k) => Waits(k)' \/ Settled(k)'
    <3>1. holder'[k] = holder[k] \/ holder'[k] = Nothing
      BY <1>2 DEF Drops
    <3>2. inv.rec[k] # Nothing => inv'.rec[k] # Nothing
      BY <1>6
    <3>3. ASSUME ~inv'.bad, Waits(k), k # Cur.hook.res PROVE Waits(k)'
      <4>1. IsTail(inv'.todo, inv.todo)
        BY <3>3, <1>5
      <4>2. PICK n \in DOMAIN inv.todo : inv.todo[n].hook.res = k
        BY <3>3 DEF Waits
      <4>3. n # 1
        BY <4>2, <3>3, CurFacts
      <4>. QED
        BY <4>1, <4>2, <4>3 DEF IsTail, Waits
    <3>4. k = Cur.hook.res => inv'.rec[k] # Nothing
      <4>1. k = Cur.hook.res => IsRelease(Cur)
        <5>1. inv.phase \notin {"create", "start"}
          BY <1>3, <2>1 DEF ShapeOK, PhaseOK, IsDown
        <5>. QED
          BY <5>1, CurKey, NothingFacts
      <4>. QED
        BY <4>1, <2>1, <1>6
    <3>. QED
      BY <3>1, <3>2, <3>3, <3>4 DEF Settled
  <2>2. ASSUME ~inv'.bad, NEW p \in {"create", "start", "remove"}, \E n \in DOMAIN inv.todo : inv.todo[n].what = p
        PROVE  \E n \in DOMAIN inv'.todo : inv'.todo[n].what = p
    <3>1. IsTail(inv'.todo, inv.todo)
      BY <2>2, <1>5
    <3>2. PICK n \in DOMAIN inv.todo : inv.todo[n].what = p
      BY <2>2
    <3>3. n # 1
      BY <3>2, CurFacts DEF Pairs
    <3>. QED
      BY <3>1, <3>2, <3>3 DEF IsTail
  <2>3. IsDown /\ inv.phase = "stranded" => \E k \in Keys : inv'.rec[k] # Nothing
    <3>1. inv.phase = "stranded" => Cur.hook.res # Nothing
      BY CurFacts, NothingFacts DEF StepOK, Pairs
    <3>2. inv.phase = "stranded" => Cur.hook.res \in Keys /\ IsRelease(Cur)
      BY <3>1, CurKey
    <3>. QED
      BY <3>2, <1>6
  <2>4. inv'.err # "none" => inv'.bad
    BY <1>3, <1>5 DEF ErrOK
  <2>. QED
    BY <2>1, <2>2, <2>3, <2>4, <1>5, <1>8, <1>11, OutcomesKeep
<1>. QED
  BY <1>4, <1>7, <1>8, <1>10, <1>12 DEF ReplicaInv

LEMMA RanFields ==
    ASSUME ReplicaInv, inv.todo # <<>>, NEW i, i = Ran(Cur)
    PROVE  /\ Counted(i) /\ i.pend = inv.pend
           /\ IsRelease(Cur) => i.runs = [inv.runs EXCEPT ![Cur.hook.res] = inv.runs[Cur.hook.res] + 1]
           /\ ~IsRelease(Cur) => i = inv
<1>0. inv \in Invocations
  BY DEF ReplicaInv, ReplicaType
<1>1. CASE ~IsRelease(Cur)
  <2>1. i = inv
    BY <1>1 DEF Ran
  <2>. QED
    BY <2>1, <1>0, <1>1 DEF Counted, Kin
<1>2. CASE IsRelease(Cur)
  <2>1. Cur.hook.res \in Keys
    BY <1>2, CurKey DEF IsRelease
  <2>. DEFINE k == Cur.hook.res
              r == [inv.runs EXCEPT ![k] = inv.runs[k] + 1]
  <2>2. i = [inv EXCEPT !.runs = r]
    BY <1>2, <1>0 DEF Ran, Invocations
  <2>3. r \in [Keys -> Nat]
    BY <2>1, <1>0 DEF Invocations
  <2>. HIDE DEF r
  <2>4. i \in Invocations
    BY <2>2, <2>3, <1>0 DEF Invocations
  <2>5. Kin(i, inv)
    BY <2>2, <1>0 DEF Kin, Invocations
  <2>6. /\ i.todo = inv.todo /\ i.removed = inv.removed /\ i.bad = inv.bad
        /\ i.rec = inv.rec /\ i.err = inv.err /\ i.pend = inv.pend /\ i.runs = r
    BY <2>2, <1>0 DEF Invocations
  <2>. QED
    BY <2>4, <2>5, <2>6, <1>2 DEF Counted, r
<1>. QED
  BY <1>1, <1>2

LEMMA InvCounted == ASSUME ReplicaInv PROVE Counted(inv)
BY DEF Counted, Kin, ReplicaInv, ReplicaType

LEMMA FateStays ==
    ASSUME ReplicaInv, inv.pend = "no"
    PROVE  Loses(fate)
BY ValuesAssumption DEF Loses, ReplicaInv, ReplicaType

LEMMA LookupFailsKeeps ==
    ASSUME ReplicaInv, LookupFails PROVE ReplicaInv'
<1>1. /\ inv.pend = "no" /\ inv.todo # <<>> /\ Cur.what \in {"hook", "release"}
      /\ AfterFailure(Cur, Nothing, inv, fate)
      /\ UNCHANGED <<file, state, stored, left, twice>>
  BY DEF LookupFails, Running
<1>2. left' \in Lefts
  BY <1>1 DEF ReplicaInv, ReplicaType
<1>. QED
  BY <1>1, <1>2, InvCounted, FateStays, FailureKeeps

LEMMA ExecFailsKeeps ==
    ASSUME ReplicaInv, ExecFails PROVE ReplicaInv'
<1>1. /\ inv.pend = "no" /\ inv.todo # <<>> /\ Cur.what \in {"hook", "release"}
      /\ UNCHANGED <<file, state, stored, twice>>
  BY DEF ExecFails, Running
<1>2. left' \in Lefts
  <2>1. left \in Lefts
    BY DEF ReplicaInv, ReplicaType
  <2>2. left' \in {left} \cup Interrupted \cup {"still"}
    BY DEF ExecFails
  <2>. QED
    BY <2>1, <2>2 DEF Interrupted, Lefts
<1>. DEFINE i == Ran(Cur)
            found == HolderOf(Cur)
            g == [fate EXCEPT ![found.value] = "spent"]
<1>3. /\ Counted(i)
      /\ \/ i.runs = inv.runs
         \/ /\ inv.pend = "no" /\ IsRelease(Cur)
            /\ i.runs = [inv.runs EXCEPT ![Cur.hook.res] = inv.runs[Cur.hook.res] + 1]
  BY <1>1, RanFields
<1>4. CASE AfterFailure(Cur, found, i, fate)
  <2>. HIDE DEF i
  <2>. QED
    BY <1>1, <1>2, <1>3, <1>4, FateStays, FailureKeeps
<1>5. CASE /\ found # Nothing /\ AfterFailure(Cur, found, i, g)
  <2>1. Loses(g)
    <3>1. found.value \in Values
      BY <1>1, <1>5, HolderOfFacts
    <3>2. \A v \in Values : g[v] = "spent" \/ g[v] = fate[v]
      BY <3>1 DEF ReplicaInv, ReplicaType
    <3>3. g \in [Values -> Fates]
      BY <3>1 DEF ReplicaInv, ReplicaType, Fates
    <3>. QED
      BY <3>2, <3>3, <1>1, ValuesAssumption DEF Loses
  <2>. HIDE DEF i, g
  <2>. QED
    BY <1>1, <1>2, <1>3, <1>5, <2>1, FailureKeeps
<1>. QED
  BY <1>4, <1>5 DEF ExecFails

\* What is pending when the store gives way is neither owned nor released.
LEMMA BrokenLoses ==
    ASSUME ReplicaInv, inv.pend # "no" PROVE Loses(Broken)
<1>0. inv.todo # <<>> /\ Cur.hook.res \in Keys /\ Cur.what \in {"hook", "release"}
  BY DEF ReplicaInv, ShapeOK, PendOK
<1>1. fate \in [Values -> Fates] /\ inv.pend \in Values \cup {"no", "drop"}
  BY DEF ReplicaInv, ReplicaType, Invocations
<1>2. CASE inv.pend \in Values
  <2>1. inv.pend # "drop" /\ Broken = [fate EXCEPT ![inv.pend] = "excused"]
    BY <1>2, ValuesAssumption DEF Broken
  <2>. QED
    BY <2>1, <1>1, <1>2 DEF Loses, Fates
<1>3. CASE inv.pend = "drop" /\ HolderOf(Cur) = Nothing
  <2>1. Broken = fate /\ inv.pend \notin Values
    BY <1>3, ValuesAssumption DEF Broken
  <2>2. holder[Cur.hook.res] = Nothing /\ Cur.what = "hook" /\ Cur.hook.res # Nothing
    BY <1>0, <1>3, HolderOfFacts, NothingFacts
  <2>3. ASSUME NEW v \in Values, Slot(Cur.hook.res, v) PROVE fate[v] # "released"
    <3>1. ~InHolder(Cur.hook.res, v)
      BY <2>2 DEF InHolder
    <3>2. ~InTodo(Cur.hook.res, v)
      <4>1. inv.phase \in Pairs
        BY <2>2, <1>0, CurFacts DEF StepOK
      <4>. QED
        BY <4>1 DEF InTodo, ReplicaInv, ShapeOK, StepsOK, StepOK, Pairs
    <3>. QED
      BY <2>3, <3>1, <3>2, <1>0 DEF Slot, ReplicaInv, ValuesOK, ReleasedOK
  <2>. QED
    BY <2>1, <2>3, <1>1 DEF Loses
<1>4. CASE inv.pend = "drop" /\ HolderOf(Cur) # Nothing
  <2>. DEFINE u == HolderOf(Cur).value
  <2>1. u \in Values /\ Slot(Cur.hook.res, u)
    BY <1>0, <1>4, HolderOfFacts
  <2>2. Broken = [fate EXCEPT ![u] = "spent"] /\ inv.pend \notin Values
    BY <1>4, <2>1, ValuesAssumption DEF Broken
  <2>. HIDE DEF u
  <2>3. \A v \in Values : Slot(Cur.hook.res, v) => v = u
    BY <1>0, <2>1 DEF ReplicaInv, ValuesOK, SlotsOK
  <2>. QED
    BY <2>1, <2>2, <2>3, <1>1 DEF Loses, Fates
<1>. QED
  BY <1>1, <1>2, <1>3, <1>4

LEMMA RecordFailsKeeps ==
    ASSUME ReplicaInv, RecordFails PROVE ReplicaInv'
<1>1. /\ inv.pend # "no" /\ AfterFailure(Cur, HolderOf(Cur), inv, Broken)
      /\ left' \in {left, "still"} /\ UNCHANGED <<file, state, stored, twice>>
  BY DEF RecordFails, Recording
<1>2. left' \in Lefts
  BY <1>1 DEF Lefts, ReplicaInv, ReplicaType
<1>3. inv.todo # <<>> /\ Cur.what \in {"hook", "release"}
  BY <1>1 DEF ReplicaInv, ShapeOK, PendOK
<1>. QED
  BY <1>1, <1>2, <1>3, InvCounted, BrokenLoses, FailureKeeps

\* A step without a resource is over.
LEMMA PlainStep ==
    ASSUME ReplicaInv, inv.todo # <<>>, inv.pend = "no", Cur.hook.res = Nothing,
           inv' \in Invocations, Kin(inv', inv), inv'.rec = inv.rec, inv'.pend = "no", Sub(inv'.todo, inv.todo),
           holder' = holder, fate' = fate, twice' = twice
    PROVE  /\ ShapeOK' /\ ValuesOK'
           /\ \A k \in Keys : (Waits(k)' => Waits(k)) /\ (ToRun(k)' => ToRun(k))
           /\ IsTail(inv'.todo, inv.todo) => \A k \in Keys : Waits(k) => Waits(k)'
<1>1. ShapeOK'
  BY ShapeKeeps
<1>2. ~IsRelease(Cur)
  BY DEF IsRelease
<1>3. Noted(Nothing)
  BY <1>2 DEF Noted
<1>4. Drops(fate)
  BY DEF Drops, ReplicaInv, ReplicaType
<1>5. ValuesOK'
  BY <1>3, <1>4, FateStays, FailedValues
<1>6. inv'.todo \in Seq(StepRecords)
  BY DEF Invocations
<1>7. \A k \in Keys : (Waits(k)' => Waits(k)) /\ (ToRun(k)' => ToRun(k))
  BY <1>6, WaitsShrink
<1>8. ASSUME IsTail(inv'.todo, inv.todo), NEW k \in Keys, Waits(k) PROVE Waits(k)'
  <2>1. PICK n \in DOMAIN inv.todo : inv.todo[n].hook.res = k
    BY <1>8 DEF Waits
  <2>2. n # 1
    BY <2>1, CurFacts, NothingFacts
  <2>. QED
    BY <1>8, <2>1, <2>2 DEF IsTail, Waits
<1>. QED
  BY <1>1, <1>5, <1>7, <1>8

\* An exec command that worked is gone, or no more than logged.
Clears == left' \in Lefts /\ (left \in {"none", "kept"} => left' \in {"none", "kept"})

LEMMA WorksClears ==
    ASSUME ReplicaInv, ExecWorks PROVE Clears
<1>1. left \in Lefts
  BY DEF ReplicaInv, ReplicaType
<1>2. left' \in {left, "none", "kept"}
  BY DEF ExecWorks, Cleared
<1>. QED
  BY <1>1, <1>2 DEF Clears, Lefts

LEMMA ExecPlain ==
    ASSUME ReplicaInv, ExecWorks, Cur.hook.res = Nothing PROVE ReplicaInv'
<1>1. /\ inv.pend = "no" /\ inv.todo # <<>> /\ Cur.what \in {"hook", "release"}
      /\ Clears /\ inv' = Then(inv) /\ UNCHANGED ghosts
      /\ UNCHANGED <<file, state, stored, holder>>
  BY WorksClears DEF ExecWorks, Running, IsRelease
<1>2. holder' = holder /\ fate' = fate /\ twice' = twice
  BY <1>1 DEF ghosts
<1>3. ReplicaType /\ ErrOK /\ ForcePasses /\ ShapeOK
  BY DEF ReplicaInv, OutcomesOK
<1>4. /\ inv' \in Invocations /\ Kin(inv', inv) /\ Kin2(inv', inv)
      /\ inv'.pend = "no" /\ IsTail(inv'.todo, inv.todo)
  BY <1>1, <1>3, ThenFields DEF ReplicaType
<1>5. inv'.rec = inv.rec /\ inv'.removed = inv.removed /\ inv'.bad = inv.bad /\ inv'.runs = inv.runs /\ inv'.err = inv.err
      /\ Sub(inv'.todo, inv.todo)
  BY <1>4 DEF Kin2, IsTail
<1>6. /\ ShapeOK' /\ ValuesOK'
      /\ \A k \in Keys : (Waits(k)' => Waits(k)) /\ (ToRun(k)' => ToRun(k))
      /\ \A k \in Keys : Waits(k) => Waits(k)'
  BY <1>1, <1>2, <1>4, <1>5, PlainStep
<1>7. PhaseOK' /\ IsDown' = IsDown /\ Forced' = Forced
  BY <1>1, <1>3, <1>4, <1>5, PhaseKeeps DEF ShapeOK
<1>8. CountsOK'
  BY <1>1, <1>4, <1>5, <1>6, <1>7, CountsKeep
<1>9. ReplicaType'
  BY <1>1, <1>2, <1>3, <1>4, <1>5 DEF ReplicaType, Clears
<1>10. OutcomesOK'
  <2>1. ForcePasses'
    BY <1>3, <1>4, <1>5, <1>7 DEF ForcePasses, Kin
  <2>2. ASSUME NEW p \in {"create", "start", "remove"}, \E n \in DOMAIN inv.todo : inv.todo[n].what = p
        PROVE  \E n \in DOMAIN inv'.todo : inv'.todo[n].what = p
    <3>2. PICK n \in DOMAIN inv.todo : inv.todo[n].what = p
      BY <2>2
    <3>3. n # 1
      BY <1>1, <3>2, CurFacts DEF Pairs
    <3>. QED
      BY <1>4, <3>2, <3>3 DEF IsTail
  <2>3. inv'.err # "none" => inv'.bad
    BY <1>3, <1>5 DEF ErrOK
  <2>. QED
    BY <2>1, <2>2, <2>3, <1>1, <1>2, <1>4, <1>5, <1>6, <1>7, OutcomesKeep DEF Clears
<1>. QED
  BY <1>6, <1>8, <1>9, <1>10 DEF ReplicaInv

\* The exec of a hook with a resource worked; its outcome is pending.
Pending(i, d) ==
    /\ inv' \in Invocations /\ Kin(inv', inv) /\ inv'.todo = inv.todo /\ inv'.pend = d
    /\ inv'.removed = inv.removed /\ inv'.bad = inv.bad /\ inv'.rec = inv.rec /\ inv'.err = inv.err
    /\ inv'.runs = i.runs

LEMMA PendingFields ==
    ASSUME NEW i, Counted(i), NEW d \in Values \cup {"no", "drop"}, inv' = [i EXCEPT !.pend = d]
    PROVE  Pending(i, d)
<1>1. i \in Invocations
  BY DEF Counted
<1>2. inv' \in Invocations
  BY <1>1 DEF Invocations
<1>3. Kin(inv', inv)
  BY <1>1 DEF Counted, Kin, Invocations
<1>4. /\ inv'.todo = inv.todo /\ inv'.pend = d
      /\ inv'.removed = inv.removed /\ inv'.bad = inv.bad /\ inv'.rec = inv.rec /\ inv'.err = inv.err
      /\ inv'.runs = i.runs
  BY <1>1 DEF Counted, Invocations
<1>. QED
  BY <1>2, <1>3, <1>4 DEF Pending

\* What both have in common, the values aside.
LEMMA PendingKeeps ==
    ASSUME ReplicaInv, inv.todo # <<>>, inv.pend = "no", Cur.hook.res # Nothing,
           NEW i, NEW d \in Values \cup {"drop"}, Pending(i, d), d = "drop" <=> IsRelease(Cur),
           IsRelease(Cur) => i.runs = [inv.runs EXCEPT ![Cur.hook.res] = inv.runs[Cur.hook.res] + 1],
           ~IsRelease(Cur) => i.runs = inv.runs,
           UNCHANGED <<file, state, stored, holder>>, Clears,
           fate' \in [Values -> Fates], twice' \in BOOLEAN
    PROVE  ReplicaType' /\ ShapeOK' /\ CountsOK' /\ OutcomesOK'
<1>1. ReplicaType /\ ErrOK /\ ForcePasses /\ ShapeOK
  BY DEF ReplicaInv, OutcomesOK
<1>2. /\ Cur.hook.res \in Keys /\ Cur.what \in {"hook", "release"} /\ Cur.ev \in Events
      /\ IsRelease(Cur) <=> Cur.ev \in RelEvents
  BY CurKey
<1>3. /\ inv' \in Invocations /\ Kin(inv', inv) /\ inv'.todo = inv.todo /\ inv'.pend = d
      /\ inv'.removed = inv.removed /\ inv'.bad = inv.bad /\ inv'.rec = inv.rec /\ inv'.err = inv.err
      /\ inv'.runs = i.runs
  BY DEF Pending
<1>4. PendOK'
  BY <1>2, <1>3, EventNames DEF PendOK, Cur
<1>5. ShapeOK'
  BY <1>3, <1>4, ShapeStays
<1>6. PhaseOK' /\ IsDown' = IsDown /\ Forced' = Forced
  BY <1>1, <1>3, PhaseKeeps DEF ShapeOK
<1>7. ReplicaType'
  <2>1. left' \in Lefts
    BY DEF Clears
  <2>. QED
    BY <2>1, <1>1, <1>3 DEF ReplicaType
<1>8. d # "no"
  BY ValuesAssumption
<1>9. \A k \in Keys : (Waits(k)' <=> Waits(k)) /\ (ToRun(k)' => ToRun(k)) /\ (ToRun(k)' => k # Cur.hook.res)
  <2>1. \A k \in Keys : (Waits(k)' <=> Waits(k)) /\ (ToRun(k)' => ToRun(k))
    BY <1>3 DEF Waits, ToRun
  <2>2. ASSUME NEW k \in Keys, ToRun(k)' PROVE k # Cur.hook.res
    <3>1. PICK n \in DOMAIN inv.todo : inv.todo[n].hook.res = k /\ n > 1
      BY <2>2, <1>3, <1>8 DEF ToRun
    <3>. QED
      BY <3>1, CurFacts, <1>1 DEF ShapeOK, StepsApart
  <2>. QED
    BY <2>1, <2>2
<1>10. CountsOK'
  <2>1. ASSUME NEW k \in Keys
        PROVE  \/ inv'.runs[k] = inv.runs[k]
               \/ inv'.runs[k] = inv.runs[k] + 1 /\ ToRun(k) /\ ~ToRun(k)'
    <3>1. CASE i.runs = inv.runs \/ k # Cur.hook.res
      BY <3>1, <1>3, <1>1 DEF ReplicaType, Invocations
    <3>2. CASE i.runs # inv.runs /\ k = Cur.hook.res
      <4>1. inv'.runs[k] = inv.runs[k] + 1
        BY <3>2, <1>1, <1>3 DEF ReplicaType, Invocations
      <4>2. ToRun(k)
        BY <3>2, CurFacts DEF ToRun
      <4>. QED
        BY <4>1, <4>2, <3>2, <1>9
    <3>. QED
      BY <3>1, <3>2
  <2>. QED
    BY <2>1, <1>3, <1>6, <1>9, CountsKeep
<1>11. OutcomesOK'
  <2>1. ForcePasses'
    BY <1>1, <1>3, <1>6 DEF ForcePasses, Kin
  <2>3. inv'.err # "none" => inv'.bad
    BY <1>1, <1>3 DEF ErrOK
  <2>. QED
    BY <2>1, <2>3, <1>3, <1>6, <1>9, OutcomesKeep DEF Clears
<1>. QED
  BY <1>5, <1>7, <1>10, <1>11

\* The places that name a value do not change with what is pending.
LEMMA PendingSlots ==
    ASSUME NEW i, NEW d, Pending(i, d), holder' = holder
    PROVE  /\ \A k \in Keys, v \in Values : (Slot(k, v)' <=> Slot(k, v)) /\ (InRec(k, v)' <=> InRec(k, v))
           /\ Held' = Held /\ Cur' = Cur
<1>1. inv'.todo = inv.todo /\ inv'.rec = inv.rec /\ inv'.phase = inv.phase
  BY DEF Pending, Kin
<1>2. \A k \in Keys, v \in Values : InRec(k, v)' <=> InRec(k, v)
  BY <1>1 DEF InRec
<1>3. \A k \in Keys, v \in Values : Slot(k, v)' <=> Slot(k, v)
  BY <1>1, <1>2 DEF Slot, InHolder, InTodo
<1>. QED
  BY <1>1, <1>2, <1>3 DEF Held, Cur

LEMMA PendingRec ==
    ASSUME ReplicaInv, NEW i, NEW d, Pending(i, d), inv.todo # <<>>
    PROVE  /\ inv'.phase = "stop" => \A n \in DOMAIN inv'.todo :
                 inv'.todo[n].hook.res \in Keys => inv'.rec[inv'.todo[n].hook.res] = Nothing
           /\ ~IsDown' /\ inv'.was \notin DownOps => inv'.rec = NoRec
BY DEF Pending, Kin, IsDown, ReplicaInv, ValuesOK, RecOK, NoRec

LEMMA ExecAcquires ==
    ASSUME ReplicaInv, ExecWorks, Cur.hook.res # Nothing, Acquires(Cur.ev) PROVE ReplicaInv'
<1>1. /\ inv.pend = "no" /\ inv.todo # <<>> /\ ~IsRelease(Cur) /\ twice' = twice
      /\ Clears /\ UNCHANGED <<file, state, stored, holder>>
      /\ \E v \in Values :
            /\ fate[v] = "unused" /\ v \notin Held
            /\ fate' = [fate EXCEPT ![v] = "owned"] /\ inv' = [inv EXCEPT !.pend = v]
  BY WorksClears DEF ExecWorks, Running, IsRelease
<1>2. PICK v \in Values :
            /\ fate[v] = "unused" /\ v \notin Held
            /\ fate' = [fate EXCEPT ![v] = "owned"] /\ inv' = [inv EXCEPT !.pend = v]
  BY <1>1
<1>3. Pending(inv, v)
  BY <1>2, InvCounted, PendingFields
<1>4. v # "drop" /\ v # "no"
  BY ValuesAssumption
<1>5. /\ fate \in [Values -> Fates] /\ twice \in BOOLEAN
      /\ NothingLost /\ NoSecondRelease /\ SlotsOK /\ ReleasedOK /\ RecOK
  BY DEF ReplicaInv, ReplicaType, ValuesOK
<1>6. fate' \in [Values -> Fates] /\ \A u \in Values : fate'[u] = (IF u = v THEN "owned" ELSE fate[u])
  BY <1>2, <1>5 DEF Fates
<1>7. ReplicaType' /\ ShapeOK' /\ CountsOK' /\ OutcomesOK'
  BY <1>1, <1>3, <1>4, <1>5, <1>6, PendingKeeps
<1>8. inv'.pend = v /\ holder' = holder /\ inv'.todo = inv.todo
  BY <1>1, <1>3 DEF Pending
<1>9. /\ \A k \in Keys, u \in Values : (Slot(k, u)' <=> Slot(k, u)) /\ (InRec(k, u)' <=> InRec(k, u))
      /\ Held' = Held
  BY <1>3, <1>8, PendingSlots
<1>10. NothingLost' /\ NoSecondRelease'
  BY <1>1, <1>5, <1>6, <1>8, <1>9, ValuesAssumption DEF NothingLost, NoSecondRelease
<1>11. SlotsOK'
  BY <1>5, <1>9 DEF SlotsOK
<1>12. ReleasedOK'
  <2>1. \A k \in Keys : holder[k] # Nothing => fate'[holder[k].value] # "released"
    <3>1. \A k \in Keys : holder[k] # Nothing => holder[k].value \in Values
      BY DEF ReplicaInv, ReplicaType, HeldRecords
    <3>. QED
      BY <3>1, <1>1, <1>5, <1>6 DEF ReleasedOK
  <2>2. ASSUME NEW n \in DOMAIN inv.todo, inv.todo[n].what = "release"
        PROVE  fate'[inv.todo[n].held.value] # "released"
    <3>1. inv.todo[n] \in StepRecords
      BY <1>1, CurFacts
    <3>2. inv.todo[n].held # Nothing
      BY <2>2 DEF ReplicaInv, ShapeOK, StepsOK, StepOK, Pairs
    <3>3. inv.todo[n].held.value \in Values
      BY <3>1, <3>2 DEF StepRecords, HeldRecords
    <3>. QED
      BY <2>2, <3>3, <1>1, <1>5, <1>6 DEF ReleasedOK
  <2>3. \A k \in Keys, u \in Values : InRec(k, u) => fate'[u] # "released"
    BY <1>5, <1>6 DEF ReleasedOK
  <2>. QED
    BY <2>1, <2>2, <2>3, <1>8, <1>9 DEF ReleasedOK
<1>13. RecOK'
  <2>1. v \notin Held' /\ fate'[v] = "owned"
    BY <1>2, <1>6, <1>9
  <2>. QED
    BY <2>1, <1>1, <1>3, <1>8, PendingRec DEF RecOK
<1>. QED
  BY <1>7, <1>10, <1>11, <1>12, <1>13 DEF ReplicaInv, ValuesOK

LEMMA ExecReleases ==
    ASSUME ReplicaInv, ExecWorks, IsRelease(Cur) PROVE ReplicaInv'
<1>. DEFINE found == HolderOf(Cur)
            i == Ran(Cur)
            key == Cur.hook.res
<1>0. Cur.hook.res # Nothing /\ ~Acquires(Cur.ev)
  BY DEF IsRelease
<1>1. /\ inv.pend = "no" /\ inv.todo # <<>>
      /\ Clears /\ UNCHANGED <<file, state, stored, holder>>
      /\ inv' = [i EXCEPT !.pend = "drop"]
      /\ fate' = IF found # Nothing /\ found.value \in Values /\ fate[found.value] # "spent"
                 THEN [fate EXCEPT ![found.value] = "released"] ELSE fate
      /\ twice' = (twice \/ (found # Nothing /\ found.value \in Values /\ fate[found.value] = "released"))
  BY <1>0, WorksClears DEF ExecWorks, Running
<1>2. Counted(i) /\ i.runs = [inv.runs EXCEPT ![Cur.hook.res] = inv.runs[Cur.hook.res] + 1]
  BY <1>1, RanFields
<1>3. /\ found # Nothing => found.value \in Values /\ Slot(key, found.value)
      /\ key \in Keys /\ (inv.phase = "stop" => inv.rec[key] = Nothing)
      /\ Cur.what = "release" => found = Cur.held
      /\ Cur.what # "release" => found = holder[key]
  <2>1. found # Nothing => found.value \in Values /\ Slot(key, found.value)
    BY <1>1, HolderOfFacts
  <2>2. key \in Keys
    BY <1>0, <1>1, CurKey
  <2>3. inv.phase = "stop" => inv.rec[key] = Nothing
    BY <2>2, <1>1, CurFacts DEF ReplicaInv, ValuesOK, RecOK
  <2>. QED
    BY <2>1, <2>2, <2>3, <1>0 DEF HolderOf
<1>. HIDE DEF i, found, key
<1>4. Pending(i, "drop")
  BY <1>1, <1>2, PendingFields
<1>5. /\ fate \in [Values -> Fates] /\ twice \in BOOLEAN
      /\ NothingLost /\ NoSecondRelease /\ SlotsOK /\ ReleasedOK /\ RecOK
  BY DEF ReplicaInv, ReplicaType, ValuesOK
<1>6. \A v \in Values : \/ fate'[v] = fate[v]
                        \/ found # Nothing /\ v = found.value /\ fate'[v] = "released"
  BY <1>1, <1>5
<1>7. fate' \in [Values -> Fates]
  BY <1>1, <1>5 DEF Fates
<1>8. ~twice'
  <2>1. found # Nothing => fate[found.value] # "released"
    <3>1. CASE Cur.what = "release"
      BY <3>1, <1>1, <1>3, <1>5, CurFacts DEF ReleasedOK
    <3>2. CASE Cur.what # "release"
      BY <3>2, <1>1, <1>3, <1>5 DEF ReleasedOK
    <3>. QED
      BY <3>1, <3>2
  <2>. QED
    BY <2>1, <1>1, <1>5 DEF NoSecondRelease
<1>9. ReplicaType' /\ ShapeOK' /\ CountsOK' /\ OutcomesOK'
  BY <1>0, <1>1, <1>2, <1>4, <1>7, <1>8, PendingKeeps
<1>10. inv'.pend = "drop" /\ holder' = holder /\ inv'.todo = inv.todo
  BY <1>1, <1>4 DEF Pending
<1>11. /\ \A k \in Keys, u \in Values : (Slot(k, u)' <=> Slot(k, u)) /\ (InRec(k, u)' <=> InRec(k, u))
       /\ Held' = Held /\ Cur' = Cur
  BY <1>4, <1>10, PendingSlots
<1>12. NothingLost' /\ NoSecondRelease'
  BY <1>1, <1>5, <1>6, <1>8, <1>11, ValuesAssumption DEF NothingLost, NoSecondRelease
<1>13. SlotsOK'
  BY <1>5, <1>11 DEF SlotsOK
<1>14. ASSUME NEW k \in Keys, NEW v \in Values, Slot(k, v), fate'[v] = "released", fate[v] # "released" PROVE k = key
  BY <1>14, <1>3, <1>5, <1>6 DEF SlotsOK
<1>15. ReleasedOK'
  <2>1. ASSUME NEW k \in Keys, holder[k] # Nothing, fate'[holder[k].value] = "released" PROVE Cur.hook.res = k
    <3>1. holder[k].value \in Values /\ Slot(k, holder[k].value)
      BY <2>1 DEF ReplicaInv, ReplicaType, HeldRecords, Slot, InHolder
    <3>2. fate[holder[k].value] # "released"
      BY <2>1, <1>1, <1>5 DEF ReleasedOK
    <3>. QED
      BY <2>1, <3>1, <3>2, <1>14 DEF key
  <2>2. ASSUME NEW n \in DOMAIN inv.todo, inv.todo[n].what = "release",
               fate'[inv.todo[n].held.value] = "released"
        PROVE  n = 1
    <3>1. inv.todo[n] \in StepRecords
      BY <1>1, CurFacts
    <3>2. inv.todo[n].held # Nothing /\ inv.todo[n].hook.res \in Keys
      BY <2>2 DEF ReplicaInv, ShapeOK, StepsOK, StepOK, Pairs
    <3>3. inv.todo[n].held.value \in Values
      BY <3>1, <3>2 DEF StepRecords, HeldRecords
    <3>4. Slot(inv.todo[n].hook.res, inv.todo[n].held.value)
      BY <2>2 DEF Slot, InTodo
    <3>5. fate[inv.todo[n].held.value] # "released"
      BY <2>2, <1>1, <1>5 DEF ReleasedOK
    <3>6. inv.todo[n].hook.res = Cur.hook.res
      BY <2>2, <3>2, <3>3, <3>4, <3>5, <1>14 DEF key
    <3>. QED
      BY <3>2, <3>6, <1>1, CurFacts DEF ReplicaInv, ShapeOK, StepsApart
  <2>3. ASSUME NEW k \in Keys, NEW v \in Values, InRec(k, v) PROVE fate'[v] # "released"
    <3>1. Slot(k, v) /\ fate[v] # "released"
      BY <2>3, <1>5 DEF Slot, ReleasedOK
    <3>2. fate'[v] = "released" => k = key
      BY <3>1, <1>14
    <3>. QED
      BY <2>3, <3>2, <1>3 DEF InRec
  <2>. QED
    BY <2>1, <2>2, <2>3, <1>10, <1>11 DEF ReleasedOK
<1>16. RecOK'
  BY <1>1, <1>4, <1>10, PendingRec, ValuesAssumption DEF RecOK
<1>. QED
  BY <1>9, <1>12, <1>13, <1>15, <1>16 DEF ReplicaInv, ValuesOK

LEMMA ExecWorksKeeps ==
    ASSUME ReplicaInv, ExecWorks PROVE ReplicaInv'
BY ExecPlain, ExecAcquires, ExecReleases DEF IsRelease

LEMMA StoredReleaseType ==
    ASSUME NEW h \in Hooks, NEW ev \in Events, NEW rel, rel = StoredRelease(h, ev)
    PROVE  rel.release \in RelEvents \cup {"none"} /\ rel.onError \in OnErrors
<1>. DEFINE rels == HookRelease(h, ev)
            r == CHOOSE x \in rels : TRUE
<1>1. Releases(ev) \subseteq RelEvents
  <2>1. CASE ev \in {"create_pre", "create_post"}
    BY <2>1 DEF Releases, RelEvents
  <2>2. CASE ev \in {"start_pre", "start_post"}
    BY <2>2 DEF Releases, RelEvents
  <2>3. CASE ev \notin {"create_pre", "create_post", "start_pre", "start_post"}
    BY <2>3 DEF Releases
  <2>. QED
    BY <2>1, <2>2, <2>3
<1>2. \A x \in rels : x \in RelEvents /\ h.on[x] # "unset"
  BY <1>1 DEF HookRelease
<1>3. RelEvents \subseteq Events /\ h.on \in [Events -> OnErrors \cup {"unset"}]
  BY EventNames DEF Hooks
<1>4. rel = IF rels = {} THEN [release |-> "none", onError |-> "fail"] ELSE [release |-> r, onError |-> h.on[r]]
  BY DEF StoredRelease
<1>. HIDE DEF rels
<1>5. rels # {} => r \in rels
  OBVIOUS
<1>. HIDE DEF r
<1>6. CASE rels = {}
  BY <1>4, <1>6 DEF OnErrors
<1>7. CASE rels # {}
  <2>1. r \in RelEvents /\ h.on[r] \in OnErrors
    BY <1>2, <1>3, <1>5, <1>7
  <2>. QED
    BY <1>4, <1>7, <2>1
<1>. QED
  BY <1>6, <1>7

\* The value is recorded: the step is over.
Recorded2 ==
    /\ inv' \in Invocations /\ Kin(inv', inv) /\ inv'.pend = "no" /\ IsTail(inv'.todo, inv.todo)
    /\ inv'.removed = inv.removed /\ inv'.bad = inv.bad /\ inv'.err = inv.err /\ inv'.runs = inv.runs
    /\ inv.phase # "retry" => inv'.rec = inv.rec
    /\ \A k \in Keys : inv'.rec[k] = inv.rec[k] \/ (inv'.rec[k] = Nothing /\ k = Cur.hook.res /\ inv.phase = "retry")

LEMMA RecordFields ==
    ASSUME ReplicaInv, Record PROVE Recorded2 /\ inv.todo # <<>> /\ Cur.hook.res \in Keys
<1>1. inv.todo # <<>> /\ Cur.hook.res \in Keys
  BY DEF Record, Recording, ReplicaInv, ShapeOK, PendOK
<1>. DEFINE t == Then(inv)
            k == Cur.hook.res
            r == [t.rec EXCEPT ![k] = Nothing]
<1>2. inv \in Invocations
  BY DEF ReplicaInv, ReplicaType
<1>3. t \in Invocations /\ Kin(t, inv) /\ Kin2(t, inv) /\ t.pend = "no" /\ IsTail(t.todo, inv.todo)
  BY <1>1, <1>2, ThenFields
<1>4. inv' = IF inv.phase = "retry" THEN [t EXCEPT !.rec = r] ELSE t
  BY DEF Record
<1>5. r \in [Keys -> RecRecords \cup {Nothing}] /\ \A m \in Keys : r[m] = IF m = k THEN Nothing ELSE inv.rec[m]
  BY <1>3, <1>2 DEF Invocations, Kin2
<1>. HIDE DEF t, r, k
<1>6. CASE inv.phase # "retry"
  BY <1>3, <1>4, <1>6, <1>1 DEF Recorded2, Kin2
<1>7. CASE inv.phase = "retry"
  <2>1. inv' \in Invocations
    BY <1>3, <1>4, <1>5, <1>7 DEF Invocations
  <2>2. Kin(inv', inv)
    BY <1>3, <1>4, <1>7 DEF Kin, Invocations
  <2>3. /\ inv'.pend = "no" /\ inv'.todo = t.todo
        /\ inv'.removed = inv.removed /\ inv'.bad = inv.bad /\ inv'.err = inv.err /\ inv'.runs = inv.runs
        /\ inv'.rec = r
    BY <1>3, <1>4, <1>7 DEF Kin2, Invocations
  <2>. QED
    BY <2>1, <2>2, <2>3, <1>1, <1>3, <1>5, <1>7 DEF Recorded2, k
<1>. QED
  BY <1>1, <1>6, <1>7

\* All but the values.
LEMMA RecordKeeps1 ==
    ASSUME ReplicaInv, Recorded2, inv.todo # <<>>, inv.pend # "no", UNCHANGED <<file, state, stored, left>>,
           IsRelease(Cur) <=> inv.pend = "drop",
           holder' \in [Keys -> HeldRecords \cup {Nothing}], \A k \in Keys : k # Cur.hook.res => holder'[k] = holder[k],
           inv.pend = "drop" => holder'[Cur.hook.res] = Nothing, fate' \in [Values -> Fates], twice' = twice
    PROVE  ReplicaType' /\ ShapeOK' /\ CountsOK' /\ OutcomesOK'
<1>1. ReplicaType /\ ErrOK /\ ForcePasses /\ ShapeOK
  BY DEF ReplicaInv, OutcomesOK
<1>2. Cur.hook.res \in Keys /\ Cur.what \in {"hook", "release"}
  BY <1>1 DEF ShapeOK, PendOK
<1>3. /\ inv' \in Invocations /\ Kin(inv', inv) /\ inv'.pend = "no" /\ IsTail(inv'.todo, inv.todo)
      /\ inv'.removed = inv.removed /\ inv'.bad = inv.bad /\ inv'.err = inv.err /\ inv'.runs = inv.runs
      /\ \A k \in Keys : inv'.rec[k] = inv.rec[k] \/ (inv'.rec[k] = Nothing /\ k = Cur.hook.res /\ inv.phase = "retry")
      /\ Sub(inv'.todo, inv.todo) /\ inv'.todo \in Seq(StepRecords)
  BY DEF Recorded2, IsTail, Invocations
<1>4. ShapeOK'
  BY <1>3, ShapeKeeps
<1>5. PhaseOK' /\ IsDown' = IsDown /\ Forced' = Forced
  BY <1>1, <1>3, PhaseKeeps DEF ShapeOK
<1>6. ReplicaType'
  <2>1. \A k \in Keys : inv'.rec[k] # Nothing /\ ~inv'.rec[k].reportOnly => inv'.rec[k].holder.value \in Values
    BY <1>1, <1>3 DEF ReplicaType
  <2>. QED
    BY <2>1, <1>1, <1>3 DEF ReplicaType
<1>7. \A k \in Keys : (Waits(k)' => Waits(k)) /\ (ToRun(k)' => ToRun(k))
  BY <1>3, WaitsShrink
<1>8. CountsOK'
  BY <1>3, <1>5, <1>7, CountsKeep
<1>9. OutcomesOK'
  <2>1. ForcePasses'
    BY <1>1, <1>3, <1>5 DEF ForcePasses, Kin
  <2>2. ASSUME IsDown, NEW k \in Keys
        PROVE  /\ holder'[k] = holder[k] \/ holder'[k] = Nothing
               /\ inv.rec[k] # Nothing => inv'.rec[k] # Nothing \/ (inv.phase = "retry" /\ holder'[k] = Nothing)
               /\ Waits(k) => Waits(k)' \/ Settled(k)'
    <3>0. inv.phase \notin {"create", "start"}
      BY <1>1, <2>2 DEF ShapeOK, PhaseOK, IsDown
    <3>1. inv.pend = "drop" /\ holder'[Cur.hook.res] = Nothing
      BY <3>0, <1>2, CurKey, NothingFacts
    <3>3. ASSUME Waits(k), k # Cur.hook.res PROVE Waits(k)'
      <4>2. PICK n \in DOMAIN inv.todo : inv.todo[n].hook.res = k
        BY <3>3 DEF Waits
      <4>3. n # 1
        BY <4>2, <3>3, CurFacts
      <4>. QED
        BY <1>3, <4>2, <4>3 DEF IsTail, Waits
    <3>. QED
      BY <3>1, <3>3, <1>3 DEF Settled
  <2>3. ASSUME NEW p \in {"create", "start", "remove"}, \E n \in DOMAIN inv.todo : inv.todo[n].what = p
        PROVE  \E n \in DOMAIN inv'.todo : inv'.todo[n].what = p
    <3>2. PICK n \in DOMAIN inv.todo : inv.todo[n].what = p
      BY <2>3
    <3>3. n # 1
      BY <1>2, <3>2, CurFacts DEF Pairs
    <3>. QED
      BY <1>3, <3>2, <3>3 DEF IsTail
  <2>4. inv'.err # "none" => inv'.bad
    BY <1>1, <1>3 DEF ErrOK
  <2>. QED
    BY <2>1, <2>2, <2>3, <2>4, <1>3, <1>5, OutcomesKeep
<1>. QED
  BY <1>4, <1>6, <1>8, <1>9

LEMMA RecordKeeps ==
    ASSUME ReplicaInv, Record PROVE ReplicaInv'
<1>1. Recorded2 /\ inv.todo # <<>> /\ Cur.hook.res \in Keys
  BY RecordFields
<1>. DEFINE key == Cur.hook.res
            rel == StoredRelease(Cur.hook, Cur.ev)
            new == IF inv.pend = "drop" THEN Nothing
                   ELSE [value |-> inv.pend, hook |-> Cur.hook.name, release |-> rel.release, onError |-> rel.onError]
<1>2. /\ inv.pend # "no" /\ holder' = [holder EXCEPT ![key] = new] /\ fate' = GiveUp(fate, holder[key])
      /\ UNCHANGED <<file, state, stored, left, twice>>
  BY DEF Record, Recording
<1>3. ReplicaType /\ ShapeOK /\ NothingLost /\ NoSecondRelease /\ SlotsOK /\ ReleasedOK /\ RecOK
  BY DEF ReplicaInv, ValuesOK
<1>4. inv.pend \in Values \cup {"drop"} /\ (inv.pend = "drop" <=> inv.pend \notin Values)
  BY <1>2, <1>3, ValuesAssumption DEF ReplicaType, Invocations
<1>5. /\ IsRelease(Cur) <=> inv.pend = "drop"
      /\ IsRelease(Cur) <=> inv.phase \notin {"create", "start"}
      /\ Cur.hook \in Hooks /\ Cur.ev \in Events
  BY <1>1, <1>2, <1>3, CurKey, NothingFacts, EventNames DEF ShapeOK, PendOK
<1>6. new \in HeldRecords \cup {Nothing} /\ (inv.pend # "drop" => new # Nothing /\ new.value = inv.pend)
  <2>1. rel.release \in RelEvents \cup {"none"} /\ rel.onError \in OnErrors /\ Cur.hook.name \in Names
    BY <1>5, StoredReleaseType DEF Hooks
  <2>. HIDE DEF rel
  <2>2. inv.pend # "drop" => new \in HeldRecords /\ new.value = inv.pend
    BY <2>1, <1>4 DEF HeldRecords
  <2>. QED
    BY <2>2, NothingFacts
<1>7. holder \in [Keys -> HeldRecords \cup {Nothing}] /\ fate \in [Values -> Fates]
  BY <1>3 DEF ReplicaType
<1>. HIDE DEF new, rel, key
<1>8. /\ holder' \in [Keys -> HeldRecords \cup {Nothing}] /\ key \in Keys
      /\ \A k \in Keys : holder'[k] = IF k = key THEN new ELSE holder[k]
  BY <1>1, <1>2, <1>6, <1>7 DEF key
<1>9. /\ fate' \in [Values -> Fates]
      /\ \A v \in Values : (fate'[v] = "owned" => fate[v] = "owned") /\ (fate'[v] = "released" => fate[v] = "released")
      /\ holder[key] # Nothing => fate'[holder[key].value] # "owned"
  <2>1. holder[key] \in HeldRecords \cup {Nothing}
    BY <1>7, <1>8
  <2>. QED
    BY <2>1, <1>2, <1>7, GiveUpFacts
<1>10. ReplicaType' /\ ShapeOK' /\ CountsOK' /\ OutcomesOK'
  <2>1. inv.pend = "drop" => holder'[Cur.hook.res] = Nothing
    BY <1>8 DEF new, key
  <2>2. \A k \in Keys : k # Cur.hook.res => holder'[k] = holder[k]
    BY <1>8 DEF key
  <2>. QED
    BY <2>1, <2>2, <1>1, <1>2, <1>5, <1>8, <1>9, RecordKeeps1
<1>11. /\ inv' \in Invocations /\ Kin(inv', inv) /\ inv'.pend = "no" /\ Sub(inv'.todo, inv.todo)
       /\ inv'.phase = inv.phase /\ inv'.op = inv.op /\ inv'.was = inv.was /\ inv'.todo \in Seq(StepRecords)
       /\ inv.phase # "retry" => inv'.rec = inv.rec
  BY <1>1 DEF Recorded2, Kin, IsTail, Invocations
<1>12. \A k \in Keys, v \in Values : InTodo(k, v)' => InTodo(k, v)
  BY <1>11 DEF InTodo, Sub
<1>13. \A k \in Keys, v \in Values : InRec(k, v)' => InRec(k, v)
  BY <1>11 DEF InRec
<1>14. \A k \in Keys : holder[k] # Nothing => holder[k].value \in Values
  BY <1>7 DEF HeldRecords
<1>15. ASSUME NEW k \in Keys, NEW v \in Values, InHolder(k, v)'
       PROVE  InHolder(k, v) \/ (k = key /\ v = inv.pend)
  BY <1>15, <1>6, <1>8 DEF InHolder, new
<1>16. NothingLost'
  <2>1. SUFFICES ASSUME NEW v \in Values, fate'[v] = "owned" PROVE v \in Held'
    BY DEF NothingLost
  <2>2. CASE inv.pend = v
    <3>1. holder'[key] # Nothing /\ holder'[key].value = v
      BY <2>2, <1>4, <1>6, <1>8
    <3>. QED
      BY <3>1, <1>8 DEF Held
  <2>3. CASE inv.pend # v
    <3>1. PICK k \in Keys : holder[k] # Nothing /\ holder[k].value = v
      BY <2>1, <2>3, <1>3, <1>9 DEF NothingLost, Held
    <3>2. k # key
      BY <2>1, <3>1, <1>9
    <3>. QED
      BY <3>1, <3>2, <1>8 DEF Held
  <2>. QED
    BY <2>2, <2>3
<1>17. SlotsOK'
  <2>1. CASE inv.pend = "drop"
    <3>1. \A k \in Keys, v \in Values : Slot(k, v)' => Slot(k, v)
      BY <2>1, <1>4, <1>12, <1>13, <1>15 DEF Slot
    <3>. QED
      BY <3>1, <1>3 DEF SlotsOK
  <2>2. CASE inv.pend # "drop"
    <3>1. inv.phase \in {"create", "start"}
      BY <2>2, <1>5
    <3>2. \A k \in Keys, v \in Values : ~InTodo(k, v) /\ ~InRec(k, v)
      BY <3>1, <1>3 DEF InTodo, InRec, ShapeOK, StepsOK, StepOK, Pairs
    <3>3. \A k \in Keys, v \in Values : Slot(k, v)' => (InHolder(k, v) /\ k # key) \/ (k = key /\ v = inv.pend)
      BY <3>2, <1>6, <1>8, <1>12, <1>13, <1>15, <2>2 DEF Slot, InHolder
    <3>4. \A k \in Keys : ~InHolder(k, inv.pend)
      BY <2>2, <1>3, <1>4 DEF InHolder, RecOK, Held
    <3>5. \A k, m \in Keys, v, w \in Values : InHolder(k, v) /\ InHolder(m, w) => (k = m <=> v = w)
      BY <1>3 DEF SlotsOK, Slot
    <3>. QED
      BY <3>3, <3>4, <3>5 DEF SlotsOK
  <2>. QED
    BY <2>1, <2>2
<1>18. ReleasedOK'
  <2>1. ASSUME NEW k \in Keys, holder'[k] # Nothing PROVE fate'[holder'[k].value] # "released"
    <3>1. CASE k = key
      <4>1. inv.pend \in Values /\ holder'[k].value = inv.pend
        BY <2>1, <3>1, <1>4, <1>6, <1>8 DEF new
      <4>2. fate[inv.pend] # "released"
        BY <4>1, <1>3 DEF RecOK
      <4>. QED
        BY <4>1, <4>2, <1>9
    <3>2. CASE k # key
      <4>1. holder'[k] = holder[k] /\ holder[k].value \in Values
        BY <2>1, <3>2, <1>8, <1>14
      <4>2. fate[holder[k].value] # "released"
        BY <2>1, <3>2, <4>1, <1>3 DEF ReleasedOK, key
      <4>. QED
        BY <4>1, <4>2, <1>9
    <3>. QED
      BY <3>1, <3>2
  <2>2. ASSUME NEW n \in DOMAIN inv'.todo, inv'.todo[n].what = "release"
        PROVE  fate'[inv'.todo[n].held.value] # "released"
    <3>1. n \in Nat \ {0} /\ n + 1 \in DOMAIN inv.todo /\ inv'.todo[n] = inv.todo[n + 1] /\ inv'.todo[n] \in StepRecords
      BY <1>11 DEF Sub
    <3>2. fate[inv.todo[n + 1].held.value] # "released"
      BY <3>1, <2>2, <1>3 DEF ReleasedOK
    <3>3. inv.todo[n + 1].held # Nothing
      BY <3>1, <2>2, <1>3 DEF ShapeOK, StepsOK, StepOK, Pairs
    <3>4. inv.todo[n + 1].held.value \in Values
      BY <3>1, <3>3 DEF StepRecords, HeldRecords
    <3>. QED
      BY <3>1, <3>2, <3>4, <1>9
  <2>3. \A k \in Keys, v \in Values : InRec(k, v)' => fate'[v] # "released"
    BY <1>3, <1>9, <1>13 DEF ReleasedOK
  <2>. QED
    BY <2>1, <2>2, <2>3 DEF ReleasedOK
<1>19. RecOK'
  <2>1. ASSUME inv.phase = "stop", NEW n \in DOMAIN inv'.todo, inv'.todo[n].hook.res \in Keys
        PROVE  inv'.rec[inv'.todo[n].hook.res] = Nothing
    BY <2>1, <1>3, <1>11 DEF RecOK, Sub
  <2>2. ~IsDown' /\ inv'.was \notin DownOps => inv'.rec = NoRec
    <3>1. inv.phase = "retry" => IsDown
      BY <1>3 DEF ShapeOK, PhaseOK
    <3>. QED
      BY <3>1, <1>3, <1>11 DEF RecOK, IsDown, NoRec
  <2>. QED
    BY <2>1, <2>2, <1>11, ValuesAssumption DEF RecOK
<1>20. NoSecondRelease'
  BY <1>2, <1>3 DEF NoSecondRelease
<1>. QED
  BY <1>10, <1>16, <1>17, <1>18, <1>19, <1>20 DEF ReplicaInv, ValuesOK

\* The step at hand is the operation of its phase.
LEMMA OpFacts ==
    ASSUME ReplicaInv, NEW S \in SUBSET Pairs, Running(S)
    PROVE  /\ inv.pend = "no" /\ inv.todo # <<>> /\ Cur.hook.res = Nothing /\ Cur.what = inv.phase
           /\ inv.phase \in S /\ inv.op \notin {"idle", "over"} /\ inv.was = "idle"
           /\ ReplicaType /\ ShapeOK /\ PhaseOK /\ ErrOK /\ KeptStays /\ ForcePasses /\ UpTrue /\ DownTrue /\ DownOK
           /\ ~IsDown /\ inv.was \notin DownOps => inv.rec = NoRec
<1>1. inv.pend = "no" /\ inv.todo # <<>> /\ Cur.what \in S /\ Cur.what \in Pairs /\ inv.op # "idle"
  BY DEF Running
<1>2. StepOK(Cur)
  BY <1>1, CurFacts
<1>3. Cur.what = inv.phase /\ Cur.hook.res = Nothing
  BY <1>1, <1>2 DEF StepOK, Pairs
<1>4. /\ ReplicaType /\ ShapeOK /\ PhaseOK /\ ErrOK /\ KeptStays /\ ForcePasses /\ UpTrue /\ DownTrue /\ DownOK
      /\ ~IsDown /\ inv.was \notin DownOps => inv.rec = NoRec
  BY DEF ReplicaInv, ShapeOK, OutcomesOK, ValuesOK, RecOK, CountsOK
<1>5. inv.op \notin {"idle", "over"} /\ inv.was = "idle"
  BY <1>1, <1>3, <1>4 DEF PhaseOK, Pairs
<1>. QED
  BY <1>1, <1>3, <1>4, <1>5

\* The operation is over, and the invocation goes on to its post hooks.
LEMMA OpOver ==
    ASSUME ReplicaInv, NEW S \in SUBSET Pairs, Running(S), inv' = Then(inv), UNCHANGED <<holder, left, ghosts>>
    PROVE  /\ inv' \in Invocations /\ Kin(inv', inv) /\ inv'.pend = "no" /\ IsTail(inv'.todo, inv.todo)
           /\ inv'.rec = inv.rec /\ inv'.removed = inv.removed /\ inv'.bad = inv.bad /\ inv'.runs = inv.runs
           /\ inv'.err = inv.err /\ holder' = holder /\ left' = left /\ fate' = fate /\ twice' = twice
           /\ ShapeOK' /\ ValuesOK' /\ PhaseOK' /\ IsDown' = IsDown /\ Forced' = Forced /\ inv'.was = "idle"
           /\ \A k \in Keys : (Waits(k)' <=> Waits(k)) /\ (ToRun(k)' => ToRun(k))
<1>1. /\ inv.pend = "no" /\ inv.todo # <<>> /\ Cur.hook.res = Nothing /\ ReplicaType /\ PhaseOK
  BY OpFacts
<1>2. /\ inv' \in Invocations /\ Kin(inv', inv) /\ Kin2(inv', inv)
      /\ inv'.pend = "no" /\ IsTail(inv'.todo, inv.todo)
  BY <1>1, ThenFields DEF ReplicaType
<1>3. inv'.rec = inv.rec /\ inv'.removed = inv.removed /\ inv'.bad = inv.bad /\ inv'.runs = inv.runs /\ inv'.err = inv.err
      /\ Sub(inv'.todo, inv.todo) /\ holder' = holder /\ left' = left /\ fate' = fate /\ twice' = twice
  BY <1>2 DEF Kin2, IsTail, ghosts
<1>4. /\ ShapeOK' /\ ValuesOK'
      /\ \A k \in Keys : (Waits(k)' => Waits(k)) /\ (ToRun(k)' => ToRun(k))
      /\ \A k \in Keys : Waits(k) => Waits(k)'
  BY <1>1, <1>2, <1>3, PlainStep
<1>5. PhaseOK' /\ IsDown' = IsDown /\ Forced' = Forced /\ inv'.was = "idle"
  BY <1>1, <1>2, <1>3, PhaseKeeps
<1>. QED
  BY <1>2, <1>3, <1>4, <1>5

LEMMA CreateWorksKeeps ==
    ASSUME ReplicaInv, CreateWorks PROVE ReplicaInv'
<1>0. {"create"} \in SUBSET Pairs
  BY DEF Pairs
<1>1. /\ inv.phase = "create" /\ ReplicaType /\ PhaseOK /\ ErrOK
  BY <1>0, OpFacts DEF CreateWorks
<1>2. inv.op = "up"
  BY <1>1 DEF PhaseOK
<1>3. /\ inv' = Then(inv) /\ state' = "created" /\ stored' = inv.want /\ UNCHANGED <<file, holder, left, ghosts>>
  BY DEF CreateWorks
<1>4. /\ inv' \in Invocations /\ Kin(inv', inv) /\ IsTail(inv'.todo, inv.todo)
      /\ inv'.rec = inv.rec /\ inv'.bad = inv.bad
      /\ inv'.err = inv.err /\ holder' = holder /\ left' = left /\ fate' = fate /\ twice' = twice
      /\ ShapeOK' /\ ValuesOK' /\ PhaseOK' /\ IsDown' = IsDown /\ inv'.was = "idle"
  BY <1>0, <1>3, OpOver DEF CreateWorks
<1>5. ReplicaType'
  <2>1. inv.want \in HookLists
    BY <1>1 DEF ReplicaType, Invocations
  <2>. QED
    BY <2>1, <1>1, <1>3, <1>4 DEF ReplicaType, States
<1>6. ~IsDown' /\ inv'.was \notin DownOps /\ inv'.phase = "create" /\ inv'.want = inv.want
  BY <1>1, <1>2, <1>4 DEF IsDown, DownOps, Kin
<1>7. CountsOK'
  BY <1>6, NotDownCounts
<1>8. ErrOK'
  BY <1>1, <1>2, <1>4 DEF ErrOK, Kin, IsOrWasDown, IsDown
<1>9. UpTrue'
  BY <1>3, <1>4, <1>6 DEF UpTrue
<1>. QED
  BY <1>4, <1>5, <1>6, <1>7, <1>8, <1>9, NotDownOutcomes DEF ReplicaInv

LEMMA StartWorksKeeps ==
    ASSUME ReplicaInv, StartWorks PROVE ReplicaInv'
<1>0. {"start"} \in SUBSET Pairs
  BY DEF Pairs
<1>1. /\ inv.phase = "start" /\ ReplicaType /\ PhaseOK /\ ErrOK /\ UpTrue
  BY <1>0, OpFacts DEF StartWorks
<1>2. ~IsDown
  BY <1>1 DEF PhaseOK, IsDown
<1>3. /\ inv' = Then(inv) /\ state' = "running" /\ UNCHANGED <<file, stored, holder, left, ghosts>>
      /\ state # "absent"
  BY DEF StartWorks
<1>4. /\ inv' \in Invocations /\ Kin(inv', inv) /\ IsTail(inv'.todo, inv.todo)
      /\ inv'.rec = inv.rec /\ inv'.bad = inv.bad
      /\ inv'.err = inv.err /\ holder' = holder /\ left' = left /\ fate' = fate /\ twice' = twice
      /\ ShapeOK' /\ ValuesOK' /\ PhaseOK' /\ IsDown' = IsDown /\ inv'.was = "idle"
  BY <1>0, <1>3, OpOver DEF StartWorks
<1>5. ReplicaType'
  BY <1>1, <1>3, <1>4 DEF ReplicaType, States
<1>6. ~IsDown' /\ inv'.was \notin DownOps /\ inv'.phase = "start" /\ inv'.want = inv.want /\ inv'.op = inv.op
  BY <1>1, <1>2, <1>4 DEF DownOps, Kin
<1>7. CountsOK'
  BY <1>6, NotDownCounts
<1>8. ErrOK'
  BY <1>1, <1>2, <1>4 DEF ErrOK, Kin, IsOrWasDown
<1>9. UpTrue'
  BY <1>1, <1>3, <1>4, <1>6 DEF UpTrue
<1>. QED
  BY <1>4, <1>5, <1>6, <1>7, <1>8, <1>9, NotDownOutcomes DEF ReplicaInv

LEMMA StopWorksKeeps ==
    ASSUME ReplicaInv, StopWorks PROVE ReplicaInv'
<1>0. {"stop"} \in SUBSET Pairs
  BY DEF Pairs
<1>1. /\ inv.todo # <<>> /\ inv.phase = "stop" /\ Cur.what = "stop" /\ ReplicaType /\ PhaseOK /\ ErrOK /\ ForcePasses
  BY <1>0, OpFacts DEF StopWorks
<1>3. /\ inv' = Then(inv) /\ state' \in States /\ state' # "absent" /\ UNCHANGED <<file, stored, holder, left, ghosts>>
      /\ state # "absent"
  BY DEF StopWorks, VerifiedStopped, States
<1>4. /\ inv' \in Invocations /\ Kin(inv', inv) /\ inv'.pend = "no" /\ IsTail(inv'.todo, inv.todo)
      /\ inv'.rec = inv.rec /\ inv'.removed = inv.removed /\ inv'.bad = inv.bad /\ inv'.runs = inv.runs
      /\ inv'.err = inv.err /\ holder' = holder /\ left' = left /\ fate' = fate /\ twice' = twice
      /\ ShapeOK' /\ ValuesOK' /\ PhaseOK' /\ IsDown' = IsDown /\ Forced' = Forced /\ inv'.was = "idle"
      /\ \A k \in Keys : (Waits(k)' <=> Waits(k)) /\ (ToRun(k)' => ToRun(k))
  BY <1>0, <1>3, OpOver DEF StopWorks
<1>5. ReplicaType'
  BY <1>1, <1>3, <1>4 DEF ReplicaType
<1>6. CountsOK'
  BY <1>1, <1>3, <1>4, CountsKeep
<1>7. OutcomesOK'
  <2>1. ForcePasses'
    BY <1>1, <1>4 DEF ForcePasses, Kin
  <2>2. ASSUME NEW p \in {"create", "start", "remove"}, \E n \in DOMAIN inv.todo : inv.todo[n].what = p
        PROVE  \E n \in DOMAIN inv'.todo : inv'.todo[n].what = p
    <3>2. PICK n \in DOMAIN inv.todo : inv.todo[n].what = p
      BY <2>2
    <3>3. n # 1
      BY <1>1, <3>2, CurFacts
    <3>. QED
      BY <1>4, <3>2, <3>3 DEF IsTail
  <2>3. inv'.err # "none" => inv'.bad
    BY <1>1, <1>4 DEF ErrOK
  <2>. QED
    BY <2>1, <2>2, <2>3, <1>1, <1>3, <1>4, OutcomesKeep
<1>. QED
  BY <1>4, <1>5, <1>6, <1>7 DEF ReplicaInv

LEMMA RemoveWorksKeeps ==
    ASSUME ReplicaInv, RemoveWorks PROVE ReplicaInv'
<1>0. {"remove"} \in SUBSET Pairs
  BY DEF Pairs
<1>1. /\ inv.pend = "no" /\ inv.todo # <<>> /\ Cur.hook.res = Nothing /\ inv.phase = "remove" /\ inv.was = "idle"
      /\ ReplicaType /\ PhaseOK /\ ErrOK /\ ForcePasses /\ UpTrue /\ DownTrue /\ DownOK
  BY <1>0, OpFacts DEF RemoveWorks
<1>2. /\ inv' = [Then(inv) EXCEPT !.removed = TRUE] /\ state' = "absent" /\ stored' = <<>>
      /\ file' = file /\ holder' = holder /\ left' = left /\ fate' = fate /\ twice' = twice
  BY DEF RemoveWorks, ghosts
<1>3. /\ inv' \in Invocations /\ Kin(inv', inv) /\ inv'.pend = "no" /\ IsTail(inv'.todo, inv.todo)
      /\ inv'.rec = inv.rec /\ inv'.removed /\ inv'.bad = inv.bad /\ inv'.runs = inv.runs /\ inv'.err = inv.err
  <2>1. PICK t : t = Then(inv)
    OBVIOUS
  <2>2. t \in Invocations /\ Kin(t, inv) /\ Kin2(t, inv) /\ t.pend = "no" /\ IsTail(t.todo, inv.todo)
    BY <2>1, <1>1, ThenFields DEF ReplicaType
  <2>3. inv' = [t EXCEPT !.removed = TRUE]
    BY <2>1, <1>2
  <2>4. inv' \in Invocations
    BY ONLY <2>2, <2>3 DEF Invocations
  <2>5. Kin(inv', inv)
    BY ONLY <2>2, <2>3 DEF Invocations, Kin
  <2>6. /\ inv'.rec = inv.rec /\ inv'.removed /\ inv'.bad = inv.bad /\ inv'.runs = inv.runs /\ inv'.err = inv.err
        /\ inv'.pend = "no" /\ inv'.todo = t.todo
    BY ONLY <2>2, <2>3 DEF Invocations, Kin2
  <2>. QED
    BY <2>2, <2>4, <2>5, <2>6
<1>4. Sub(inv'.todo, inv.todo)
  BY <1>3 DEF IsTail
<1>5. /\ ShapeOK' /\ ValuesOK'
      /\ \A k \in Keys : (Waits(k)' => Waits(k)) /\ (ToRun(k)' => ToRun(k))
      /\ \A k \in Keys : Waits(k) => Waits(k)'
  BY <1>1, <1>2, <1>3, <1>4, PlainStep
<1>6. PhaseOK' /\ IsDown' = IsDown /\ Forced' = Forced /\ inv'.was = "idle" /\ inv'.phase = "remove"
      /\ inv'.kept = inv.kept /\ inv'.stopped = inv.stopped /\ inv'.listed = inv.listed /\ inv'.held = inv.held
      /\ inv'.cancelled = inv.cancelled /\ inv'.old = inv.old
  BY <1>1, <1>3, <1>4, PhaseKeeps DEF Kin
<1>7. ReplicaType'
  <2>1. stored' \in HookLists /\ (state' = "absent" => stored' = <<>>)
    BY <1>2 DEF HookLists
  <2>. QED
    BY <2>1, <1>1, <1>2, <1>3 DEF ReplicaType, States
<1>8. \A k \in Keys : AtStop(k)' = AtStop(k) /\ AtRemove(k)' = AtRemove(k) /\ Settled(k)' = Settled(k)
  BY <1>2, <1>3, <1>6, AtSame DEF Settled
<1>9. CountsOK'
  <2>1. RunsOK'
    BY <1>1, <1>3, <1>5, <1>6, RunsKeep
  <2>2. DownOK'
    BY <1>1, <1>3, <1>5, <1>6, <1>8 DEF DownOK
  <2>3. RetriedWhenStopped'
    BY <1>6 DEF RetriedWhenStopped
  <2>. QED
    BY <2>1, <2>2, <2>3 DEF CountsOK
<1>10. OutcomesOK'
  <2>1. ErrOK' /\ KeptStays'
    BY <1>1, <1>3, <1>6 DEF ErrOK, KeptStays
  <2>2. ForcePasses'
    BY <1>1, <1>3, <1>6 DEF ForcePasses
  <2>3. ~Past'
    BY <1>6 DEF Past
  <2>4. ExecsTrue'
    BY <2>3 DEF ExecsTrue
  <2>5. DownTrue'
    <3>1. IsOrWasDown' => IsOrWasDown
      BY <1>6 DEF IsOrWasDown, DownOps
    <3>2. SUFFICES ASSUME IsOrWasDown, ~inv.bad
                   PROVE  /\ \A k \in Keys : AtStop(k)' /\ inv'.stopped => Settled(k)'
                          /\ \A k \in Keys : AtRemove(k)' => Settled(k)' \/ Waits(k)'
      BY <1>3, <1>6, <2>3, <3>1 DEF DownTrue
    <3>. QED
      BY <3>2, <1>1, <1>5, <1>6, <1>8 DEF DownTrue
  <2>6. UpTrue'
    BY <1>6 DEF UpTrue
  <2>. QED
    BY <2>1, <2>2, <2>4, <2>5, <2>6 DEF OutcomesOK
<1>. QED
  BY <1>5, <1>7, <1>9, <1>10 DEF ReplicaInv

LEMMA OpFailsKeeps ==
    ASSUME ReplicaInv, OpFails PROVE ReplicaInv'
<1>1. /\ inv.pend = "no" /\ inv.todo # <<>> /\ Cur.hook.res = Nothing /\ Cur.what = inv.phase /\ inv.was = "idle"
      /\ ReplicaType /\ PhaseOK /\ ErrOK /\ ForcePasses /\ UpTrue
  BY OpFacts DEF OpFails
<1>2. /\ inv' = Fails(inv, "op") /\ stored' = stored
      /\ file' = file /\ holder' = holder /\ left' = left /\ fate' = fate /\ twice' = twice
      /\ state' = state \/ (inv.phase = "start" /\ state' = "running" /\ state # "absent")
  BY <1>1 DEF OpFails, ghosts
<1>3. /\ inv' \in Invocations /\ Kin(inv', inv) /\ inv'.removed = inv.removed /\ inv'.rec = inv.rec
      /\ inv'.runs = inv.runs
      /\ inv'.pend = "no" /\ inv'.todo = <<>> /\ inv'.err = "op" /\ inv'.bad
  BY <1>1, <1>2, FailsFields DEF ReplicaType
<1>4. Sub(inv'.todo, inv.todo) /\ DOMAIN inv'.todo = {}
  BY <1>3 DEF Sub
<1>5. /\ ShapeOK' /\ ValuesOK'
      /\ \A k \in Keys : (Waits(k)' => Waits(k)) /\ (ToRun(k)' => ToRun(k))
  BY <1>1, <1>2, <1>3, <1>4, PlainStep
<1>6. PhaseOK' /\ IsDown' = IsDown /\ Forced' = Forced /\ inv'.was = "idle" /\ inv'.phase = inv.phase
      /\ inv'.kept = inv.kept /\ inv'.cancelled = inv.cancelled
  BY <1>1, <1>3, <1>4, PhaseKeeps DEF Kin
<1>7. ReplicaType'
  BY <1>1, <1>2, <1>3 DEF ReplicaType, States
<1>8. ForcePasses'
  BY <1>1, <1>3, <1>6 DEF ForcePasses
<1>9. ErrOK'
  <2>1. IsOrWasDown' = IsOrWasDown
    BY <1>1, <1>6 DEF IsOrWasDown
  <2>2. inv.phase # "list"
    BY <1>1 DEF PhaseOK
  <2>. QED
    BY <2>1, <2>2, <1>1, <1>3, <1>6 DEF ErrOK
<1>10. CASE inv.phase = "start"
  <2>1. ~IsDown' /\ inv'.was \notin DownOps /\ inv'.phase # "retry"
    BY <1>1, <1>6, <1>10 DEF PhaseOK, IsDown, DownOps
  <2>2. UpTrue'
    BY <1>3, <1>6 DEF UpTrue
  <2>. QED
    BY <2>1, <2>2, <1>5, <1>7, <1>9, NotDownCounts, NotDownOutcomes DEF ReplicaInv
<1>11. CASE inv.phase # "start"
  <2>1. state' = state
    BY <1>2, <1>11
  <2>2. CountsOK'
    BY <2>1, <1>1, <1>2, <1>3, <1>5, <1>6, CountsKeep
  <2>3. OutcomesOK'
    BY <2>1, <1>1, <1>2, <1>3, <1>6, <1>8, OutcomesKeep
  <2>. QED
    BY <2>2, <2>3, <1>5, <1>7 DEF ReplicaInv
<1>. QED
  BY <1>10, <1>11

-----------------------------------------------------------------------------
(* Before and after an invocation                                          *)

\* The holders' values are distinct and not released.
HoldersOK ==
    /\ \A k, m \in Keys : holder[k] # Nothing /\ holder[m] # Nothing => (k = m <=> holder[k].value = holder[m].value)
    /\ \A k \in Keys : holder[k] # Nothing => fate[holder[k].value] # "released"

\* With no step to do and nothing noted, the values are the holders'.
Quiet ==
    /\ HoldersOK /\ NothingLost /\ NoSecondRelease
    /\ inv.todo = <<>> /\ inv.pend = "no" /\ inv.rec = NoRec

LEMMA HoldersValues == Quiet => ValuesOK
<1>0. SUFFICES ASSUME Quiet PROVE ValuesOK
  OBVIOUS
<1>. /\ HoldersOK /\ NothingLost /\ NoSecondRelease
     /\ inv.todo = <<>> /\ inv.pend = "no" /\ inv.rec = NoRec
  BY <1>0 DEF Quiet
<1>1. DOMAIN inv.todo = {} /\ \A k \in Keys : inv.rec[k] = Nothing
  BY DEF NoRec
<1>2. ASSUME NEW k \in Keys, NEW v \in Values, Slot(k, v) PROVE holder[k] # Nothing /\ holder[k].value = v
  BY <1>2, <1>1 DEF Slot, InHolder, InRec, InTodo
<1>3. SlotsOK
  <2>1. SUFFICES ASSUME NEW k \in Keys, NEW m \in Keys, NEW v \in Values, NEW w \in Values, Slot(k, v), Slot(m, w)
                 PROVE  k = m <=> v = w
    BY DEF SlotsOK
  <2>2. /\ holder[k] # Nothing /\ holder[k].value = v
        /\ holder[m] # Nothing /\ holder[m].value = w
    BY <2>1, <1>2
  <2>. QED
    BY <2>2 DEF HoldersOK
<1>4. ReleasedOK
  BY <1>1 DEF HoldersOK, ReleasedOK, InRec
<1>5. RecOK
  BY <1>1, ValuesAssumption DEF RecOK
<1>. QED
  BY <1>3, <1>4, <1>5 DEF ValuesOK

LEMMA QuietNext == Quiet' => ValuesOK'
BY HoldersValues, PTL

\* While nothing is pending the holders are so.
LEMMA HoldersQuiet ==
    ASSUME ReplicaInv, inv.pend = "no" PROVE HoldersOK
<1>1. ReplicaType /\ SlotsOK /\ ReleasedOK
  BY DEF ReplicaInv, ValuesOK
<1>2. ASSUME NEW k \in Keys, holder[k] # Nothing PROVE holder[k].value \in Values /\ Slot(k, holder[k].value)
  BY <1>1, <1>2 DEF ReplicaType, HeldRecords, Slot, InHolder
<1>3. ASSUME NEW k \in Keys, NEW m \in Keys, holder[k] # Nothing, holder[m] # Nothing
      PROVE  k = m <=> holder[k].value = holder[m].value
  BY <1>1, <1>2, <1>3 DEF SlotsOK
<1>4. \A k \in Keys : holder[k] # Nothing => fate[holder[k].value] # "released"
  BY <1>1 DEF ReleasedOK
<1>. QED
  BY <1>3, <1>4 DEF HoldersOK

\* An invocation that has done nothing yet: none, or one that begins.
AtRest(i) ==
    /\ i \in Invocations
    /\ i.todo = <<>> /\ i.err = "none" /\ i.pend = "no" /\ i.rec = NoRec /\ i.runs = NoRuns
    /\ ~i.listed /\ ~i.stopped /\ ~i.removed /\ ~i.kept /\ ~i.held /\ ~i.bad /\ ~i.cancelled
    /\ i.was = "idle"
    /\ \/ i.op = "idle" /\ i.phase = "done"
       \/ i.op \in Operations /\ i.phase = "list" /\ i.old = stored

LEMMA IdleRests ==
    ASSUME NEW i, i = Idle PROVE AtRest(i)
<1>1. NoRec \in [Keys -> RecRecords \cup {Nothing}]
  BY DEF NoRec
<1>2. NoRuns \in [Keys -> Nat]
  BY DEF NoRuns
<1>3. <<>> \in Seq(StepRecords) /\ <<>> \in HookLists
  BY DEF HookLists
<1>4. i \in Invocations
  BY <1>1, <1>2, <1>3 DEF Idle, Invocations, Phases
<1>. QED
  BY <1>4 DEF Idle, AtRest

LEMMA BeginRests ==
    ASSUME NEW op \in Operations, NEW src \in {"spec", "stored"}, NEW i, file \in Specs, stored \in HookLists,
           i = [Idle EXCEPT !.op = op, !.phase = "list", !.want = file, !.src = src, !.old = stored]
    PROVE  AtRest(i)
<1>1. PICK d : d = Idle
  OBVIOUS
<1>2. AtRest(d)
  BY <1>1, IdleRests
<1>3. i = [d EXCEPT !.op = op, !.phase = "list", !.want = file, !.src = src, !.old = stored]
  BY <1>1
<1>4. file \in HookLists
  BY DEF HookLists
<1>5. i \in Invocations
  BY ONLY <1>2, <1>3, <1>4, stored \in HookLists, op \in Operations, src \in {"spec", "stored"}
     DEF AtRest, Invocations, Phases
<1>6. /\ i.todo = d.todo /\ i.err = d.err /\ i.pend = d.pend /\ i.rec = d.rec /\ i.runs = d.runs
      /\ i.listed = d.listed /\ i.stopped = d.stopped /\ i.removed = d.removed /\ i.kept = d.kept
      /\ i.held = d.held /\ i.bad = d.bad /\ i.cancelled = d.cancelled /\ i.was = d.was
      /\ i.op = op /\ i.phase = "list" /\ i.old = stored
  BY ONLY <1>2, <1>3 DEF AtRest, Invocations
<1>. QED
  BY <1>2, <1>5, <1>6 DEF AtRest

\* The invariant holds when there is none, or one that begins.
RestState ==
    /\ AtRest(inv) /\ HoldersOK /\ NothingLost /\ NoSecondRelease
    /\ file \in Specs /\ state \in States /\ stored \in HookLists
    /\ holder \in [Keys -> HeldRecords \cup {Nothing}] /\ left \in Lefts
    /\ fate \in [Values -> Fates] /\ twice \in BOOLEAN /\ (state = "absent" => stored = <<>>)

LEMMA RestInv == RestState => ReplicaInv
<1>0. SUFFICES ASSUME RestState PROVE ReplicaInv
  OBVIOUS
<1>. /\ HoldersOK /\ NothingLost /\ NoSecondRelease
     /\ file \in Specs /\ state \in States /\ stored \in HookLists
     /\ holder \in [Keys -> HeldRecords \cup {Nothing}] /\ left \in Lefts
     /\ fate \in [Values -> Fates] /\ twice \in BOOLEAN /\ (state = "absent" => stored = <<>>)
  BY <1>0 DEF RestState
<1>1. /\ inv \in Invocations
      /\ inv.todo = <<>> /\ inv.err = "none" /\ inv.pend = "no" /\ inv.rec = NoRec /\ inv.runs = NoRuns
      /\ ~inv.listed /\ ~inv.stopped /\ ~inv.removed /\ ~inv.kept /\ ~inv.held /\ ~inv.bad
      /\ inv.was = "idle"
      /\ \/ inv.op = "idle" /\ inv.phase = "done"
         \/ inv.op \in Operations /\ inv.phase = "list" /\ inv.old = stored
  BY <1>0 DEF RestState, AtRest
<1>2. DOMAIN inv.todo = {} /\ \A k \in Keys : inv.rec[k] = Nothing /\ inv.runs[k] = 0
  BY <1>1 DEF NoRec, NoRuns
<1>3. ReplicaType
  BY <1>1, <1>2 DEF ReplicaType
<1>4. inv.op \in Operations => inv.op \notin {"idle", "over"}
  BY OperationsAssumption
<1>5. ShapeOK
  BY <1>1, <1>2, <1>4 DEF ShapeOK, PhaseOK, StepsOK, StepsApart, PendOK
<1>6. ValuesOK
  BY <1>1, HoldersValues DEF Quiet
<1>7. IsDown => inv.phase = "list" /\ inv.old = stored
  BY <1>1 DEF IsDown
<1>8. CountsOK
  BY <1>1, <1>2, <1>7 DEF CountsOK, DownOK, RunsOK, RetriedWhenStopped, DownOps
<1>9. IsOrWasDown => inv.phase = "list"
  BY <1>1, <1>7 DEF IsOrWasDown, DownOps
<1>10. OutcomesOK
  BY <1>1, <1>9, <1>4 DEF OutcomesOK, KeptStays, ForcePasses, ErrOK, DownTrue, ExecsTrue, UpTrue, Past
<1>. QED
  BY <1>3, <1>5, <1>6, <1>8, <1>10 DEF ReplicaInv

LEMMA RestNext == RestState' => ReplicaInv'
BY RestInv, PTL

LEMMA InitInv == Init => ReplicaInv
<1>1. SUFFICES ASSUME Init PROVE ReplicaInv
  OBVIOUS
<1>2. AtRest(inv)
  BY <1>1, IdleRests DEF Init
<1>3. /\ file \in Specs /\ state = "absent" /\ stored = <<>> /\ holder = [k \in Keys |-> Nothing] /\ left = "none"
      /\ fate = [v \in Values |-> "unused"] /\ twice = FALSE
  BY <1>1 DEF Init
<1>4. HoldersOK /\ NothingLost /\ NoSecondRelease
  BY <1>3 DEF HoldersOK, NothingLost, NoSecondRelease
<1>5. stored \in HookLists /\ state \in States /\ holder \in [Keys -> HeldRecords \cup {Nothing}]
      /\ fate \in [Values -> Fates]
  BY <1>3 DEF HookLists, States, Fates
<1>. QED
  BY <1>2, <1>3, <1>4, <1>5, RestInv DEF RestState, Lefts

LEMMA BeginKeeps ==
    ASSUME ReplicaInv, NEW op \in Operations, Begin(op) PROVE ReplicaInv'
<1>1. ReplicaType /\ PhaseOK /\ PendOK /\ NothingLost /\ NoSecondRelease
  BY DEF ReplicaInv, ShapeOK, ValuesOK
<1>2. PICK src \in {"spec", "stored"} :
        inv' = [Idle EXCEPT !.op = op, !.phase = "list", !.want = file, !.src = src, !.old = stored]
  BY DEF Begin
<1>3. /\ file' = file /\ state' = state /\ stored' = stored /\ holder' = holder /\ left' = left
      /\ fate' = fate /\ twice' = twice /\ inv.op = "idle"
  BY DEF Begin, world, ghosts
<1>4. AtRest(inv')
  BY <1>1, <1>2, BeginRests DEF ReplicaType
<1>5. AtRest(inv)'
  BY <1>3, <1>4 DEF AtRest
<1>6. inv.pend = "no"
  BY <1>1, <1>3 DEF PhaseOK, PendOK
<1>7. HoldersOK'
  BY <1>3, <1>6, HoldersQuiet DEF HoldersOK
<1>8. NothingLost' /\ NoSecondRelease'
  BY <1>1, <1>3, <1>6, ValuesAssumption DEF NothingLost, NoSecondRelease, Held
<1>9. RestState'
  BY <1>1, <1>3, <1>5, <1>7, <1>8 DEF RestState, ReplicaType
<1>. QED
  BY <1>9, RestNext

LEMMA ReturnKeeps ==
    ASSUME ReplicaInv, Return PROVE ReplicaInv'
<1>1. ReplicaType /\ PhaseOK /\ PendOK /\ NothingLost /\ NoSecondRelease
  BY DEF ReplicaInv, ShapeOK, ValuesOK
<1>3. /\ file' = file /\ state' = state /\ stored' = stored /\ holder' = holder /\ left' = left
      /\ fate' = fate /\ twice' = twice /\ inv.op = "over" /\ inv' = Idle
  BY DEF Return, Goes, world, ghosts
<1>4. AtRest(inv')
  BY <1>3, IdleRests
<1>5. AtRest(inv)'
  BY <1>3, <1>4 DEF AtRest
<1>6. inv.pend = "no"
  BY <1>1, <1>3 DEF PhaseOK, PendOK
<1>7. HoldersOK'
  BY <1>3, <1>6, HoldersQuiet DEF HoldersOK
<1>8. NothingLost' /\ NoSecondRelease'
  BY <1>1, <1>3, <1>6, ValuesAssumption DEF NothingLost, NoSecondRelease, Held
<1>9. RestState'
  BY <1>1, <1>3, <1>5, <1>7, <1>8 DEF RestState, ReplicaType
<1>. QED
  BY <1>9, RestNext

LEMMA CrashKeeps ==
    ASSUME ReplicaInv, Crash PROVE ReplicaInv'
<1>1. ReplicaType /\ NothingLost /\ NoSecondRelease /\ SlotsOK /\ ReleasedOK
  BY DEF ReplicaInv, ValuesOK
<1>2. /\ file' = file /\ state' = state /\ stored' = stored /\ holder' = holder /\ left' \in Lefts
      /\ fate' = Forget(Broken) /\ twice' = twice /\ inv' = Idle
  <2>1. left \in Lefts /\ left' \in {left} \cup Interrupted
    BY <1>1 DEF Crash, ReplicaType
  <2>2. left' \in Lefts
    BY <2>1 DEF Interrupted, Lefts
  <2>. QED
    BY <2>2 DEF Crash
<1>3. AtRest(inv)'
  <2>1. AtRest(inv')
    BY <1>2, IdleRests
  <2>. QED
    BY <1>2, <2>1 DEF AtRest
<1>4. Loses(Broken)
  <2>1. CASE inv.pend = "no"
    BY <2>1, FateStays, ValuesAssumption DEF Broken
  <2>. QED
    BY <2>1, BrokenLoses
<1>. DEFINE f == Broken
<1>5. Loses(f) /\ fate' = Forget(f)
  BY <1>2, <1>4
<1>. HIDE DEF f
<1>6. fate' \in [Values -> Fates]
  BY <1>5 DEF Forget, Loses, Fates
<1>7. ASSUME NEW v \in Values PROVE /\ fate'[v] = "owned" => fate[v] = "owned" /\ inv.pend # v
                                    /\ fate'[v] = "released" => fate[v] = "released" /\ ~(inv.pend = "drop" /\ Slot(Cur.hook.res, v))
  BY <1>5 DEF Forget, Loses
<1>8. ASSUME NEW k \in Keys, holder[k] # Nothing PROVE holder[k].value \in Values /\ Slot(k, holder[k].value)
  BY <1>1, <1>8 DEF ReplicaType, HeldRecords, Slot, InHolder
<1>9. HoldersOK'
  <2>1. ASSUME NEW k \in Keys, NEW m \in Keys, holder[k] # Nothing, holder[m] # Nothing
        PROVE  k = m <=> holder[k].value = holder[m].value
    BY <1>1, <1>8, <2>1 DEF SlotsOK
  <2>2. ASSUME NEW k \in Keys, holder[k] # Nothing PROVE fate'[holder[k].value] # "released"
    <3>1. fate[holder[k].value] = "released" => inv.pend = "drop" /\ Cur.hook.res = k
      BY <1>1, <2>2 DEF ReleasedOK
    <3>. QED
      BY <3>1, <2>2, <1>7, <1>8
  <2>. QED
    BY <2>1, <2>2, <1>2 DEF HoldersOK
<1>10. NothingLost' /\ NoSecondRelease'
  <2>1. Held' = Held
    BY <1>2 DEF Held
  <2>. QED
    BY <2>1, <1>1, <1>2, <1>7 DEF NothingLost, NoSecondRelease
<1>11. RestState'
  BY <1>1, <1>2, <1>3, <1>6, <1>9, <1>10 DEF RestState, ReplicaType
<1>. QED
  BY <1>11, RestNext

LEMMA CancelKeeps ==
    ASSUME ReplicaInv, Cancel PROVE ReplicaInv'
<1>1. inv' = [inv EXCEPT !.cancelled = TRUE]
      /\ file' = file /\ state' = state /\ stored' = stored /\ holder' = holder /\ left' = left
      /\ fate' = fate /\ twice' = twice
  BY DEF Cancel, world, ghosts
<1>2. ReplicaType
  BY DEF ReplicaInv
<1>3. inv' \in Invocations
  BY <1>1, <1>2 DEF ReplicaType, Invocations
<1>4. /\ inv'.op = inv.op /\ inv'.phase = inv.phase /\ inv'.todo = inv.todo /\ inv'.err = inv.err
      /\ inv'.pend = inv.pend /\ inv'.want = inv.want /\ inv'.old = inv.old
      /\ inv'.listed = inv.listed /\ inv'.stopped = inv.stopped /\ inv'.removed = inv.removed
      /\ inv'.kept = inv.kept /\ inv'.held = inv.held /\ inv'.bad = inv.bad /\ inv'.rec = inv.rec
      /\ inv'.runs = inv.runs /\ inv'.was = inv.was /\ inv'.cancelled
  BY <1>1, <1>2 DEF ReplicaType, Invocations
<1>5. ReplicaType'
  BY <1>1, <1>2, <1>3, <1>4 DEF ReplicaType
<1>6. Cur' = Cur /\ IsDown' = IsDown /\ Forced' = Forced /\ Held' = Held
  BY <1>1, <1>4 DEF Cur, IsDown, Forced, Held
<1>7. ShapeOK'
  <2>1. PhaseOK' /\ PendOK' /\ StepsApart'
    BY <1>4, <1>6 DEF ReplicaInv, ShapeOK, PhaseOK, PendOK, StepsApart
  <2>2. StepsOK'
    BY <1>4, <1>6 DEF ReplicaInv, ShapeOK, StepsOK, StepOK
  <2>. QED
    BY <2>1, <2>2 DEF ShapeOK
<1>8. ValuesOK'
  <2>1. \A k \in Keys, v \in Values : (Slot(k, v)' <=> Slot(k, v)) /\ (InRec(k, v)' <=> InRec(k, v))
    BY <1>1, <1>4 DEF Slot, InHolder, InRec, InTodo
  <2>2. NothingLost' /\ NoSecondRelease'
    BY <1>1, <1>4, <1>6 DEF ReplicaInv, ValuesOK, NothingLost, NoSecondRelease
  <2>3. SlotsOK' /\ ReleasedOK'
    BY <1>1, <1>4, <1>6, <2>1 DEF ReplicaInv, ValuesOK, SlotsOK, ReleasedOK
  <2>4. RecOK'
    BY <1>1, <1>4, <1>6 DEF ReplicaInv, ValuesOK, RecOK
  <2>. QED
    BY <2>2, <2>3, <2>4 DEF ValuesOK
<1>9. \A k \in Keys : /\ AtStop(k)' = AtStop(k) /\ AtRemove(k)' = AtRemove(k) /\ (Waits(k)' <=> Waits(k))
                      /\ (ToRun(k)' <=> ToRun(k)) /\ (Settled(k)' <=> Settled(k))
  BY <1>1, <1>4, AtSame DEF Waits, ToRun, Settled
<1>10. CountsOK'
  <2>1. DownOK' /\ RetriedWhenStopped'
    BY <1>1, <1>4, <1>6, <1>9 DEF ReplicaInv, CountsOK, DownOK, RetriedWhenStopped
  <2>2. RunsOK'
    BY <1>4, <1>6, <1>9 DEF ReplicaInv, CountsOK, RunsOK
  <2>. QED
    BY <2>1, <2>2 DEF CountsOK
<1>11. OutcomesOK'
  <2>1. IsOrWasDown' = IsOrWasDown /\ Past' = Past
    BY <1>4, <1>6 DEF IsOrWasDown, Past
  <2>2. KeptStays' /\ ForcePasses' /\ ErrOK'
    BY <2>1, <1>1, <1>4 DEF ReplicaInv, OutcomesOK, KeptStays, ForcePasses, ErrOK
  <2>3. DownTrue'
    BY <2>1, <1>1, <1>4, <1>9 DEF ReplicaInv, OutcomesOK, DownTrue
  <2>4. ExecsTrue' /\ UpTrue'
    BY <2>1, <1>1, <1>4 DEF ReplicaInv, OutcomesOK, ExecsTrue, UpTrue
  <2>. QED
    BY <2>2, <2>3, <2>4 DEF OutcomesOK
<1>. QED
  BY <1>5, <1>7, <1>8, <1>10, <1>11 DEF ReplicaInv

LEMMA ReplicaEndsKeeps ==
    ASSUME ReplicaInv, ReplicaEnds PROVE ReplicaInv'
<1>1. /\ file' = file /\ stored' = stored /\ holder' = holder /\ left' = left /\ inv' = inv
      /\ fate' = fate /\ twice' = twice
      /\ state = "running" /\ state' \in {"exited", "failed", "died"}
  BY DEF ReplicaEnds, ghosts
<1>2. ReplicaType'
  BY <1>1 DEF ReplicaInv, ReplicaType, States
<1>3. ShapeOK'
  BY <1>1 DEF ReplicaInv, ShapeOK, PhaseOK, StepsOK, StepOK, StepsApart, PendOK, Cur, IsDown, Forced
<1>4. ValuesOK'
  BY <1>1 DEF ReplicaInv, ValuesOK, NothingLost, NoSecondRelease, SlotsOK, ReleasedOK, RecOK, Cur, IsDown, Held,
              Slot, InHolder, InRec, InTodo
<1>5. IsDown' = IsDown /\ Forced' = Forced /\ IsOrWasDown' = IsOrWasDown /\ Past' = Past
  BY <1>1 DEF IsDown, Forced, IsOrWasDown, Past
<1>6. \A k \in Keys : /\ AtStop(k)' = AtStop(k) /\ AtRemove(k)' = AtRemove(k) /\ (Waits(k)' <=> Waits(k))
                      /\ (ToRun(k)' <=> ToRun(k)) /\ (Settled(k)' <=> Settled(k))
  BY <1>1, AtSame DEF Waits, ToRun, Settled
<1>7. CountsOK'
  <2>1. DownOK'
    BY <1>1, <1>5, <1>6 DEF ReplicaInv, CountsOK, DownOK
  <2>2. RunsOK'
    BY <1>1, <1>5, <1>6 DEF ReplicaInv, CountsOK, RunsOK
  <2>3. RetriedWhenStopped'
    BY <1>1 DEF ReplicaInv, CountsOK, RetriedWhenStopped, VerifiedStopped
  <2>. QED
    BY <2>1, <2>2, <2>3 DEF CountsOK
<1>8. OutcomesOK'
  <2>2. KeptStays' /\ ForcePasses' /\ ErrOK'
    BY <1>1, <1>5 DEF ReplicaInv, OutcomesOK, KeptStays, ForcePasses, ErrOK
  <2>3. DownTrue'
    BY <1>1, <1>5, <1>6 DEF ReplicaInv, OutcomesOK, DownTrue
  <2>4. ExecsTrue' /\ UpTrue'
    BY <1>1, <1>5 DEF ReplicaInv, OutcomesOK, ExecsTrue, UpTrue
  <2>. QED
    BY <2>2, <2>3, <2>4 DEF OutcomesOK
<1>. QED
  BY <1>2, <1>3, <1>4, <1>7, <1>8 DEF ReplicaInv

\* The file is edited, an exec command that was left ends, or nothing happens.
LEMMA ReplicaStutters ==
    ASSUME ReplicaInv, file' \in Specs, left' = left \/ (left = "live" /\ left' = "still"),
           UNCHANGED <<state, stored, holder, inv, fate, twice>>
    PROVE  ReplicaInv'
<1>1. ReplicaType'
  <2>1. left' \in Lefts
    BY DEF ReplicaInv, ReplicaType, Lefts
  <2>. QED
    BY <2>1 DEF ReplicaInv, ReplicaType
<1>2. ShapeOK'
  BY DEF ReplicaInv, ShapeOK, PhaseOK, StepsOK, StepOK, StepsApart, PendOK, Cur, IsDown, Forced
<1>3. ValuesOK'
  BY DEF ReplicaInv, ValuesOK, NothingLost, NoSecondRelease, SlotsOK, ReleasedOK, RecOK, Cur, IsDown, Held,
              Slot, InHolder, InRec, InTodo
<1>4. CountsOK'
  BY DEF ReplicaInv, CountsOK, DownOK, RunsOK, RetriedWhenStopped, IsDown, Waits, ToRun, AtStop
<1>5. OutcomesOK'
  BY DEF ReplicaInv, OutcomesOK, KeptStays, ForcePasses, Forced, ErrOK, DownTrue, ExecsTrue, UpTrue, IsOrWasDown, IsDown,
         Past, Waits, AtStop, AtRemove, Settled
<1>. QED
  BY <1>1, <1>2, <1>3, <1>4, <1>5 DEF ReplicaInv

\* Between invocations a user sets and unsets resources.
LEMMA ResourceKeeps ==
    ASSUME ReplicaInv, inv.op = "idle", UNCHANGED <<file, state, stored, left, inv, twice>>,
           holder' \in [Keys -> HeldRecords \cup {Nothing}], fate' \in [Values -> Fates],
           HoldersOK', NothingLost'
    PROVE  ReplicaInv'
<1>1. /\ ReplicaType /\ ShapeOK /\ RecOK /\ NoSecondRelease /\ KeptStays /\ ForcePasses /\ ErrOK
  BY DEF ReplicaInv, ValuesOK, OutcomesOK
<1>2. inv.phase = "done" /\ inv.todo = <<>> /\ inv.pend = "no" /\ inv.was = "idle" /\ ~IsDown
  BY <1>1 DEF ShapeOK, PhaseOK, PendOK, IsDown
<1>3. inv.rec = NoRec
  BY <1>1, <1>2 DEF RecOK, DownOps
<1>4. ReplicaType'
  BY <1>1 DEF ReplicaType
<1>5. ShapeOK'
  BY <1>1 DEF ShapeOK, PhaseOK, StepsOK, StepOK, StepsApart, PendOK, Cur, IsDown, Forced
<1>6. Quiet'
  BY <1>1, <1>2, <1>3 DEF Quiet, NoSecondRelease
<1>7. ValuesOK'
  BY <1>6, QuietNext
<1>8. ~IsDown' /\ inv'.was \notin DownOps /\ inv'.phase # "retry"
  BY <1>2 DEF IsDown, DownOps
<1>9. ErrOK' /\ UpTrue'
  BY <1>1, <1>2 DEF ErrOK, UpTrue, IsOrWasDown, IsDown
<1>. QED
  BY <1>4, <1>5, <1>7, <1>8, <1>9, NotDownCounts, NotDownOutcomes DEF ReplicaInv

LEMMA ResourceSetKeeps ==
    ASSUME ReplicaInv, NEW k \in Keys, ResourceSet(k) PROVE ReplicaInv'
<1>1. PICK v \in Values :
        /\ fate[v] = "unused" /\ v \notin Held
        /\ holder' = [holder EXCEPT ![k] =
            IF holder[k] = Nothing THEN [value |-> v, hook |-> NoName, release |-> "none", onError |-> "fail"]
                           ELSE [holder[k] EXCEPT !.value = v]]
        /\ fate' = [u \in Values |-> IF u = v THEN "owned"
                                     ELSE IF holder[k] # Nothing /\ u = holder[k].value THEN "unused"
                                     ELSE fate[u]]
  BY DEF ResourceSet
<1>2. inv.op = "idle" /\ UNCHANGED <<file, state, stored, left, inv, twice>>
  BY DEF ResourceSet
<1>3. ReplicaType /\ NothingLost /\ inv.pend = "no"
  BY <1>2 DEF ReplicaInv, ValuesOK, ShapeOK, PhaseOK, PendOK
<1>4. HoldersOK
  BY <1>3, HoldersQuiet
<1>. DEFINE h == IF holder[k] = Nothing THEN [value |-> v, hook |-> NoName, release |-> "none", onError |-> "fail"]
                                        ELSE [holder[k] EXCEPT !.value = v]
<1>5. h \in HeldRecords /\ h.value = v
  <2>1. CASE holder[k] = Nothing
    BY <2>1 DEF HeldRecords, Names, OnErrors
  <2>2. CASE holder[k] # Nothing
    <3>1. holder[k] \in HeldRecords
      BY <2>2, <1>3 DEF ReplicaType
    <3>. QED
      BY <2>2, <3>1 DEF HeldRecords
  <2>. QED
    BY <2>1, <2>2
<1>6. holder' = [holder EXCEPT ![k] = h]
  BY <1>1
<1>. HIDE DEF h
<1>7. holder \in [Keys -> HeldRecords \cup {Nothing}] /\ fate \in [Values -> Fates]
  BY <1>3 DEF ReplicaType
<1>8. holder' \in [Keys -> HeldRecords \cup {Nothing}] /\ fate' \in [Values -> Fates]
  BY <1>1, <1>5, <1>6, <1>7 DEF Fates
<1>9. h # Nothing
  BY <1>5, NothingFacts
<1>10. \A m \in Keys : holder'[m] = (IF m = k THEN h ELSE holder[m])
  BY <1>6, <1>7
<1>11. \A u \in Values : fate'[u] = (IF u = v THEN "owned"
                                     ELSE IF holder[k] # Nothing /\ u = holder[k].value THEN "unused"
                                     ELSE fate[u])
  BY <1>1
<1>12. \A m \in Keys : holder[m] # Nothing => holder[m].value # v /\ holder[m].value \in Values
  BY <1>1, <1>7 DEF Held, HeldRecords
<1>13. HoldersOK'
  <2>1. ASSUME NEW a \in Keys, NEW b \in Keys, holder'[a] # Nothing, holder'[b] # Nothing
        PROVE  a = b <=> holder'[a].value = holder'[b].value
    BY ONLY <2>1, <1>5, <1>10, <1>12, <1>4, k \in Keys DEF HoldersOK
  <2>2. ASSUME NEW a \in Keys, holder'[a] # Nothing PROVE fate'[holder'[a].value] # "released"
    BY ONLY <2>2, <1>5, <1>10, <1>11, <1>12, <1>4, k \in Keys, v \in Values DEF HoldersOK
  <2>. QED
    BY <2>1, <2>2 DEF HoldersOK
<1>14. NothingLost'
  <2>1. SUFFICES ASSUME NEW u \in Values, fate'[u] = "owned"
                 PROVE  \E m \in Keys : holder'[m] # Nothing /\ holder'[m].value = u
    BY DEF NothingLost, Held
  <2>2. CASE u = v
    BY <2>2, <1>5, <1>9, <1>10
  <2>3. CASE u # v
    <3>1. fate[u] = "owned" /\ ~(holder[k] # Nothing /\ u = holder[k].value)
      BY <2>1, <2>3, <1>11
    <3>2. PICK m \in Keys : holder[m] # Nothing /\ holder[m].value = u
      BY <3>1, <1>3, ValuesAssumption DEF NothingLost, Held
    <3>. QED
      BY <3>1, <3>2, <1>10
  <2>. QED
    BY <2>2, <2>3
<1>. QED
  BY <1>2, <1>8, <1>13, <1>14, ResourceKeeps

LEMMA ResourceUnsetKeeps ==
    ASSUME ReplicaInv, NEW k \in Keys, ResourceUnset(k) PROVE ReplicaInv'
<1>1. /\ inv.op = "idle" /\ holder[k] # Nothing /\ holder' = [holder EXCEPT ![k] = Nothing]
      /\ fate' = [fate EXCEPT ![holder[k].value] = "unused"]
      /\ UNCHANGED <<file, state, stored, left, inv, twice>>
  BY DEF ResourceUnset
<1>2. ReplicaType /\ NothingLost /\ inv.pend = "no"
  BY <1>1 DEF ReplicaInv, ValuesOK, ShapeOK, PhaseOK, PendOK
<1>3. HoldersOK
  BY <1>2, HoldersQuiet
<1>4. holder \in [Keys -> HeldRecords \cup {Nothing}] /\ fate \in [Values -> Fates]
  BY <1>2 DEF ReplicaType
<1>5. holder' \in [Keys -> HeldRecords \cup {Nothing}] /\ fate' \in [Values -> Fates]
  BY <1>1, <1>4 DEF Fates
<1>6. \A m \in Keys : holder'[m] = (IF m = k THEN Nothing ELSE holder[m])
  BY <1>1, <1>4
<1>7. \A m \in Keys : holder[m] # Nothing => holder[m].value \in Values
  BY <1>4 DEF HeldRecords
<1>8. \A u \in Values : fate'[u] = (IF u = holder[k].value THEN "unused" ELSE fate[u])
  BY <1>1, <1>4
<1>9. HoldersOK'
  BY <1>3, <1>6, <1>7, <1>8 DEF HoldersOK
<1>10. NothingLost'
  <2>1. SUFFICES ASSUME NEW u \in Values, fate'[u] = "owned"
                 PROVE  \E m \in Keys : holder'[m] # Nothing /\ holder'[m].value = u
    BY DEF NothingLost, Held
  <2>2. fate[u] = "owned" /\ u # holder[k].value
    BY <2>1, <1>8
  <2>3. PICK m \in Keys : holder[m] # Nothing /\ holder[m].value = u
    BY <2>2, <1>2, ValuesAssumption DEF NothingLost, Held
  <2>. QED
    BY <2>2, <2>3, <1>6
<1>. QED
  BY <1>1, <1>5, <1>9, <1>10, ResourceKeeps

LEMMA NextKeeps ==
    ASSUME ReplicaInv, Next PROVE ReplicaInv'
<1>1. CASE PhaseActions
  BY <1>1, PhaseMoves, TransitionKeeps
<1>2. CASE LookupFails \/ ExecFails \/ ExecWorks \/ Record \/ RecordFails
  BY <1>2, LookupFailsKeeps, ExecFailsKeeps, ExecWorksKeeps, RecordKeeps, RecordFailsKeeps
<1>3. CASE CreateWorks \/ StartWorks \/ StopWorks \/ RemoveWorks \/ OpFails
  BY <1>3, CreateWorksKeeps, StartWorksKeeps, StopWorksKeeps, RemoveWorksKeeps, OpFailsKeeps
<1>4. CASE EditFile \/ ExecEnds
  <2>1. file' \in Specs
    BY <1>4 DEF EditFile, ExecEnds, ReplicaInv, ReplicaType
  <2>. QED
    BY <1>4, <2>1, ReplicaStutters DEF EditFile, ExecEnds, ghosts
<1>5. CASE Return \/ Cancel \/ Crash \/ ReplicaEnds
  BY <1>5, ReturnKeeps, CancelKeeps, CrashKeeps, ReplicaEndsKeeps
<1>6. CASE \E op \in Operations : Begin(op)
  BY <1>6, BeginKeeps
<1>7. CASE \E k \in Keys : ResourceSet(k) \/ ResourceUnset(k)
  BY <1>7, ResourceSetKeeps, ResourceUnsetKeeps
<1>. QED
  BY <1>1, <1>2, <1>3, <1>4, <1>5, <1>6, <1>7 DEF Next, PhaseActions

LEMMA ComposeKeepsReplica ==
    ASSUME ReplicaInv, [ComposeNext]_composeVars PROVE ReplicaInv'
<1>1. CASE Next
  BY <1>1, NextKeeps
<1>2. CASE UNCHANGED vars
  <2>1. UNCHANGED <<state, stored, holder, left, inv, fate, twice>> /\ file' = file
    BY <1>2 DEF vars, world, ghosts
  <2>2. file' \in Specs
    BY <2>1 DEF ReplicaInv, ReplicaType
  <2>. QED
    BY <2>1, <2>2, ReplicaStutters
<1>. QED
  BY <1>1, <1>2 DEF ComposeNext, composeVars, ReplicaSteps

LEMMA ResourcesFollow == ReplicaInv => ResourceSafety
<1>1. SUFFICES ASSUME ReplicaInv PROVE ResourceSafety
  OBVIOUS
<1>2. ReplicaType /\ NothingLost /\ NoSecondRelease /\ RetriedWhenStopped /\ RunsOK /\ ShapeOK
  BY <1>1 DEF ReplicaInv, ValuesOK, CountsOK
<1>3. TypeOK
  <2>1. HeldRecords \subseteq HolderRecords
    BY EventNames DEF HeldRecords, HolderRecords
  <2>2. holder \in [Keys -> Holders]
    BY <2>1, <1>2 DEF ReplicaType, Holders
  <2>. QED
    BY <2>2, <1>2 DEF TypeOK, ReplicaType, Invocations
<1>4. TwiceAtMost
  <2>1. SUFFICES ASSUME IsDown \/ inv.was \in DownOps, NEW k \in Keys PROVE inv.runs[k] <= 2
    BY DEF TwiceAtMost, DownOps
  <2>2. inv.runs[k] \in Nat
    BY <1>2 DEF ReplicaType, Invocations
  <2>3. CASE inv.was \in DownOps
    BY <2>3, <1>2 DEF RunsOK
  <2>4. CASE IsDown
    <3>1. inv.phase \in {"list", "snapshot", "stop", "retry", "remove", "strand", "stranded"}
      BY <2>4, <1>1 DEF ReplicaInv, CountsOK, DownOK
    <3>. QED
      BY <3>1, <2>2, <2>4, <1>2 DEF RunsOK
  <2>. QED
    BY <2>1, <2>3, <2>4
<1>. QED
  BY <1>2, <1>3, <1>4 DEF ResourceSafety

LEMMA VerbsFollow == ReplicaInv => VerbsTrue
<1>1. SUFFICES ASSUME ReplicaInv PROVE VerbsTrue
  OBVIOUS
<1>2. ReplicaType /\ ShapeOK /\ KeptStays /\ ForcePasses /\ DownTrue /\ ExecsTrue /\ UpTrue
  BY <1>1 DEF ReplicaInv, OutcomesOK
<1>3. inv.op = "over" => inv.phase = "done" /\ inv.todo = <<>>
  BY <1>2 DEF ShapeOK, PhaseOK
<1>4. DownReleases
  <2>1. SUFFICES ASSUME Succeeded({"down", "force"}), NEW k \in Keys,
                        holder[k] # Nothing, holder[k].release # "none", inv.rec[k] = Nothing
                 PROVE  inv.listed /\ ~StoredHookReleases(k)
    BY DEF DownReleases, Unreported
  <2>2. inv.phase = "done" /\ Past /\ IsOrWasDown /\ ~inv.bad /\ inv.was # "downcmd" /\ ~Waits(k) /\ ~Settled(k)
    <3>1. DOMAIN inv.todo = {}
      BY <2>1, <1>3 DEF Succeeded
    <3>. QED
      BY <3>1, <2>1, <1>3 DEF Succeeded, Past, IsOrWasDown, DownOps, Waits, Settled
  <2>3. inv.listed
    BY <2>1, <2>2, <1>2 DEF DownTrue
  <2>4. ~AtRemove(k)
    BY <2>2, <2>3, <1>2 DEF DownTrue
  <2>5. AtStop(k) => ~inv.stopped
    BY <2>2, <1>2 DEF DownTrue
  <2>6. ~inv.stopped => ~ReleasedAtStop(holder[k])
    BY <2>1, <2>2, <1>2 DEF DownTrue
  <2>7. holder[k].release \in RelEvents
    BY <2>1, <1>2 DEF ReplicaType, HeldRecords
  <2>8. ~StoredHookReleases(k)
    BY <2>4, <2>5, <2>6, <2>7 DEF StoredHookReleases, AtRemove, AtStop, ReleasedAtStop, RelEvents
  <2>. QED
    BY <2>3, <2>8
<1>5. ExecsGo
  BY <1>2, <1>3 DEF ExecsGo, ExecsTrue, Past, IsOrWasDown, DownOps, Unreported
<1>6. UpConverges
  BY <1>2 DEF UpConverges, Succeeded, UpTrue
<1>. QED
  BY <1>2, <1>4, <1>5, <1>6 DEF VerbsTrue, DownSafety

\* The invariant of a replica (its steps belong to their phase, no value is in
\* two places, each release is counted, what a verb will report is true) holds
\* in every state that up, start, stop, restart, a removal and down reach.
THEOREM ReplicaInvariant == ComposeSpec => []ReplicaInv
<1>1. ComposeInit => ReplicaInv
  BY InitInv DEF ComposeInit
<1>2. ReplicaInv /\ [ComposeNext]_composeVars => ReplicaInv'
  BY ComposeKeepsReplica
<1>. QED
  BY <1>1, <1>2, PTL DEF ComposeSpec

\* Whatever fails, is cancelled or dies on the way, no resource a hook acquired
\* is lost, none is released a second time, no release runs more than twice in
\* one down, and a failed one is tried again only after a verified stop.
THEOREM ResourcesAreSafe == ComposeSpec => []ResourceSafety
BY ReplicaInvariant, ResourcesFollow, PTL

\* A down keeps the replica whose stop hooks failed, a forced one is held up by
\* no hook, and one that reports success has released what it is silent about;
\* one that removed the replica leaves no exec command but those it found running,
\* logged as not removed, or ran for a release it reports; an up that reports
\* success has started the replica the file describes.
THEOREM VerbsAreTrue == ComposeSpec => []VerbsTrue
BY ReplicaInvariant, VerbsFollow, PTL

-----------------------------------------------------------------------------
(* The logs of a project                                                   *)

Views ==
    [phase : {"idle", "stock", "live", "over", "cut"}, follow : BOOLEAN, now : Nat, was : [Tailed -> Nat],
     failed : SUBSET Tailed, ended : SUBSET Tailed, pos : [Tailed -> Nat], out : Seq(Nat),
     step : [Tailed -> {"none", "opening", "scanned", "marked", "ready", "following"}],
     mark : [Tailed -> Nat], scan : [Tailed -> Nat], from : [Tailed -> Nat],
     gap : SUBSET Nat, tail : SUBSET Nat, twice : BOOLEAN]

LogsType ==
    /\ clock \in Nat /\ logs \in [Tailed -> Seq(Nat)] /\ writing \in [Tailed -> SUBSET Nat]
    /\ view \in Views

\* No time is that of two records, written or not.
TimesApart ==
    /\ \A r \in Tailed : \A t \in writing[r] : t <= clock
    /\ \A r, q \in Tailed : r # q => writing[r] \cap writing[q] = {}
    /\ \A r \in Tailed : \A i \in DOMAIN logs[r] :
          logs[r][i] <= clock /\ \A q \in Tailed : logs[r][i] \notin writing[q]
    /\ \A r, q \in Tailed : \A i \in DOMAIN logs[r], j \in DOMAIN logs[q] :
          logs[r][i] = logs[q][j] => r = q /\ i = j

\* The readers are within their logs.
ReadersOK ==
    /\ \A r \in Tailed : view.pos[r] <= Len(logs[r]) /\ view.was[r] <= Len(logs[r])
    /\ \A r \in Tailed :
        /\ view.step[r] \in {"marked", "ready"} => view.pos[r] <= view.mark[r] /\ view.mark[r] <= Len(logs[r])
        /\ view.step[r] \in {"scanned", "ready"} => view.scan[r] <= Len(logs[r])
        /\ view.step[r] = "following" => view.pos[r] <= view.from[r] /\ view.from[r] <= Len(logs[r])
        /\ view.step[r] # "none" => view.phase = "live"

\* What the stock has put out is what its readers have read, once each.
StockOK ==
    /\ view.phase \in {"idle", "cut"} => view.out = <<>> /\ view.ended = {}
    /\ view.phase = "live" => view.follow
    /\ \A n \in DOMAIN view.out : \E r \in Tailed : \E i \in 1 .. view.pos[r] : view.out[n] = logs[r][i]
    /\ \A r \in Tailed : \A i \in 1 .. view.pos[r] : \E n \in DOMAIN view.out : view.out[n] = logs[r][i]
    /\ \A i, j \in DOMAIN view.out : i # j => view.out[i] # view.out[j]
    /\ view.follow => \A r \in Tailed : \A i \in 1 .. view.pos[r] : logs[r][i] <= view.now
    /\ view.phase # "idle" => \A r \in Tailed : \A i \in 1 .. view.was[r] : logs[r][i] <= view.now
    /\ \A r \in view.ended : view.was[r] <= view.pos[r]
    /\ view.phase \in {"live", "over"} => Tailed \subseteq view.failed \cup view.ended

\* What the stream has put out is what its followers have come past.
StreamOK ==
    /\ ~view.twice
    /\ \A t \in view.tail : \E r \in Tailed :
          view.step[r] = "following" /\ \E i \in 1 .. view.from[r] : logs[r][i] = t
    /\ StreamWhole

\* As long as each log is in order, so is the stock, and what is yet to come of
\* a reader is not older than anything put out.
LogsSorted == \A r \in Tailed : \A i, j \in 1 .. Len(logs[r]) : i < j => logs[r][i] < logs[r][j]
OrderOK ==
    LogsSorted =>
        /\ \A i, j \in DOMAIN view.out : i < j => view.out[i] < view.out[j]
        /\ view.phase = "stock" => \A r \in Tailed \ (view.failed \cup view.ended) : \A n \in DOMAIN view.out :
              IF view.pos[r] < Len(logs[r]) THEN view.out[n] < logs[r][view.pos[r] + 1]
              ELSE view.pos[r] > 0 /\ view.out[n] <= logs[r][view.pos[r]]

LogsInv == LogsType /\ TimesApart /\ ReadersOK /\ StockOK /\ StreamOK /\ OrderOK

LEMMA LogsInitInv == LogsInit => LogsInv
<1>1. SUFFICES ASSUME LogsInit PROVE LogsInv
  OBVIOUS
<1>2. clock = 0 /\ logs = [r \in Tailed |-> <<>>] /\ writing = [r \in Tailed |-> {}]
  BY <1>1 DEF LogsInit
<1>3. /\ AtStart \in [Tailed -> Nat] /\ \A r \in Tailed : AtStart[r] = 0
      /\ <<>> \in Seq(Nat) /\ DOMAIN <<>> = {} /\ Len(<<>>) = 0
  BY DEF AtStart
<1>4. view \in Views
  BY <1>1, <1>3 DEF LogsInit, NoView, Views
<1>5. /\ view.phase = "idle" /\ ~view.follow /\ view.out = <<>> /\ view.was = AtStart /\ view.pos = AtStart
      /\ view.ended = {} /\ view.tail = {} /\ ~view.twice
      /\ \A r \in Tailed : view.step[r] = "none"
  BY <1>1 DEF LogsInit, NoView
<1>6. LogsType
  BY <1>2, <1>3, <1>4 DEF LogsType
<1>7. \A r \in Tailed : logs[r] = <<>> /\ writing[r] = {} /\ DOMAIN logs[r] = {} /\ Len(logs[r]) = 0
  BY <1>2
<1>8. TimesApart
  BY <1>7 DEF TimesApart
<1>9. ReadersOK
  BY <1>3, <1>5, <1>7 DEF ReadersOK
<1>10. DOMAIN view.out = {} /\ \A r \in Tailed : 1 .. view.pos[r] = {}
  BY <1>3, <1>5
<1>11. StockOK
  BY <1>5, <1>10 DEF StockOK
<1>12. StreamOK
  BY <1>5 DEF StreamOK, StreamWhole
<1>13. OrderOK
  BY <1>5, <1>10 DEF OrderOK
<1>. QED
  BY <1>6, <1>8, <1>9, <1>11, <1>12, <1>13 DEF LogsInv

LEMMA StampsKeeps ==
    ASSUME LogsInv, NEW r \in Tailed, Stamps(r) PROVE LogsInv'
<1>1. /\ LogsType /\ TimesApart /\ clock' = clock + 1 /\ writing' = [writing EXCEPT ![r] = @ \cup {clock + 1}]
      /\ logs' = logs /\ view' = view
  BY DEF LogsInv, Stamps
<1>2. clock \in Nat /\ logs \in [Tailed -> Seq(Nat)] /\ writing \in [Tailed -> SUBSET Nat] /\ view \in Views
  BY <1>1 DEF LogsType
<1>3. LogsType'
  BY <1>1, <1>2 DEF LogsType
<1>4. \A q \in Tailed : writing'[q] = (IF q = r THEN writing[q] \cup {clock + 1} ELSE writing[q])
  BY <1>1, <1>2
<1>5. \A q \in Tailed : clock + 1 \notin writing[q] /\ \A i \in DOMAIN logs[q] : logs[q][i] # clock + 1 /\ logs[q][i] \in Nat
  BY <1>1, <1>2 DEF TimesApart
<1>6. TimesApart'
  <2>1. ASSUME NEW q \in Tailed, NEW t \in writing'[q] PROVE t <= clock'
    BY <2>1, <1>1, <1>2, <1>4 DEF TimesApart
  <2>2. ASSUME NEW p \in Tailed, NEW q \in Tailed, p # q PROVE writing'[p] \cap writing'[q] = {}
    BY <2>2, <1>1, <1>4, <1>5 DEF TimesApart
  <2>3. ASSUME NEW q \in Tailed, NEW i \in DOMAIN logs'[q], NEW p \in Tailed
        PROVE  logs'[q][i] <= clock' /\ logs'[q][i] \notin writing'[p]
    <3>1. logs[q][i] \in Nat /\ logs[q][i] <= clock /\ logs[q][i] \notin writing[p] /\ logs[q][i] # clock + 1
      BY <1>1, <1>5 DEF TimesApart
    <3>. QED
      BY <3>1, <1>1, <1>2, <1>4
  <2>4. \A p, q \in Tailed : \A i \in DOMAIN logs'[p], j \in DOMAIN logs'[q] :
          logs'[p][i] = logs'[q][j] => p = q /\ i = j
    BY <1>1 DEF TimesApart
  <2>. QED
    BY <2>1, <2>2, <2>3, <2>4 DEF TimesApart
<1>7. ReadersOK' /\ StockOK'
  BY <1>1 DEF LogsInv, ReadersOK, StockOK
<1>8. StreamOK' /\ OrderOK'
  BY <1>1 DEF LogsInv, StreamOK, StreamWhole, Upto, OrderOK, LogsSorted
<1>. QED
  BY <1>3, <1>6, <1>7, <1>8 DEF LogsInv

LEMMA WritesKeeps ==
    ASSUME LogsInv, NEW r \in Tailed, Writes(r) PROVE LogsInv'
<1>1. LogsType /\ TimesApart /\ ReadersOK /\ StockOK /\ StreamOK /\ OrderOK /\ clock' = clock /\ view' = view
  BY DEF LogsInv, Writes
<1>2. PICK t \in writing[r] : logs' = [logs EXCEPT ![r] = Append(logs[r], t)] /\ writing' = [writing EXCEPT ![r] = writing[r] \ {t}]
  BY DEF Writes
<1>3. clock \in Nat /\ logs \in [Tailed -> Seq(Nat)] /\ writing \in [Tailed -> SUBSET Nat] /\ view \in Views /\ t \in Nat
  BY <1>1, <1>2 DEF LogsType
<1>. DEFINE len == Len(logs[r])
<1>4. /\ \A q \in Tailed : q # r => logs'[q] = logs[q] /\ writing'[q] = writing[q]
      /\ logs'[r] = Append(logs[r], t) /\ writing'[r] = writing[r] \ {t}
  BY <1>2, <1>3
<1>5. /\ logs'[r] \in Seq(Nat) /\ Len(logs'[r]) = len + 1 /\ DOMAIN logs'[r] = 1 .. len + 1 /\ logs'[r][len + 1] = t
      /\ \A i \in 1 .. len : logs'[r][i] = logs[r][i]
      /\ len \in Nat /\ DOMAIN logs[r] = 1 .. len
  BY <1>3, <1>4
<1>6. ASSUME NEW q \in Tailed
      PROVE  /\ logs[q] \in Seq(Nat) /\ logs'[q] \in Seq(Nat)
             /\ Len(logs[q]) \in Nat /\ DOMAIN logs[q] = 1 .. Len(logs[q])
             /\ Len(logs'[q]) \in Nat /\ DOMAIN logs'[q] = 1 .. Len(logs'[q])
             /\ Len(logs[q]) <= Len(logs'[q]) /\ \A i \in 1 .. Len(logs[q]) : logs'[q][i] = logs[q][i]
  <2>1. CASE q = r
    BY <2>1, <1>3, <1>5
  <2>2. CASE q # r
    <3>1. logs'[q] = logs[q] /\ logs[q] \in Seq(Nat)
      BY <2>2, <1>3, <1>4
    <3>. QED
      BY <3>1
  <2>. QED
    BY <2>1, <2>2
<1>. HIDE DEF len
<1>7. LogsType'
  <2>1. logs' \in [Tailed -> Seq(Nat)] /\ writing' \in [Tailed -> SUBSET Nat]
    BY <1>2, <1>3, <1>4, <1>5
  <2>. QED
    BY <2>1, <1>1, <1>3 DEF LogsType
<1>8. ASSUME NEW q \in Tailed, NEW i \in DOMAIN logs'[q]
      PROVE  \/ i \in DOMAIN logs[q] /\ logs'[q][i] = logs[q][i] /\ logs[q][i] # t
             \/ q = r /\ i = len + 1 /\ logs'[q][i] = t
  <2>1. \A p \in Tailed, j \in DOMAIN logs[q] : logs[q][j] \notin writing[p]
    BY <1>1 DEF TimesApart
  <2>2. CASE q = r
    <3>1. i \in 1 .. len \/ i = len + 1
      BY <2>2, <1>5
    <3>. QED
      BY <3>1, <2>1, <2>2, <1>2, <1>5
  <2>3. CASE q # r
    BY <2>1, <2>3, <1>2, <1>4
  <2>. QED
    BY <2>2, <2>3
<1>9. TimesApart'
  <2>1. \A q \in Tailed : writing'[q] \subseteq writing[q] /\ t \notin writing'[q]
    BY <1>1, <1>2, <1>4 DEF TimesApart
  <2>2. t <= clock
    BY <1>1, <1>2 DEF TimesApart
  <2>3. ASSUME NEW q \in Tailed, NEW i \in DOMAIN logs'[q], NEW p \in Tailed
        PROVE  logs'[q][i] <= clock' /\ logs'[q][i] \notin writing'[p]
    BY <2>1, <2>2, <1>1, <1>8 DEF TimesApart
  <2>4. ASSUME NEW p \in Tailed, NEW q \in Tailed, NEW i \in DOMAIN logs'[p], NEW j \in DOMAIN logs'[q],
               logs'[p][i] = logs'[q][j]
        PROVE  p = q /\ i = j
    BY <2>4, <1>1, <1>8 DEF TimesApart
  <2>. QED
    BY <2>1, <2>3, <2>4, <1>1 DEF TimesApart
<1>10. \A q \in Tailed : /\ view.pos[q] \in Nat /\ view.was[q] \in Nat /\ view.mark[q] \in Nat /\ view.scan[q] \in Nat
                         /\ view.from[q] \in Nat
  BY <1>3 DEF Views
<1>11. ReadersOK'
  <2>1. ASSUME NEW q \in Tailed
        PROVE  /\ view.pos[q] <= Len(logs'[q]) /\ view.was[q] <= Len(logs'[q])
               /\ view.mark[q] <= Len(logs[q]) => view.mark[q] <= Len(logs'[q])
               /\ view.scan[q] <= Len(logs[q]) => view.scan[q] <= Len(logs'[q])
               /\ view.from[q] <= Len(logs[q]) => view.from[q] <= Len(logs'[q])
    <3>1. view.pos[q] <= Len(logs[q]) /\ view.was[q] <= Len(logs[q])
      BY <1>1 DEF ReadersOK
    <3>2. Len(logs[q]) \in Nat /\ Len(logs'[q]) \in Nat /\ Len(logs[q]) <= Len(logs'[q])
      BY <1>6
    <3>. QED
      BY ONLY <3>1, <3>2, <1>10, q \in Tailed
  <2>. QED
    BY <2>1, <1>1 DEF ReadersOK
<1>12. \A q \in Tailed : /\ \A i \in 1 .. view.pos[q] : logs'[q][i] = logs[q][i]
                         /\ \A i \in 1 .. view.was[q] : logs'[q][i] = logs[q][i]
                         /\ view.step[q] = "following" => \A i \in 1 .. view.from[q] : logs'[q][i] = logs[q][i]
  <2>1. ASSUME NEW q \in Tailed, NEW n \in Nat, n <= Len(logs[q]) PROVE \A i \in 1 .. n : logs'[q][i] = logs[q][i]
    <3>1. Len(logs[q]) \in Nat /\ \A i \in 1 .. Len(logs[q]) : logs'[q][i] = logs[q][i]
      BY <1>6
    <3>. QED
      BY ONLY <3>1, n \in Nat, n <= Len(logs[q])
  <2>. QED
    BY <2>1, <1>1, <1>10 DEF ReadersOK
<1>13. StockOK'
  BY <1>1, <1>12 DEF StockOK
<1>14. StreamOK'
  BY <1>1, <1>12 DEF StreamOK, StreamWhole, Upto
<1>15. OrderOK'
  <2>1. SUFFICES ASSUME LogsSorted'
                 PROVE  /\ \A i, j \in DOMAIN view'.out : i < j => view'.out[i] < view'.out[j]
                        /\ view'.phase = "stock" => \A q \in Tailed \ (view'.failed \cup view'.ended) : \A n \in DOMAIN view'.out :
                              IF view'.pos[q] < Len(logs'[q]) THEN view'.out[n] < logs'[q][view'.pos[q] + 1]
                              ELSE view'.pos[q] > 0 /\ view'.out[n] <= logs'[q][view'.pos[q]]
    BY DEF OrderOK
  <2>2. LogsSorted
    <3>1. SUFFICES ASSUME NEW q \in Tailed, NEW i \in 1 .. Len(logs[q]), NEW j \in 1 .. Len(logs[q]), i < j
                   PROVE  logs[q][i] < logs[q][j]
      BY DEF LogsSorted
    <3>2. logs'[q][i] = logs[q][i] /\ logs'[q][j] = logs[q][j] /\ i \in 1 .. Len(logs'[q]) /\ j \in 1 .. Len(logs'[q])
      <4>1. /\ Len(logs[q]) \in Nat /\ Len(logs'[q]) \in Nat /\ Len(logs[q]) <= Len(logs'[q])
            /\ \A m \in 1 .. Len(logs[q]) : logs'[q][m] = logs[q][m]
        BY <1>6
      <4>. QED
        BY ONLY <4>1, i \in 1 .. Len(logs[q]), j \in 1 .. Len(logs[q])
    <3>. QED
      BY <3>1, <3>2, <2>1 DEF LogsSorted
  <2>3. ASSUME view.phase = "stock", NEW q \in Tailed \ (view.failed \cup view.ended), NEW n \in DOMAIN view.out
        PROVE  IF view.pos[q] < Len(logs'[q]) THEN view.out[n] < logs'[q][view.pos[q] + 1]
               ELSE view.pos[q] > 0 /\ view.out[n] <= logs'[q][view.pos[q]]
    <3>1. IF view.pos[q] < Len(logs[q]) THEN view.out[n] < logs[q][view.pos[q] + 1]
          ELSE view.pos[q] > 0 /\ view.out[n] <= logs[q][view.pos[q]]
      BY <2>2, <2>3, <1>1 DEF OrderOK
    <3>2. view.out[n] \in Nat /\ view.pos[q] \in Nat /\ view.pos[q] <= Len(logs[q])
      <4>1. view.out \in Seq(Nat)
        BY <1>3 DEF Views
      <4>. QED
        BY <4>1, <1>1, <1>10 DEF ReadersOK
    <3>3. CASE view.pos[q] < Len(logs[q])
      <4>1. Len(logs[q]) \in Nat /\ Len(logs'[q]) \in Nat /\ Len(logs[q]) <= Len(logs'[q])
        BY <1>6
      <4>2. view.pos[q] + 1 \in 1 .. Len(logs[q]) /\ view.pos[q] < Len(logs'[q])
        BY ONLY <4>1, <3>2, <3>3
      <4>3. logs'[q][view.pos[q] + 1] = logs[q][view.pos[q] + 1]
        BY <4>2, <1>6
      <4>. QED
        BY <4>2, <4>3, <3>1, <3>3
    <3>4. CASE view.pos[q] = Len(logs[q])
      <4>1. view.pos[q] > 0 /\ view.out[n] <= logs[q][view.pos[q]] /\ logs'[q][view.pos[q]] = logs[q][view.pos[q]]
        BY <3>1, <3>2, <3>4, <1>6
      <4>2. CASE Len(logs'[q]) = Len(logs[q])
        BY <4>1, <4>2, <3>4, <3>2
      <4>3. CASE Len(logs'[q]) > Len(logs[q])
        <5>1. /\ view.pos[q] \in 1 .. Len(logs'[q]) /\ view.pos[q] + 1 \in 1 .. Len(logs'[q])
              /\ view.pos[q] < view.pos[q] + 1
          BY <4>1, <4>3, <3>4, <3>2, <1>6
        <5>2. logs'[q][view.pos[q]] < logs'[q][view.pos[q] + 1]
          BY <5>1, <2>1 DEF LogsSorted
        <5>3. logs'[q][view.pos[q]] \in Nat /\ logs'[q][view.pos[q] + 1] \in Nat
          <6>1. logs'[q] \in Seq(Nat) /\ DOMAIN logs'[q] = 1 .. Len(logs'[q])
            BY <1>6
          <6>2. \A i \in 1 .. Len(logs'[q]) : logs'[q][i] \in Nat
            BY ONLY <6>1
          <6>. QED
            BY ONLY <5>1, <6>2
        <5>4. view.out[n] < logs'[q][view.pos[q] + 1]
          <6>1. logs'[q][view.pos[q]] = logs[q][view.pos[q]] /\ view.out[n] <= logs'[q][view.pos[q]]
            BY <4>1
          <6>. QED
            BY ONLY <6>1, <5>2, <5>3, <3>2
        <5>. QED
          BY ONLY <5>4, <4>3, <3>4
      <4>. QED
        BY <4>2, <4>3, <1>6
    <3>. QED
      BY <3>2, <3>3, <3>4, <1>6
  <2>. QED
    BY <2>2, <2>3, <1>1 DEF OrderOK
<1>. QED
  BY <1>7, <1>9, <1>11, <1>13, <1>14, <1>15 DEF LogsInv

\* The readers' places are in their logs.
LEMMA PlacesFacts ==
    ASSUME LogsInv, NEW r \in Tailed
    PROVE  /\ logs[r] \in Seq(Nat) /\ Len(logs[r]) \in Nat /\ DOMAIN logs[r] = 1 .. Len(logs[r])
           /\ \A i \in 1 .. Len(logs[r]) : logs[r][i] \in Nat
           /\ view.pos[r] \in Nat /\ view.pos[r] <= Len(logs[r])
<1>1. logs[r] \in Seq(Nat)
  BY DEF LogsInv, LogsType
<1>2. view.pos[r] \in Nat /\ view.pos[r] <= Len(logs[r])
  BY DEF Views, LogsInv, LogsType, ReadersOK
<1>. QED
  BY <1>1, <1>2

\* The logs stay, and so does what the monitors keep of them.
LEMMA LogsRest ==
    ASSUME LogsInv, UNCHANGED <<clock, logs, writing>>, view' \in Views
    PROVE  LogsType' /\ TimesApart' /\ (LogsSorted' <=> LogsSorted)
BY DEF LogsInv, LogsType, TimesApart, LogsSorted

LEMMA LogsBeginKeeps ==
    ASSUME LogsInv, LogsBegin PROVE LogsInv'
<1>1. LogsType /\ TimesApart /\ ReadersOK /\ StockOK /\ StreamOK /\ UNCHANGED <<clock, logs, writing>> /\ view.phase = "idle"
      /\ view \in Views /\ clock \in Nat
  BY DEF LogsInv, LogsBegin, LogsType
<1>2. PICK follow \in BOOLEAN, failed \in SUBSET Tailed :
        view' = [view EXCEPT !.phase = "stock", !.follow = follow, !.now = clock,
                             !.was = [r \in Tailed |-> Len(logs[r])], !.failed = failed]
  BY DEF LogsBegin
<1>. DEFINE lens == [r \in Tailed |-> Len(logs[r])]
<1>3. lens \in [Tailed -> Nat] /\ \A r \in Tailed : lens[r] = Len(logs[r])
  BY <1>1 DEF LogsType
<1>4. view' = [view EXCEPT !.phase = "stock", !.follow = follow, !.now = clock, !.was = lens, !.failed = failed]
  BY <1>2
<1>. HIDE DEF lens
<1>5. view' \in Views
  BY <1>1, <1>3, <1>4 DEF Views
<1>6. /\ view'.phase = "stock" /\ view'.now = clock /\ view'.was = lens /\ view'.pos = view.pos /\ view'.out = view.out
      /\ view'.ended = view.ended /\ view'.step = view.step /\ view'.tail = view.tail /\ view'.twice = view.twice
      /\ view'.gap = view.gap /\ view'.from = view.from
  BY <1>1, <1>4 DEF Views
<1>7. /\ LogsType' /\ TimesApart'
      /\ \A r \in Tailed : /\ logs[r] \in Seq(Nat) /\ Len(logs[r]) \in Nat /\ DOMAIN logs[r] = 1 .. Len(logs[r])
      /\ \A r \in Tailed : view.pos[r] \in Nat /\ view.pos[r] <= Len(logs[r])
  BY <1>1, <1>5, LogsRest, PlacesFacts
<1>8. \A r \in Tailed : view.step[r] = "none"
  BY <1>1 DEF ReadersOK
<1>9. ReadersOK'
  BY <1>1, <1>3, <1>6, <1>7, <1>8 DEF ReadersOK
<1>10. view.out = <<>> /\ DOMAIN view.out = {} /\ \A r \in Tailed : view.pos[r] = 0
  <2>1. view.out = <<>> /\ DOMAIN view.out = {}
    BY <1>1 DEF StockOK
  <2>2. \A r \in Tailed : 1 .. view.pos[r] = {}
    BY <2>1, <1>1 DEF StockOK
  <2>3. ASSUME NEW r \in Tailed, view.pos[r] # 0 PROVE FALSE
    BY <2>2, <2>3, <1>7
  <2>. QED
    BY <2>1, <2>3
<1>11. StockOK'
  <2>3. \A r \in Tailed : \A i \in 1 .. Len(logs[r]) : logs[r][i] <= clock
    BY <1>1, <1>7 DEF TimesApart
  <2>4. view.ended = {}
    BY <1>1 DEF StockOK
  <2>5. \A r \in Tailed : 1 .. view.pos[r] = {}
    BY <1>10
  <2>. QED
    BY <2>3, <2>4, <2>5, <1>1, <1>3, <1>6, <1>10 DEF StockOK
<1>12. StreamOK'
  BY <1>1, <1>6, <1>8 DEF StreamOK, StreamWhole
<1>13. OrderOK'
  BY <1>6, <1>10 DEF OrderOK
<1>. QED
  BY <1>7, <1>9, <1>11, <1>12, <1>13 DEF LogsInv

LEMMA StockEndsKeeps ==
    ASSUME LogsInv, NEW r \in Tailed, StockEnds(r) PROVE LogsInv'
<1>1. /\ LogsType /\ TimesApart /\ ReadersOK /\ StockOK /\ StreamOK /\ OrderOK /\ UNCHANGED <<clock, logs, writing>>
      /\ view \in Views /\ view.phase = "stock" /\ r \notin view.failed \cup view.ended /\ ~HasNext(r)
      /\ view' = [view EXCEPT !.ended = view.ended \cup {r}]
  BY DEF LogsInv, LogsType, StockEnds
<1>2. view' \in Views
  BY <1>1 DEF Views
<1>3. /\ view'.phase = view.phase /\ view'.follow = view.follow /\ view'.now = view.now /\ view'.was = view.was
      /\ view'.failed = view.failed /\ view'.ended = view.ended \cup {r} /\ view'.pos = view.pos /\ view'.out = view.out
      /\ view'.step = view.step /\ view'.mark = view.mark /\ view'.scan = view.scan /\ view'.from = view.from
      /\ view'.gap = view.gap /\ view'.tail = view.tail /\ view'.twice = view.twice
  BY <1>1 DEF Views
<1>4. /\ LogsType' /\ TimesApart' /\ (LogsSorted' <=> LogsSorted)
      /\ view.pos[r] \in Nat /\ Len(logs[r]) \in Nat
  BY <1>1, <1>2, LogsRest, PlacesFacts
<1>5. ReadersOK' /\ StreamOK'
  BY <1>1, <1>3 DEF ReadersOK, StreamOK, StreamWhole
<1>6. view.was[r] <= view.pos[r]
  <2>1. SUFFICES ASSUME view.pos[r] < view.was[r] PROVE FALSE
    <3>1. view.was[r] \in Nat
      BY <1>1 DEF Views
    <3>. QED
      BY <3>1, <1>4
  <2>2. view.was[r] \in Nat /\ view.was[r] <= Len(logs[r])
    BY <1>1 DEF Views, ReadersOK
  <2>3. view.pos[r] + 1 \in 1 .. view.was[r] /\ view.pos[r] + 1 <= Len(logs[r])
    BY ONLY <2>1, <2>2, <1>4
  <2>4. logs[r][view.pos[r] + 1] <= view.now
    BY <2>3, <1>1 DEF StockOK
  <2>. QED
    BY <2>3, <2>4, <1>1 DEF HasNext, NextOf, Until
<1>7. StockOK'
  BY <1>1, <1>3, <1>6 DEF StockOK
<1>8. OrderOK'
  BY <1>1, <1>3, <1>4 DEF OrderOK
<1>. QED
  BY <1>4, <1>5, <1>7, <1>8 DEF LogsInv

LEMMA StockOverKeeps ==
    ASSUME LogsInv, StockOver PROVE LogsInv'
<1>1. /\ LogsType /\ TimesApart /\ ReadersOK /\ StockOK /\ StreamOK /\ OrderOK /\ UNCHANGED <<clock, logs, writing>>
      /\ view \in Views /\ view.phase = "stock" /\ view.failed \cup view.ended = Tailed
  BY DEF LogsInv, LogsType, StockOver
<1>. DEFINE p == IF view.follow THEN "live" ELSE "over"
            st == [r \in Tailed |-> IF view.follow THEN "opening" ELSE "none"]
<1>2. view' = [view EXCEPT !.phase = p, !.step = st]
  BY DEF StockOver
<1>3. /\ p \in {"live", "over"} /\ (p = "live" <=> view.follow)
      /\ st \in [Tailed -> {"opening", "none"}] /\ \A r \in Tailed : st[r] # "none" => p = "live"
  BY <1>1 DEF Views
<1>. HIDE DEF p, st
<1>4. view' \in Views
  BY <1>1, <1>2, <1>3 DEF Views
<1>5. /\ view'.phase = p /\ view'.follow = view.follow /\ view'.now = view.now /\ view'.was = view.was
      /\ view'.failed = view.failed /\ view'.ended = view.ended /\ view'.pos = view.pos /\ view'.out = view.out
      /\ view'.step = st /\ view'.mark = view.mark /\ view'.scan = view.scan /\ view'.from = view.from
      /\ view'.gap = view.gap /\ view'.tail = view.tail /\ view'.twice = view.twice
  BY <1>1, <1>2 DEF Views
<1>6. LogsType' /\ TimesApart' /\ (LogsSorted' <=> LogsSorted)
  BY <1>1, <1>4, LogsRest
<1>7. \A r \in Tailed : view.step[r] = "none" /\ st[r] \in {"opening", "none"}
  BY <1>1, <1>3 DEF ReadersOK
<1>8. ReadersOK'
  BY <1>1, <1>3, <1>5, <1>7 DEF ReadersOK
<1>9. StockOK'
  BY <1>1, <1>3, <1>5 DEF StockOK
<1>10. StreamOK'
  <2>1. view.tail = {}
    BY <1>1, <1>7 DEF StreamOK
  <2>. QED
    BY <2>1, <1>1, <1>5, <1>7 DEF StreamOK, StreamWhole
<1>11. OrderOK'
  BY <1>1, <1>3, <1>5, <1>6 DEF OrderOK
<1>. QED
  BY <1>6, <1>8, <1>9, <1>10, <1>11 DEF LogsInv

LEMMA LogsCancelKeeps ==
    ASSUME LogsInv, LogsCancel PROVE LogsInv'
<1>1. UNCHANGED <<clock, logs, writing>> /\ view' = [NoView EXCEPT !.phase = "cut"]
  BY DEF LogsCancel
<1>2. /\ AtStart \in [Tailed -> Nat] /\ \A r \in Tailed : AtStart[r] = 0
      /\ <<>> \in Seq(Nat) /\ DOMAIN <<>> = {}
  BY DEF AtStart
<1>3. view' \in Views
  BY <1>1, <1>2 DEF NoView, Views
<1>4. /\ view'.phase = "cut" /\ ~view'.follow /\ view'.out = <<>> /\ view'.was = AtStart /\ view'.pos = AtStart
      /\ view'.ended = {} /\ view'.tail = {} /\ ~view'.twice
      /\ \A r \in Tailed : view'.step[r] = "none"
  BY <1>1 DEF NoView
<1>5. LogsType' /\ TimesApart' /\ \A r \in Tailed : Len(logs[r]) \in Nat
  BY <1>1, <1>3, LogsRest, PlacesFacts
<1>6. ReadersOK'
  BY <1>1, <1>2, <1>4, <1>5 DEF ReadersOK
<1>7. DOMAIN view'.out = {} /\ \A r \in Tailed : 1 .. view'.pos[r] = {} /\ 1 .. view'.was[r] = {}
  BY <1>2, <1>4
<1>8. StockOK'
  BY <1>4, <1>7 DEF StockOK
<1>9. StreamOK'
  BY <1>4 DEF StreamOK, StreamWhole
<1>10. OrderOK'
  BY <1>4, <1>7 DEF OrderOK
<1>. QED
  BY <1>5, <1>6, <1>8, <1>9, <1>10 DEF LogsInv

LEMMA StockEmitsKeeps ==
    ASSUME LogsInv, NEW r \in Tailed, StockEmits(r) PROVE LogsInv'
<1>1. /\ LogsType /\ TimesApart /\ ReadersOK /\ StockOK /\ StreamOK /\ OrderOK /\ UNCHANGED <<clock, logs, writing>>
      /\ view \in Views /\ view.phase = "stock" /\ HasNext(r)
  BY DEF LogsInv, LogsType, StockEmits
<1>. DEFINE at == view.pos[r] + 1
            t == logs[r][at]
            out == Append(view.out, t)
            pos == [view.pos EXCEPT ![r] = at]
            len == Len(view.out)
<1>2. view' = [view EXCEPT !.out = out, !.pos = pos]
  BY <1>1 DEF StockEmits, NextOf, Views
<1>3. /\ \A q \in Tailed \ (view.failed \cup view.ended) : HasNext(q) /\ t <= logs[q][NextOf(q)]
      /\ r \notin view.failed \cup view.ended /\ at <= Len(logs[r]) /\ (view.follow => t <= view.now)
  BY <1>1 DEF StockEmits, NextOf, HasNext, Until
<1>4. view.pos \in [Tailed -> Nat] /\ view.out \in Seq(Nat)
  BY <1>1 DEF Views
<1>5. \A q \in Tailed : /\ logs[q] \in Seq(Nat) /\ Len(logs[q]) \in Nat /\ DOMAIN logs[q] = 1 .. Len(logs[q])
                        /\ \A i \in 1 .. Len(logs[q]) : logs[q][i] \in Nat
                        /\ view.pos[q] \in Nat /\ view.pos[q] <= Len(logs[q])
  BY PlacesFacts
<1>6. at \in Nat /\ at \in 1 .. Len(logs[r]) /\ t \in Nat
  BY <1>3, <1>5
<1>7. /\ pos \in [Tailed -> Nat] /\ pos[r] = at /\ \A q \in Tailed : q # r => pos[q] = view.pos[q]
      /\ \A q \in Tailed : pos[q] <= Len(logs[q])
  BY <1>3, <1>4, <1>5, <1>6
<1>8. /\ out \in Seq(Nat) /\ DOMAIN out = 1 .. len + 1 /\ out[len + 1] = t /\ len \in Nat
      /\ \A n \in 1 .. len : out[n] = view.out[n] /\ view.out[n] \in Nat
      /\ DOMAIN view.out = 1 .. len
  BY <1>4, <1>6
<1>. HIDE DEF pos, out, len, t
<1>9. view' \in Views
  BY <1>1, <1>2, <1>7, <1>8 DEF Views
<1>10. /\ view'.phase = view.phase /\ view'.follow = view.follow /\ view'.now = view.now /\ view'.was = view.was
       /\ view'.failed = view.failed /\ view'.ended = view.ended /\ view'.pos = pos /\ view'.out = out
       /\ view'.step = view.step /\ view'.mark = view.mark /\ view'.scan = view.scan /\ view'.from = view.from
       /\ view'.gap = view.gap /\ view'.tail = view.tail /\ view'.twice = view.twice
  BY <1>1, <1>2 DEF Views
<1>11. LogsType' /\ TimesApart' /\ (LogsSorted' <=> LogsSorted)
  BY <1>1, <1>9, LogsRest
<1>12. \A q \in Tailed : view.step[q] = "none"
  BY <1>1 DEF ReadersOK
<1>13. ReadersOK'
  BY <1>1, <1>7, <1>10, <1>12 DEF ReadersOK
<1>14. StreamOK'
  BY <1>1, <1>10, <1>12 DEF StreamOK, StreamWhole
<1>15. \A q \in Tailed : \A i \in 1 .. pos[q] : i \in 1 .. view.pos[q] \/ (q = r /\ i = at)
  BY <1>5, <1>6, <1>7
<1>16. \A n \in DOMAIN out : (n \in DOMAIN view.out /\ out[n] = view.out[n]) \/ (n = len + 1 /\ out[n] = t)
  BY <1>8
<1>17. ASSUME NEW n \in DOMAIN view.out PROVE view.out[n] # t
  <2>0. PICK q \in Tailed : \E i \in 1 .. view.pos[q] : view.out[n] = logs[q][i]
    BY <1>1 DEF StockOK
  <2>1. PICK i \in 1 .. view.pos[q] : view.out[n] = logs[q][i]
    BY <2>0
  <2>2. i \in DOMAIN logs[q] /\ at \in DOMAIN logs[r] /\ ~(q = r /\ i = at)
    <3>1. view.pos[q] \in Nat /\ Len(logs[q]) \in Nat /\ view.pos[q] <= Len(logs[q])
          /\ DOMAIN logs[q] = 1 .. Len(logs[q]) /\ DOMAIN logs[r] = 1 .. Len(logs[r])
      BY <1>5
    <3>. QED
      BY ONLY <3>1, <1>6, i \in 1 .. view.pos[q]
  <2>. QED
    BY <2>1, <2>2, <1>1 DEF TimesApart, t
<1>18. StockOK'
  <2>1. ASSUME NEW n \in DOMAIN out PROVE \E q \in Tailed : \E i \in 1 .. pos[q] : out[n] = logs[q][i]
    <3>1. CASE n \in DOMAIN view.out /\ out[n] = view.out[n]
      <4>0. PICK q \in Tailed : \E i \in 1 .. view.pos[q] : view.out[n] = logs[q][i]
        BY <3>1, <1>1 DEF StockOK
      <4>1. PICK i \in 1 .. view.pos[q] : view.out[n] = logs[q][i]
        BY <4>0
      <4>2. i \in 1 .. pos[q]
        <5>1. view.pos[q] \in Nat /\ (pos[q] = view.pos[q] \/ pos[q] = view.pos[q] + 1)
          BY <1>5, <1>7
        <5>. QED
          BY ONLY <5>1, i \in 1 .. view.pos[q]
      <4>. QED
        BY <4>1, <4>2, <3>1
    <3>2. CASE n = len + 1 /\ out[n] = t
      <4>1. at \in 1 .. pos[r]
        BY <1>6, <1>7
      <4>. QED
        BY <4>1, <3>2 DEF t
    <3>. QED
      BY <3>1, <3>2, <1>16
  <2>2. ASSUME NEW q \in Tailed, NEW i \in 1 .. pos[q] PROVE \E n \in DOMAIN out : out[n] = logs[q][i]
    <3>1. CASE i \in 1 .. view.pos[q]
      <4>1. PICK n \in DOMAIN view.out : view.out[n] = logs[q][i]
        BY <3>1, <1>1 DEF StockOK
      <4>2. n \in DOMAIN out /\ out[n] = view.out[n]
        BY <4>1, <1>8
      <4>. QED
        BY <4>1, <4>2
    <3>2. CASE q = r /\ i = at
      <4>1. len + 1 \in DOMAIN out /\ out[len + 1] = t
        BY <1>8
      <4>. QED
        BY <4>1, <3>2 DEF t
    <3>. QED
      BY <3>1, <3>2, <1>15
  <2>3. ASSUME NEW n \in DOMAIN out, NEW m \in DOMAIN out, n # m PROVE out[n] # out[m]
    BY <2>3, <1>1, <1>16, <1>17 DEF StockOK
  <2>4. view.follow => \A q \in Tailed : \A i \in 1 .. pos[q] : logs[q][i] <= view.now
    BY <1>1, <1>3, <1>15 DEF StockOK, t
  <2>5. \A q \in view.ended : view.was[q] <= pos[q]
    <3>1. view.ended \subseteq Tailed
      BY <1>1 DEF Views
    <3>. QED
      BY <3>1, <1>1, <1>3, <1>7 DEF StockOK
  <2>. QED
    BY <2>1, <2>2, <2>3, <2>4, <2>5, <1>1, <1>10 DEF StockOK
<1>19. OrderOK'
  <2>1. SUFFICES ASSUME LogsSorted
                 PROVE  /\ \A i, j \in DOMAIN out : i < j => out[i] < out[j]
                        /\ \A q \in Tailed \ (view.failed \cup view.ended) : \A n \in DOMAIN out :
                              IF pos[q] < Len(logs[q]) THEN out[n] < logs[q][pos[q] + 1]
                              ELSE pos[q] > 0 /\ out[n] <= logs[q][pos[q]]
    BY <1>1, <1>10, <1>11 DEF OrderOK
  <2>2. ASSUME NEW q \in Tailed \ (view.failed \cup view.ended)
        PROVE  view.pos[q] < Len(logs[q]) /\ t <= logs[q][view.pos[q] + 1] /\ view.pos[q] + 1 \in 1 .. Len(logs[q])
    BY <1>3, <1>5 DEF HasNext, NextOf
  <2>3. ASSUME NEW q \in Tailed \ (view.failed \cup view.ended), NEW n \in DOMAIN view.out
        PROVE  view.out[n] < logs[q][view.pos[q] + 1]
    BY <2>1, <2>2, <1>1 DEF OrderOK
  <2>4. ASSUME NEW n \in DOMAIN view.out PROVE view.out[n] < t
    BY <2>3, <1>3 DEF t
  <2>5. ASSUME NEW i \in DOMAIN out, NEW j \in DOMAIN out, i < j PROVE out[i] < out[j]
    <3>1. CASE j \in DOMAIN view.out /\ out[j] = view.out[j]
      <4>1. i \in DOMAIN view.out /\ out[i] = view.out[i]
        BY <3>1, <2>5, <1>8
      <4>. QED
        BY <4>1, <3>1, <2>1, <2>5, <1>1 DEF OrderOK
    <3>2. CASE j = len + 1 /\ out[j] = t
      <4>1. i \in DOMAIN view.out /\ out[i] = view.out[i]
        BY <3>2, <2>5, <1>8
      <4>. QED
        BY <4>1, <3>2, <2>4
    <3>. QED
      BY <3>1, <3>2, <1>16
  <2>6. ASSUME NEW q \in Tailed \ (view.failed \cup view.ended), NEW n \in DOMAIN out, q # r
        PROVE  pos[q] < Len(logs[q]) /\ out[n] < logs[q][pos[q] + 1]
    <3>1. pos[q] = view.pos[q] /\ view.pos[q] < Len(logs[q])
      BY <2>2, <2>6, <1>7
    <3>2. CASE n \in DOMAIN view.out /\ out[n] = view.out[n]
      BY <3>1, <3>2, <2>3
    <3>3. CASE n = len + 1 /\ out[n] = t
      <4>1. view.pos[q] + 1 \in DOMAIN logs[q] /\ at \in DOMAIN logs[r]
        BY <2>2, <1>5, <1>6
      <4>2. t # logs[q][view.pos[q] + 1]
        BY <4>1, <2>6, <1>1 DEF TimesApart, t
      <4>3. logs[q][view.pos[q] + 1] \in Nat /\ t <= logs[q][view.pos[q] + 1]
        BY <4>1, <2>2, <1>5
      <4>. QED
        BY <3>1, <3>3, <4>2, <4>3, <1>6
    <3>. QED
      BY <3>2, <3>3, <1>16
  <2>7. ASSUME NEW n \in DOMAIN out PROVE out[n] <= t /\ out[n] \in Nat
    <3>1. CASE n \in DOMAIN view.out /\ out[n] = view.out[n]
      <4>1. view.out[n] \in Nat /\ view.out[n] < t
        BY <3>1, <2>4, <1>8
      <4>. QED
        BY <3>1, <4>1, <1>6
    <3>2. CASE n = len + 1 /\ out[n] = t
      BY <3>2, <1>6
    <3>. QED
      BY <3>1, <3>2, <1>16
  <2>8. ASSUME NEW n \in DOMAIN out
        PROVE  IF pos[r] < Len(logs[r]) THEN out[n] < logs[r][pos[r] + 1]
               ELSE pos[r] > 0 /\ out[n] <= logs[r][pos[r]]
    <3>1. CASE at < Len(logs[r])
      <4>1. at + 1 \in 1 .. Len(logs[r]) /\ at < at + 1
        BY <3>1, <1>5, <1>6
      <4>2. t < logs[r][at + 1] /\ logs[r][at + 1] \in Nat
        BY <4>1, <2>1, <1>5, <1>6 DEF LogsSorted, t
      <4>3. out[n] < logs[r][at + 1]
        BY ONLY <4>2, <2>7, <1>6, n \in DOMAIN out
      <4>. QED
        BY <4>3, <3>1, <1>7
    <3>2. CASE ~(at < Len(logs[r]))
      <4>1. pos[r] = at /\ at > 0 /\ out[n] <= logs[r][at]
        BY <2>7, <1>6, <1>7 DEF t
      <4>. QED
        BY <4>1, <3>2
    <3>. QED
      BY <3>1, <3>2
  <2>. QED
    BY <2>5, <2>6, <2>8
<1>. QED
  BY <1>11, <1>13, <1>14, <1>18, <1>19 DEF LogsInv

LEMMA GreatestNatural ==
    ASSUME NEW N \in Nat, NEW S \in SUBSET (1 .. N), S # {}
    PROVE  \E n \in S : \A m \in S : m <= n
<1>. DEFINE T == {N - i : i \in S}
<1>0. \A i \in S : i \in Int /\ N - i \in Nat
  OBVIOUS
<1>1. T \subseteq Nat /\ T # {}
  BY <1>0, Zenon
<1>2. PICK d \in T : \A e \in T : d <= e
  BY <1>1, LeastNatural
<1>3. PICK n \in S : d = N - n
  BY <1>2
<1>4. ASSUME NEW m \in S PROVE m <= n
  <2>1. N - m \in T
    OBVIOUS
  <2>2. N - n <= N - m
    BY <2>1, <1>2, <1>3
  <2>3. m \in Nat /\ n \in Nat
    OBVIOUS
  <2>. QED
    BY ONLY <2>2, <2>3, N \in Nat
<1>. QED
  BY <1>4

\* A follower that looks at its log, and puts nothing out.
LEMMA LooksKeep ==
    ASSUME LogsInv, UNCHANGED <<clock, logs, writing>>, view.phase = "live", NEW r \in Tailed,
           view.step[r] # "following",
           NEW st \in {"scanned", "marked", "ready"}, NEW mk \in Nat, NEW sc \in Nat,
           view' = [view EXCEPT !.step[r] = st, !.mark[r] = mk, !.scan[r] = sc],
           st \in {"marked", "ready"} => view.pos[r] <= mk /\ mk <= Len(logs[r]),
           st \in {"scanned", "ready"} => sc <= Len(logs[r])
    PROVE  LogsInv'
<1>1. /\ LogsType /\ TimesApart /\ ReadersOK /\ StockOK /\ StreamOK /\ OrderOK /\ view \in Views
  BY DEF LogsInv, LogsType
<1>. DEFINE S == [view.step EXCEPT ![r] = st]
            M == [view.mark EXCEPT ![r] = mk]
            C == [view.scan EXCEPT ![r] = sc]
<1>2. view' = [view EXCEPT !.step = S, !.mark = M, !.scan = C]
  BY <1>1 DEF Views
<1>3. view.step \in [Tailed -> {"none", "opening", "scanned", "marked", "ready", "following"}]
      /\ view.mark \in [Tailed -> Nat] /\ view.scan \in [Tailed -> Nat]
  BY <1>1 DEF Views
<1>4. /\ S \in [Tailed -> {"none", "opening", "scanned", "marked", "ready", "following"}]
      /\ M \in [Tailed -> Nat] /\ C \in [Tailed -> Nat]
      /\ S[r] = st /\ M[r] = mk /\ C[r] = sc
      /\ \A q \in Tailed : q # r => S[q] = view.step[q] /\ M[q] = view.mark[q] /\ C[q] = view.scan[q]
  BY <1>3
<1>. HIDE DEF S, M, C
<1>5. view' \in Views
  BY <1>1, <1>2, <1>4 DEF Views
<1>6. /\ view'.phase = view.phase /\ view'.follow = view.follow /\ view'.now = view.now /\ view'.was = view.was
      /\ view'.failed = view.failed /\ view'.ended = view.ended /\ view'.pos = view.pos /\ view'.out = view.out
      /\ view'.step = S /\ view'.mark = M /\ view'.scan = C /\ view'.from = view.from
      /\ view'.gap = view.gap /\ view'.tail = view.tail /\ view'.twice = view.twice
  BY <1>1, <1>2 DEF Views
<1>7. LogsType' /\ TimesApart' /\ (LogsSorted' <=> LogsSorted)
  BY <1>5, LogsRest
<1>8. ReadersOK'
  <2>1. ASSUME NEW q \in Tailed
        PROVE  /\ S[q] \in {"marked", "ready"} => view.pos[q] <= M[q] /\ M[q] <= Len(logs[q])
               /\ S[q] \in {"scanned", "ready"} => C[q] <= Len(logs[q])
               /\ S[q] = "following" => view.pos[q] <= view.from[q] /\ view.from[q] <= Len(logs[q])
    <3>1. CASE q = r
      BY <3>1, <1>4
    <3>2. CASE q # r
      BY <3>2, <1>1, <1>4 DEF ReadersOK
    <3>. QED
      BY <3>1, <3>2
  <2>. QED
    BY <2>1, <1>1, <1>6 DEF ReadersOK
<1>9. StockOK' /\ OrderOK'
  BY <1>1, <1>6, <1>7 DEF StockOK, OrderOK
<1>10. \A q \in Tailed : S[q] = "following" <=> view.step[q] = "following"
  BY <1>4
<1>11. StreamOK'
  BY <1>1, <1>6, <1>10 DEF StreamOK, StreamWhole
<1>. QED
  BY <1>7, <1>8, <1>9, <1>11 DEF LogsInv

LEMMA LiveScansKeeps ==
    ASSUME LogsInv, NEW r \in Tailed, LiveScans(r) PROVE LogsInv'
<1>1. /\ UNCHANGED <<clock, logs, writing>> /\ view.phase = "live" /\ view.step[r] \in {"opening", "marked"}
      /\ ReadersOK /\ view \in Views
  BY DEF LogsInv, LogsType, LiveScans
<1>2. /\ Len(logs[r]) \in Nat /\ view.mark[r] \in Nat
  BY <1>1, PlacesFacts DEF Views
<1>. DEFINE st == IF view.step[r] = "opening" THEN "scanned" ELSE "ready"
<1>3. view' = [view EXCEPT !.scan[r] = Len(logs[r]), !.step[r] = st]
  BY <1>1 DEF LiveScans, Views
<1>4. view' = [view EXCEPT !.step[r] = st, !.mark[r] = view.mark[r], !.scan[r] = Len(logs[r])]
  BY <1>1, <1>3 DEF Views
<1>5. /\ st \in {"scanned", "marked", "ready"}
      /\ st \in {"marked", "ready"} => view.pos[r] <= view.mark[r] /\ view.mark[r] <= Len(logs[r])
  BY <1>1 DEF ReadersOK
<1>6. view.step[r] # "following" /\ Len(logs[r]) <= Len(logs[r])
  BY <1>1, <1>2
<1>. HIDE DEF st
<1>7. PICK n \in Nat : n = Len(logs[r])
  BY <1>2
<1>. QED
  BY ONLY LogsInv, r \in Tailed, <1>1, <1>2, <1>4, <1>5, <1>6, <1>7, LooksKeep

LEMMA LiveMarksKeeps ==
    ASSUME LogsInv, NEW r \in Tailed, LiveMarks(r) PROVE LogsInv'
<1>1. /\ UNCHANGED <<clock, logs, writing>> /\ view.phase = "live" /\ view.step[r] \in {"opening", "scanned"}
      /\ ReadersOK /\ view \in Views
  BY DEF LogsInv, LogsType, LiveMarks
<1>2. /\ Len(logs[r]) \in Nat /\ view.scan[r] \in Nat /\ view.pos[r] <= Len(logs[r])
  BY <1>1, PlacesFacts DEF Views
<1>. DEFINE st == IF view.step[r] = "opening" THEN "marked" ELSE "ready"
<1>3. view' = [view EXCEPT !.mark[r] = Len(logs[r]), !.step[r] = st]
  BY <1>1 DEF LiveMarks, Views
<1>4. view' = [view EXCEPT !.step[r] = st, !.mark[r] = Len(logs[r]), !.scan[r] = view.scan[r]]
  BY <1>1, <1>3 DEF Views
<1>5. /\ st \in {"scanned", "marked", "ready"}
      /\ st \in {"scanned", "ready"} => view.scan[r] <= Len(logs[r])
  BY <1>1 DEF ReadersOK
<1>6. view.step[r] # "following" /\ Len(logs[r]) <= Len(logs[r])
  BY <1>1, <1>2
<1>. HIDE DEF st
<1>7. PICK n \in Nat : n = Len(logs[r])
  BY <1>2
<1>. QED
  BY ONLY LogsInv, r \in Tailed, <1>1, <1>2, <1>4, <1>5, <1>6, <1>7, LooksKeep

\* A follower puts the records ts of its log out and goes to the place f.
LEMMA DeliversKeep ==
    ASSUME LogsInv, UNCHANGED <<clock, logs, writing>>, view.phase = "live", NEW r \in Tailed,
           NEW is, NEW f \in Nat, NEW g \in SUBSET Nat,
           is \subseteq 1 .. f, view.pos[r] <= f, f <= Len(logs[r]),
           \A i \in is : i > view.pos[r] /\ (view.step[r] = "following" => i > view.from[r]),
           \A i \in 1 .. f : logs[r][i] > view.now =>
               i \in is \/ logs[r][i] \in view.gap \cup g \/ (view.step[r] = "following" /\ i <= view.from[r]),
           view.step[r] = "following" => view.from[r] <= f,
           view' = [view EXCEPT !.tail = view.tail \cup {logs[r][i] : i \in is},
                                !.twice = view.twice \/ {logs[r][i] : i \in is} \cap (view.tail \cup Upto(view.out, Len(view.out))) # {},
                                !.from = [view.from EXCEPT ![r] = f], !.step = [view.step EXCEPT ![r] = "following"],
                                !.gap = view.gap \cup g]
    PROVE  LogsInv'
<1>1. /\ LogsType /\ TimesApart /\ ReadersOK /\ StockOK /\ StreamOK /\ OrderOK /\ view \in Views
  BY DEF LogsInv, LogsType
<1>. DEFINE ts == {logs[r][i] : i \in is}
            S == [view.step EXCEPT ![r] = "following"]
            F == [view.from EXCEPT ![r] = f]
            tw == view.twice \/ ts \cap (view.tail \cup Upto(view.out, Len(view.out))) # {}
<1>2. /\ logs[r] \in Seq(Nat) /\ Len(logs[r]) \in Nat /\ DOMAIN logs[r] = 1 .. Len(logs[r])
      /\ view.pos[r] \in Nat /\ view.pos[r] <= Len(logs[r])
      /\ \A i \in 1 .. Len(logs[r]) : logs[r][i] \in Nat
  BY PlacesFacts
<1>3. \A i \in 1 .. f : i \in 1 .. Len(logs[r]) /\ i \in DOMAIN logs[r]
  BY <1>2
<1>4. ts \subseteq Nat
  BY <1>2, <1>3
<1>5. /\ S \in [Tailed -> {"none", "opening", "scanned", "marked", "ready", "following"}]
      /\ S[r] = "following" /\ \A q \in Tailed : q # r => S[q] = view.step[q]
  BY <1>1 DEF Views
<1>6. /\ F \in [Tailed -> Nat] /\ F[r] = f /\ \A q \in Tailed : q # r => F[q] = view.from[q]
  BY <1>1 DEF Views
<1>7. ~tw
  <2>1. ASSUME NEW i \in is, logs[r][i] \in view.tail PROVE FALSE
    <3>1. PICK q \in Tailed : view.step[q] = "following" /\ \E j \in 1 .. view.from[q] : logs[q][j] = logs[r][i]
      BY <2>1, <1>1 DEF StreamOK
    <3>2. PICK j \in 1 .. view.from[q] : logs[q][j] = logs[r][i]
      BY <3>1
    <3>3. j \in DOMAIN logs[q]
      <4>1. view.from[q] \in Nat /\ view.from[q] <= Len(logs[q]) /\ Len(logs[q]) \in Nat /\ DOMAIN logs[q] = 1 .. Len(logs[q])
        BY <3>1, <1>1, PlacesFacts DEF ReadersOK, Views
      <4>. QED
        BY ONLY <4>1, j \in 1 .. view.from[q]
    <3>4. q = r /\ i = j
      BY <3>2, <3>3, <1>1, <1>3 DEF TimesApart
    <3>5. view.from[r] \in Nat /\ j <= view.from[r]
      BY <3>4, <1>1 DEF Views
    <3>. QED
      BY <3>1, <3>4, <3>5
  <2>2. ASSUME NEW i \in is, logs[r][i] \in Upto(view.out, Len(view.out)) PROVE FALSE
    <3>0. view.out \in Seq(Nat)
      BY <1>1 DEF Views
    <3>1. PICK n \in DOMAIN view.out : view.out[n] = logs[r][i]
      BY <2>2, <3>0 DEF Upto
    <3>2. PICK q \in Tailed : \E j \in 1 .. view.pos[q] : view.out[n] = logs[q][j]
      BY <3>1, <1>1 DEF StockOK
    <3>3. PICK j \in 1 .. view.pos[q] : view.out[n] = logs[q][j]
      BY <3>2
    <3>4. j \in DOMAIN logs[q]
      <4>1. view.pos[q] \in Nat /\ view.pos[q] <= Len(logs[q]) /\ Len(logs[q]) \in Nat /\ DOMAIN logs[q] = 1 .. Len(logs[q])
        BY PlacesFacts
      <4>. QED
        BY ONLY <4>1, j \in 1 .. view.pos[q]
    <3>5. q = r /\ i = j
      <4>1. logs[q][j] = logs[r][i] /\ i \in DOMAIN logs[r]
        BY <3>1, <3>3, <1>3
      <4>. QED
        BY <4>1, <3>4, <1>1 DEF TimesApart
    <3>6. j <= view.pos[r]
      BY <3>5
    <3>. QED
      BY <3>5, <3>6, <1>2
  <2>. QED
    BY <2>1, <2>2, <1>1 DEF StreamOK
<1>8. view' = [view EXCEPT !.tail = view.tail \cup ts, !.twice = FALSE, !.from = F, !.step = S, !.gap = view.gap \cup g]
  BY <1>7
<1>9. view' \in Views
  <2>1. view.tail \cup ts \in SUBSET Nat /\ view.gap \cup g \in SUBSET Nat
    BY <1>1, <1>4 DEF Views
  <2>. HIDE DEF ts, F, S
  <2>. QED
    BY ONLY <2>1, <1>1, <1>5, <1>6, <1>8 DEF Views
<1>10. /\ view'.phase = view.phase /\ view'.follow = view.follow /\ view'.now = view.now /\ view'.was = view.was
       /\ view'.failed = view.failed /\ view'.ended = view.ended /\ view'.pos = view.pos /\ view'.out = view.out
       /\ view'.step = S /\ view'.mark = view.mark /\ view'.scan = view.scan /\ view'.from = F
       /\ view'.gap = view.gap \cup g /\ view'.tail = view.tail \cup ts /\ ~view'.twice
  <2>. HIDE DEF ts, F, S
  <2>. QED
    BY <1>1, <1>8 DEF Views
<1>. HIDE DEF F, S, tw
<1>11. LogsType' /\ TimesApart' /\ (LogsSorted' <=> LogsSorted)
  BY <1>9, LogsRest
<1>12. ReadersOK'
  <2>1. ASSUME NEW q \in Tailed
        PROVE  /\ S[q] \in {"marked", "ready"} => view.pos[q] <= view.mark[q] /\ view.mark[q] <= Len(logs[q])
               /\ S[q] \in {"scanned", "ready"} => view.scan[q] <= Len(logs[q])
               /\ S[q] = "following" => view.pos[q] <= F[q] /\ F[q] <= Len(logs[q])
    <3>1. CASE q = r
      BY <3>1, <1>5, <1>6
    <3>2. CASE q # r
      BY <3>2, <1>1, <1>5, <1>6 DEF ReadersOK
    <3>. QED
      BY <3>1, <3>2
  <2>. QED
    BY <2>1, <1>1, <1>10 DEF ReadersOK
<1>13. StockOK' /\ OrderOK'
  BY <1>1, <1>10, <1>11 DEF StockOK, OrderOK
<1>14. ASSUME NEW t \in view.tail \cup ts
       PROVE  \E q \in Tailed : S[q] = "following" /\ \E i \in 1 .. F[q] : logs[q][i] = t
  <2>1. CASE t \in ts
    BY <2>1, <1>5, <1>6
  <2>2. CASE t \in view.tail
    <3>1. PICK q \in Tailed : view.step[q] = "following" /\ \E i \in 1 .. view.from[q] : logs[q][i] = t
      BY <2>2, <1>1 DEF StreamOK
    <3>2. PICK i \in 1 .. view.from[q] : logs[q][i] = t
      BY <3>1
    <3>3. S[q] = "following"
      BY <3>1, <1>5
    <3>4. i \in 1 .. F[q]
      <4>1. view.from[q] \in Nat /\ F[q] \in Nat /\ view.from[q] <= F[q]
        <5>1. view.from[q] \in Nat /\ F[q] \in Nat
          BY <1>1, <1>6 DEF Views
        <5>. QED
          BY <5>1, <3>1, <1>6
      <4>. QED
        BY ONLY <4>1, i \in 1 .. view.from[q]
    <3>. QED
      BY <3>2, <3>3, <3>4
  <2>. QED
    BY <2>1, <2>2
<1>15. ASSUME NEW q \in Tailed, S[q] = "following"
       PROVE  {t \in Upto(logs[q], F[q]) : t > view.now} \subseteq (view.tail \cup ts) \cup (view.gap \cup g)
  <2>0. SUFFICES ASSUME NEW i \in 1 .. F[q], logs[q][i] > view.now
                 PROVE  logs[q][i] \in (view.tail \cup ts) \cup (view.gap \cup g)
    BY DEF Upto
  <2>1. CASE q # r
    <3>1. view.step[q] = "following" /\ F[q] = view.from[q]
      BY <2>1, <1>5, <1>6, <1>15
    <3>2. logs[q][i] \in Upto(logs[q], view.from[q])
      BY <3>1, <2>0 DEF Upto
    <3>. QED
      BY <3>1, <3>2, <2>0, <1>1 DEF StreamOK, StreamWhole
  <2>2. CASE q = r
    <3>1. i \in 1 .. f
      BY <2>2, <1>6
    <3>2. i \in is => logs[q][i] \in ts
      BY <2>2
    <3>3. ASSUME view.step[r] = "following", i <= view.from[r] PROVE logs[r][i] \in view.tail \cup view.gap
      <4>1. i \in 1 .. view.from[r]
        <5>1. view.from[r] \in Nat
          BY <1>1 DEF Views
        <5>. QED
          BY <5>1, <3>1, <3>3
      <4>2. logs[r][i] \in Upto(logs[r], view.from[r])
        BY <4>1 DEF Upto
      <4>. QED
        BY <4>2, <3>3, <2>0, <2>2, <1>1 DEF StreamOK, StreamWhole
    <3>4. i \in is \/ logs[r][i] \in view.gap \cup g \/ (view.step[r] = "following" /\ i <= view.from[r])
      BY <3>1, <2>0, <2>2
    <3>. QED
      BY <3>2, <3>3, <3>4, <2>2
  <2>. QED
    BY <2>1, <2>2
<1>16. StreamOK'
  <2>0. logs' = logs
    OBVIOUS
  <2>1. StreamWhole'
    <3>1. SUFFICES ASSUME NEW q \in Tailed, view'.step[q] = "following"
                   PROVE  {t \in Upto(logs'[q], view'.from[q]) : t > view'.now} \subseteq view'.tail \cup view'.gap
      BY DEF StreamWhole
    <3>. QED
      BY ONLY <3>1, <2>0, <1>10, <1>15
  <2>2. \A t \in view'.tail : \E q \in Tailed :
          view'.step[q] = "following" /\ \E i \in 1 .. view'.from[q] : logs'[q][i] = t
    BY ONLY <2>0, <1>10, <1>14
  <2>. QED
    BY <2>1, <2>2, <1>10 DEF StreamOK
<1>. QED
  BY <1>11, <1>12, <1>13, <1>16 DEF LogsInv

LEMMA LiveJoinsKeeps ==
    ASSUME LogsInv, NEW r \in Tailed, LiveJoins(r) PROVE LogsInv'
<1>1. /\ UNCHANGED <<clock, logs, writing>> /\ view.phase = "live" /\ view.step[r] = "ready"
      /\ ReadersOK /\ StockOK /\ view \in Views
  BY DEF LogsInv, LogsType, LiveJoins
<1>2. /\ Len(logs[r]) \in Nat /\ view.scan[r] \in Nat /\ view.mark[r] \in Nat /\ view.pos[r] \in Nat /\ view.now \in Nat
      /\ view.scan[r] <= Len(logs[r]) /\ view.mark[r] <= Len(logs[r]) /\ view.pos[r] <= view.mark[r]
      /\ \A i \in 1 .. Len(logs[r]) : logs[r][i] \in Nat
  BY <1>1, PlacesFacts DEF Views, ReadersOK
<1>. DEFINE found == {i \in 1 .. view.scan[r] : Since(logs[r][i])}
            f == IF found = {} THEN view.mark[r] ELSE CHOOSE i \in found : \A j \in found : j <= i
            g == {logs[r][i] : i \in view.scan[r] + 1 .. f}
<1>3. view' = [Deliver(view, {logs[r][i] : i \in found}) EXCEPT
                        !.from[r] = f, !.step[r] = "following", !.gap = @ \cup g]
  BY DEF LiveJoins
<1>4. \A i \in found : i \in 1 .. view.scan[r] /\ i \in 1 .. Len(logs[r]) /\ logs[r][i] > view.now
  <2>1. ASSUME NEW i \in found PROVE i \in 1 .. view.scan[r] /\ logs[r][i] >= view.now + 1
    BY DEF Since
  <2>2. ASSUME NEW i \in found PROVE i \in 1 .. Len(logs[r])
    BY <2>1, <1>2
  <2>. QED
    BY <2>1, <2>2, <1>2
<1>5. \A i \in 1 .. view.scan[r] : logs[r][i] > view.now => i \in found
  <2>1. SUFFICES ASSUME NEW i \in 1 .. view.scan[r], logs[r][i] > view.now PROVE logs[r][i] >= view.now + 1
    BY DEF Since
  <2>2. logs[r][i] \in Nat
    BY <1>2
  <2>. QED
    BY ONLY <2>1, <2>2, <1>2
<1>6. found \in SUBSET (1 .. view.scan[r])
  OBVIOUS
<1>. HIDE DEF found
<1>7. found # {} => f \in found /\ \A j \in found : j <= f
  BY <1>2, <1>6, GreatestNatural
<1>8. found = {} => f = view.mark[r]
  OBVIOUS
<1>9. \A i \in found : i > view.pos[r]
  <2>1. view.follow
    BY <1>1 DEF StockOK
  <2>2. SUFFICES ASSUME NEW i \in found, i <= view.pos[r] PROVE FALSE
    BY <1>2, <1>4
  <2>3. i \in 1 .. view.pos[r]
    BY <2>2, <1>2, <1>4
  <2>4. logs[r][i] <= view.now /\ logs[r][i] > view.now /\ logs[r][i] \in Nat
    BY <2>1, <2>3, <1>1, <1>2, <1>4 DEF StockOK
  <2>. QED
    BY ONLY <2>4, <1>2
<1>. HIDE DEF f
<1>10. f \in Nat /\ view.pos[r] <= f /\ f <= Len(logs[r]) /\ found \subseteq 1 .. f
  <2>1. CASE found = {}
    BY ONLY <2>1, <1>2, <1>8
  <2>2. CASE found # {}
    <3>1. f \in 1 .. Len(logs[r]) /\ f > view.pos[r]
      BY ONLY <2>2, <1>4, <1>7, <1>9
    <3>2. ASSUME NEW j \in found PROVE j \in 1 .. f
      <4>1. j <= f /\ j \in 1 .. Len(logs[r])
        BY ONLY j \in found, <2>2, <1>4, <1>7
      <4>. QED
        BY ONLY <4>1, <3>1, <1>2
    <3>3. f \in Nat /\ view.pos[r] <= f /\ f <= Len(logs[r])
      BY ONLY <3>1, <1>2
    <3>. QED
      BY ONLY <3>2, <3>3
  <2>. QED
    BY ONLY <2>1, <2>2
<1>11. \A i \in 1 .. f : i \in 1 .. Len(logs[r]) /\ (i \in 1 .. view.scan[r] \/ i \in view.scan[r] + 1 .. f)
  BY <1>2, <1>10
<1>12. g \in SUBSET Nat
  <2>1. ASSUME NEW i \in view.scan[r] + 1 .. f PROVE logs[r][i] \in Nat
    <3>1. i \in 1 .. Len(logs[r])
      BY <1>2, <1>10
    <3>. QED
      BY <3>1, <1>2
  <2>. QED
    BY <2>1
<1>13. \A i \in 1 .. f : logs[r][i] > view.now => i \in found \/ logs[r][i] \in g
  BY <1>5, <1>11
<1>. DEFINE ts == {logs[r][i] : i \in found}
            tw == view.twice \/ ts \cap (view.tail \cup Upto(view.out, Len(view.out))) # {}
<1>. HIDE DEF g
<1>14. view' = [view EXCEPT !.tail = view.tail \cup ts, !.twice = tw,
                            !.from = [view.from EXCEPT ![r] = f], !.step = [view.step EXCEPT ![r] = "following"],
                            !.gap = view.gap \cup g]
  <2>1. PICK d : d = Deliver(view, ts)
    OBVIOUS
  <2>2. d = [view EXCEPT !.tail = view.tail \cup ts, !.twice = tw]
    BY <2>1, <1>1 DEF Deliver, Views
  <2>3. view' = [d EXCEPT !.from[r] = f, !.step[r] = "following", !.gap = @ \cup g]
    BY <2>1, <1>3
  <2>. HIDE DEF ts, tw
  <2>4. d.from = view.from /\ d.step = view.step /\ d.gap = view.gap
    BY ONLY <2>2, <1>1 DEF Views
  <2>. QED
    BY ONLY <2>2, <2>3, <2>4, <1>1 DEF Views
<1>15. \A i \in found : i > view.pos[r] /\ (view.step[r] = "following" => i > view.from[r])
  BY <1>1, <1>9
<1>16. \A i \in 1 .. f : logs[r][i] > view.now =>
               i \in found \/ logs[r][i] \in view.gap \cup g \/ (view.step[r] = "following" /\ i <= view.from[r])
  BY <1>13
<1>17. view.step[r] = "following" => view.from[r] <= f
  BY <1>1
<1>. QED
  BY ONLY LogsInv, r \in Tailed, <1>1, <1>10, <1>12, <1>14, <1>15, <1>16, <1>17, DeliversKeep

LEMMA LiveEmitsKeeps ==
    ASSUME LogsInv, NEW r \in Tailed, LiveEmits(r) PROVE LogsInv'
<1>1. /\ UNCHANGED <<clock, logs, writing>> /\ view.phase = "live" /\ view.step[r] = "following"
      /\ view.from[r] < Len(logs[r]) /\ ReadersOK /\ view \in Views
  BY DEF LogsInv, LogsType, LiveEmits
<1>2. /\ Len(logs[r]) \in Nat /\ view.from[r] \in Nat /\ view.pos[r] \in Nat /\ view.pos[r] <= view.from[r]
  BY <1>1, PlacesFacts DEF Views, ReadersOK
<1>. DEFINE f == view.from[r] + 1
            is == {f}
            ts == {logs[r][i] : i \in is}
            tw == view.twice \/ ts \cap (view.tail \cup Upto(view.out, Len(view.out))) # {}
            nil == {}
<1>3. ts = {logs[r][f]} /\ view.gap \cup nil = view.gap /\ nil \in SUBSET Nat
  OBVIOUS
<1>4. view' = [view EXCEPT !.tail = view.tail \cup ts, !.twice = tw,
                            !.from = [view.from EXCEPT ![r] = f], !.step = [view.step EXCEPT ![r] = "following"],
                            !.gap = view.gap \cup nil]
  <2>1. PICK d : d = Deliver(view, ts)
    OBVIOUS
  <2>2. d = [view EXCEPT !.tail = view.tail \cup ts, !.twice = tw]
    BY <2>1, <1>1 DEF Deliver, Views
  <2>3. view' = [d EXCEPT !.from[r] = d.from[r] + 1]
    BY <2>1, <1>3 DEF LiveEmits
  <2>. HIDE DEF ts, tw
  <2>4. d.from = view.from /\ d.step = view.step /\ d.gap = view.gap
    BY ONLY <2>2, <1>1 DEF Views
  <2>5. [view.step EXCEPT ![r] = "following"] = view.step
    BY ONLY <1>1, r \in Tailed DEF Views
  <2>. HIDE DEF nil
  <2>. QED
    BY ONLY <2>2, <2>3, <2>4, <2>5, <1>1, <1>3 DEF Views
<1>5. f \in Nat /\ is \subseteq 1 .. f /\ view.pos[r] <= f /\ f <= Len(logs[r]) /\ view.from[r] <= f
      /\ \A i \in is : i > view.pos[r] /\ (view.step[r] = "following" => i > view.from[r])
  BY <1>1, <1>2
<1>6. \A i \in 1 .. f : i \in is \/ i <= view.from[r]
  BY <1>2
<1>7. \A i \in 1 .. f : logs[r][i] > view.now =>
               i \in is \/ logs[r][i] \in view.gap \cup nil \/ (view.step[r] = "following" /\ i <= view.from[r])
  BY <1>1, <1>6
<1>. HIDE DEF f, is, nil
<1>. QED
  BY ONLY LogsInv, r \in Tailed, <1>1, <1>3, <1>4, <1>5, <1>7, DeliversKeep

LEMMA ComposeKeepsLogs ==
    ASSUME LogsInv, [ComposeNext]_composeVars PROVE LogsInv'
<1>1. CASE UNCHANGED logsVars
  <2>1. clock' = clock /\ logs' = logs /\ writing' = writing /\ view' = view
    BY <1>1 DEF logsVars
  <2>2. LogsType' /\ TimesApart' /\ ReadersOK'
    BY <2>1 DEF LogsInv, LogsType, TimesApart, ReadersOK
  <2>3. StockOK' /\ StreamOK' /\ OrderOK'
    BY <2>1 DEF LogsInv, StockOK, StreamOK, StreamWhole, OrderOK, LogsSorted, Upto
  <2>. QED
    BY <2>2, <2>3 DEF LogsInv
<1>2. CASE LogsNext
  <2>1. CASE LogsBegin \/ StockOver \/ LogsCancel
    BY <2>1, LogsBeginKeeps, StockOverKeeps, LogsCancelKeeps
  <2>2. CASE \E r \in Tailed :
                \/ Stamps(r) \/ Writes(r) \/ StockEnds(r) \/ StockEmits(r)
                \/ LiveScans(r) \/ LiveMarks(r) \/ LiveJoins(r) \/ LiveEmits(r)
    BY <2>2, StampsKeeps, WritesKeeps, StockEndsKeeps, StockEmitsKeeps,
       LiveScansKeeps, LiveMarksKeeps, LiveJoinsKeeps, LiveEmitsKeeps
  <2>. QED
    BY <1>2, <2>1, <2>2 DEF LogsNext
<1>. QED
  BY <1>1, <1>2 DEF ComposeNext, composeVars, LogsStep

LEMMA LogsFollow == LogsInv => LogsSafety
<1>1. SUFFICES ASSUME LogsInv PROVE LogsSafety
  OBVIOUS
<1>2. LogsType /\ ReadersOK /\ StockOK /\ StreamOK /\ OrderOK /\ view \in Views
  BY <1>1 DEF LogsInv, LogsType
<1>3. LogsOnce /\ StreamWhole
  BY <1>2 DEF LogsOnce, StockOK, StreamOK
<1>4. StockInOrder
  BY <1>2 DEF StockInOrder, OrderOK, LogsSorted
<1>5. StockWhole
  <2>1. SUFFICES ASSUME view.phase \in {"live", "over"}, NEW r \in Tailed \ view.failed, NEW i \in 1 .. view.was[r]
                 PROVE  logs[r][i] \in Upto(view.out, Len(view.out))
    BY DEF StockWhole, Upto
  <2>2. view.was[r] <= view.pos[r] /\ view.was[r] \in Nat /\ view.pos[r] \in Nat
    BY <2>1, <1>2 DEF StockOK, Views
  <2>3. i \in 1 .. view.pos[r]
    BY ONLY <2>2, i \in 1 .. view.was[r]
  <2>4. PICK n \in DOMAIN view.out : view.out[n] = logs[r][i]
    BY <2>3, <1>2 DEF StockOK
  <2>5. view.out \in Seq(Nat)
    BY <1>2 DEF Views
  <2>. QED
    BY <2>4, <2>5 DEF Upto
<1>. QED
  BY <1>3, <1>4, <1>5 DEF LogsSafety

\* The logs of a project: no record is put out twice, what a log had when the
\* command began is all in the stock, the stock is in the order of time as far
\* as each log is, and a follower passes over nothing that is newer than the
\* boundary and was not written between its read and its look at the end.
THEOREM LogsAreTrue == ComposeSpec => []LogsSafety
<1>1. ComposeInit => LogsInv
  BY LogsInitInv DEF ComposeInit
<1>2. LogsInv /\ [ComposeNext]_composeVars => LogsInv'
  BY ComposeKeepsLogs
<1>. QED
  BY <1>1, <1>2, LogsFollow, PTL DEF ComposeSpec

-----------------------------------------------------------------------------
(* Functions defined by what each step makes of the one before             *)

\* f begins at x and goes on with G, for N steps.
Iterates(f, X, x, G, N) ==
    /\ f \in [0 .. N -> X] /\ f[0] = x
    /\ \A n \in 1 .. N : f[n] = G[f[n - 1]]

LEMMA IteratesExists ==
    ASSUME NEW X, NEW x \in X, NEW G \in [X -> X], NEW N \in Nat
    PROVE  \E f : Iterates(f, X, x, G, N)
<1>. DEFINE Q == {n \in Nat : \E f : Iterates(f, X, x, G, n)}
<1>1. 0 \in Q
  <2>1. PICK f : f = [n \in 0 .. 0 |-> x]
    OBVIOUS
  <2>2. Iterates(f, X, x, G, 0)
    BY <2>1 DEF Iterates
  <2>. QED
    BY <2>2
<1>2. ASSUME NEW n \in Nat, n \in Q PROVE n + 1 \in Q
  <2>1. PICK f : Iterates(f, X, x, G, n)
    BY <1>2
  <2>2. f \in [0 .. n -> X] /\ f[0] = x /\ (\A m \in 1 .. n : f[m] = G[f[m - 1]]) /\ f[n] \in X /\ G[f[n]] \in X
    BY <2>1 DEF Iterates
  <2>3. PICK g : g = [m \in 0 .. n + 1 |-> IF m = n + 1 THEN G[f[n]] ELSE f[m]]
    OBVIOUS
  <2>4. g \in [0 .. n + 1 -> X]
    <3>1. ASSUME NEW m \in 0 .. n + 1, m # n + 1 PROVE f[m] \in X
      <4>1. m \in 0 .. n
        BY <3>1
      <4>. QED
        BY <4>1, <2>2
    <3>. QED
      BY <3>1, <2>2, <2>3
  <2>5. g[0] = x
    BY <2>2, <2>3
  <2>6. ASSUME NEW m \in 1 .. n + 1 PROVE g[m] = G[g[m - 1]]
    <3>1. m - 1 \in 0 .. n + 1 /\ m \in 0 .. n + 1 /\ m - 1 # n + 1
      OBVIOUS
    <3>2. g[m - 1] = f[m - 1]
      BY <3>1, <2>3
    <3>3. CASE m = n + 1
      BY <3>1, <3>2, <3>3, <2>3
    <3>4. CASE m # n + 1
      <4>1. m \in 1 .. n
        BY <3>4
      <4>2. f[m] = G[f[m - 1]]
        BY <4>1, <2>2
      <4>. QED
        BY <4>2, <3>1, <3>2, <3>4, <2>3
    <3>. QED
      BY <3>3, <3>4
  <2>7. Iterates(g, X, x, G, n + 1)
    BY <2>4, <2>5, <2>6 DEF Iterates
  <2>. QED
    BY <2>7
<1>. HIDE DEF Q
<1>3. \A n \in Nat : n \in Q
  BY <1>1, <1>2, SetInduction
<1>4. N \in Q
  BY <1>3
<1>. QED
  BY <1>4 DEF Q

LEMMA IteratesUnique ==
    ASSUME NEW X, NEW x, NEW G, NEW N \in Nat, NEW f, NEW g, Iterates(f, X, x, G, N), Iterates(g, X, x, G, N)
    PROVE  f = g
<1>. DEFINE Q == {n \in Nat : n \in 0 .. N => f[n] = g[n]}
<1>0. f \in [0 .. N -> X] /\ g \in [0 .. N -> X]
  BY DEF Iterates
<1>1. 0 \in Q
  BY DEF Iterates
<1>2. ASSUME NEW n \in Nat, n \in Q PROVE n + 1 \in Q
  <2>1. SUFFICES ASSUME n + 1 \in 0 .. N PROVE f[n + 1] = g[n + 1]
    OBVIOUS
  <2>2. n + 1 \in 1 .. N /\ n \in 0 .. N /\ (n + 1) - 1 = n
    BY <2>1
  <2>3. f[n + 1] = G[f[n]] /\ g[n + 1] = G[g[n]]
    BY ONLY <2>2, Iterates(f, X, x, G, N), Iterates(g, X, x, G, N) DEF Iterates
  <2>. QED
    BY <2>2, <2>3, <1>2
<1>. HIDE DEF Q
<1>3. \A n \in Nat : n \in Q
  BY <1>1, <1>2, SetInduction
<1>4. \A n \in 0 .. N : f[n] = g[n]
  BY <1>3 DEF Q
<1>. QED
  BY <1>0, <1>4

\* A step that only adds.
Adds(G, S) == G \in [SUBSET S -> SUBSET S] /\ \A T \in SUBSET S : T \subseteq G[T]
Climbs(f, G, m, N) == \A n \in m .. N : f[m] \subseteq f[n] /\ (G[f[m]] = f[m] => f[n] = f[m])

\* Sets that only grow: once a step adds nothing, none after it does.
LEMMA GrowsUp ==
    ASSUME NEW S, NEW x, NEW G, Adds(G, S),
           NEW N \in Nat, NEW f, Iterates(f, SUBSET S, x, G, N), NEW m \in 0 .. N
    PROVE  Climbs(f, G, m, N)
<1>0. G \in [SUBSET S -> SUBSET S] /\ \A T \in SUBSET S : T \subseteq G[T]
  BY DEF Adds
<1>. DEFINE Q == {d \in Nat : m + d <= N => f[m] \subseteq f[m + d] /\ (G[f[m]] = f[m] => f[m + d] = f[m])}
<1>1. 0 \in Q
  OBVIOUS
<1>2. ASSUME NEW d \in Nat, d \in Q PROVE d + 1 \in Q
  <2>1. SUFFICES ASSUME m + (d + 1) <= N
                 PROVE  f[m] \subseteq f[m + (d + 1)] /\ (G[f[m]] = f[m] => f[m + (d + 1)] = f[m])
    OBVIOUS
  <2>2. /\ m + (d + 1) \in 1 .. N /\ m + d \in 0 .. N /\ (m + (d + 1)) - 1 = m + d /\ m + d <= N
    BY <2>1
  <2>3. f[m + (d + 1)] = G[f[m + d]] /\ f[m + d] \in SUBSET S
    BY ONLY <2>2, Iterates(f, SUBSET S, x, G, N) DEF Iterates
  <2>4. f[m + d] \subseteq G[f[m + d]]
    BY <1>0, <2>3
  <2>5. f[m] \subseteq f[m + d] /\ (G[f[m]] = f[m] => f[m + d] = f[m])
    BY <1>2, <2>2
  <2>. QED
    BY ONLY <2>3, <2>4, <2>5
<1>. HIDE DEF Q
<1>3. \A d \in Nat : d \in Q
  BY <1>1, <1>2, SetInduction
<1>4. ASSUME NEW n \in m .. N PROVE f[m] \subseteq f[n] /\ (G[f[m]] = f[m] => f[n] = f[m])
  <2>1. n - m \in Nat /\ m + (n - m) = n /\ m + (n - m) <= N
    OBVIOUS
  <2>2. n - m \in Q
    BY <2>1, <1>3
  <2>3. m + (n - m) <= N => f[m] \subseteq f[m + (n - m)] /\ (G[f[m]] = f[m] => f[m + (n - m)] = f[m])
    BY <2>2 DEF Q
  <2>. QED
    BY <2>1, <2>3
<1>. QED
  BY <1>4 DEF Climbs

\* As many steps as there are elements are enough.
LEMMA GrowsFull ==
    ASSUME NEW S, IsFiniteSet(S), NEW x, NEW G, Adds(G, S),
           NEW f, Iterates(f, SUBSET S, x, G, Cardinality(S))
    PROVE  G[f[Cardinality(S)]] = f[Cardinality(S)]
<1>a. G \in [SUBSET S -> SUBSET S] /\ \A T \in SUBSET S : T \subseteq G[T]
  BY DEF Adds
<1>. DEFINE N == Cardinality(S)
            Q == {n \in Nat : n <= N => G[f[n]] = f[n] \/ Cardinality(f[n]) >= n}
<1>0. N \in Nat
  BY FS_CardinalityType
<1>1. \A n \in 0 .. N : f[n] \in SUBSET S /\ IsFiniteSet(f[n]) /\ Cardinality(f[n]) \in Nat
  <2>1. ASSUME NEW n \in 0 .. N PROVE f[n] \in SUBSET S
    BY DEF Iterates
  <2>. QED
    BY <2>1, FS_Subset, FS_CardinalityType
<1>. HIDE DEF N
<1>2. 0 \in Q
  <2>1. 0 \in 0 .. N
    BY <1>0
  <2>2. Cardinality(f[0]) >= 0
    BY <2>1, <1>1
  <2>. QED
    BY <2>2
<1>3. ASSUME NEW n \in Nat, n \in Q PROVE n + 1 \in Q
  <2>1. SUFFICES ASSUME n + 1 <= N PROVE G[f[n + 1]] = f[n + 1] \/ Cardinality(f[n + 1]) >= n + 1
    OBVIOUS
  <2>2. n + 1 \in 1 .. N /\ n + 1 \in 0 .. N /\ n \in 0 .. N /\ (n + 1) - 1 = n /\ n <= N
    BY <1>0, <2>1
  <2>3. f[n + 1] = G[f[n]]
    BY ONLY <2>2, Iterates(f, SUBSET S, x, G, Cardinality(S)) DEF Iterates, N
  <2>4. /\ f[n] \in SUBSET S /\ IsFiniteSet(f[n + 1]) /\ Cardinality(f[n]) \in Nat /\ Cardinality(f[n + 1]) \in Nat
    BY <2>2, <1>1
  <2>5. CASE G[f[n]] = f[n]
    BY ONLY <2>5, <2>3
  <2>6. CASE G[f[n]] # f[n]
    <3>1. f[n] \subseteq f[n + 1] /\ f[n] # f[n + 1]
      BY <1>a, <2>3, <2>4, <2>6
    <3>2. /\ Cardinality(f[n]) <= Cardinality(f[n + 1])
          /\ Cardinality(f[n + 1]) = Cardinality(f[n]) => f[n + 1] = f[n]
      BY ONLY <3>1, <2>4, FS_Subset
    <3>3. Cardinality(f[n]) >= n
      BY <2>2, <2>6, <1>3
    <3>. QED
      BY ONLY <3>1, <3>2, <3>3, <2>4, n \in Nat
  <2>. QED
    BY <2>5, <2>6
<1>. HIDE DEF Q
<1>4. \A n \in Nat : n \in Q
  BY <1>2, <1>3, SetInduction
<1>5. G[f[N]] = f[N] \/ Cardinality(f[N]) >= N
  BY <1>0, <1>4 DEF Q
<1>6. f[N] \in SUBSET S /\ Cardinality(f[N]) \in Nat
  BY <1>0, <1>1
<1>7. CASE Cardinality(f[N]) >= N
  <2>1. Cardinality(f[N]) <= Cardinality(S) /\ (Cardinality(S) = Cardinality(f[N]) => S = f[N])
    BY <1>6, FS_Subset
  <2>2. f[N] = S
    BY ONLY <2>1, <1>0, <1>6, <1>7 DEF N
  <2>3. S \subseteq G[S] /\ G[S] \in SUBSET S
    BY <1>a
  <2>. QED
    BY <2>2, <2>3 DEF N
<1>. QED
  BY <1>5, <1>7 DEF N

-----------------------------------------------------------------------------
(* The layers of a graph                                                   *)

PeelStep(names, deps) == [T \in SUBSET names |-> T \cup {c \in names : deps[c] \subseteq T}]
LayersFrom(P, names) ==
    LET height == CHOOSE n \in 0 .. Cardinality(names) :
            /\ P[n] = P[Cardinality(names)]
            /\ \A m \in 0 .. n - 1 : P[m] # P[n]
    IN  IF P[height] # names THEN <<{}>>
        ELSE [n \in 1 .. height |-> P[n] \ P[n - 1]]

LEMMA PeelSteps ==
    ASSUME NEW names, NEW deps
    PROVE  Adds(PeelStep(names, deps), names)
BY DEF PeelStep, Adds

Peels(P, names, deps) == Iterates(P, SUBSET names, {}, PeelStep(names, deps), Cardinality(names))

LEMMA PeelsExists ==
    ASSUME NEW names, IsFiniteSet(names), NEW deps PROVE \E P : Peels(P, names, deps)
<1>1. PICK g : g = PeelStep(names, deps)
  OBVIOUS
<1>2. g \in [SUBSET names -> SUBSET names]
  BY <1>1, PeelSteps DEF Adds
<1>3. Cardinality(names) \in Nat /\ {} \in SUBSET names
  BY FS_CardinalityType
<1>4. \E P : Iterates(P, SUBSET names, {}, g, Cardinality(names))
  BY ONLY <1>2, <1>3, IteratesExists
<1>. QED
  BY <1>1, <1>4 DEF Peels

LEMMA TopoLayersAre ==
    ASSUME NEW names, IsFiniteSet(names), NEW deps, NEW P, Peels(P, names, deps)
    PROVE  TopoLayers(names, deps) = LayersFrom(P, names)
<1>. DEFINE N == Cardinality(names)
            Body(f) == [n \in 0 .. N |->
                           IF n = 0 THEN {} ELSE f[n - 1] \cup {c \in names : deps[c] \subseteq f[n - 1]}]
            C == CHOOSE f : f = Body(f)
            G == PeelStep(names, deps)
<1>1. N \in Nat
  BY FS_CardinalityType
<1>2. P = Body(P)
  <2>1. P \in [0 .. N -> SUBSET names] /\ P[0] = {}
    BY DEF Iterates, Peels
  <2>2. ASSUME NEW n \in 0 .. N PROVE P[n] = Body(P)[n]
    <3>1. CASE n = 0
      BY <2>1, <3>1
    <3>2. CASE n # 0
      <4>1. n \in 1 .. N /\ n - 1 \in 0 .. N
        BY <1>1, <3>2
      <4>2. P[n] = G[P[n - 1]]
        BY ONLY <4>1, Peels(P, names, deps) DEF Peels, Iterates
      <4>3. P[n - 1] \in SUBSET names
        BY ONLY <4>1, <2>1
      <4>4. P[n] = P[n - 1] \cup {c \in names : deps[c] \subseteq P[n - 1]}
        BY ONLY <4>2, <4>3 DEF PeelStep
      <4>. QED
        BY <4>4, <3>2
    <3>. QED
      BY <3>1, <3>2
  <2>3. Body(P) = [n \in 0 .. N |-> Body(P)[n]]
    OBVIOUS
  <2>. HIDE DEF Body
  <2>. QED
    BY ONLY <2>1, <2>2, <2>3
<1>3. C = Body(C)
  BY <1>2
<1>. HIDE DEF C
<1>4. C[0] = {} /\ DOMAIN C = 0 .. N /\ C = [n \in 0 .. N |-> C[n]]
  <2>1. Body(C)[0] = {} /\ DOMAIN Body(C) = 0 .. N /\ Body(C) = [n \in 0 .. N |-> Body(C)[n]]
    BY <1>1
  <2>. HIDE DEF Body
  <2>. QED
    BY ONLY <2>1, <1>3
<1>5. ASSUME NEW n \in 1 .. N
      PROVE C[n] = C[n - 1] \cup {c \in names : deps[c] \subseteq C[n - 1]}
  <2>1. Body(C)[n] = C[n - 1] \cup {c \in names : deps[c] \subseteq C[n - 1]}
    BY <1>1
  <2>. HIDE DEF Body
  <2>. QED
    BY ONLY <2>1, <1>3
<1>. HIDE DEF Body
<1>6. \A n \in 0 .. N : C[n] \in SUBSET names
  <2>. DEFINE Q == {n \in Nat : n \in 0 .. N => C[n] \in SUBSET names}
  <2>1. 0 \in Q
    BY <1>4
  <2>2. ASSUME NEW n \in Nat, n \in Q PROVE n + 1 \in Q
    <3>1. SUFFICES ASSUME n + 1 \in 0 .. N PROVE C[n + 1] \in SUBSET names
      OBVIOUS
    <3>2. n + 1 \in 1 .. N /\ n \in 0 .. N /\ (n + 1) - 1 = n
      BY <1>1, <3>1
    <3>3. C[n + 1] = C[n] \cup {c \in names : deps[c] \subseteq C[n]}
      BY <3>2, <1>5
    <3>. QED
      BY <3>2, <3>3, <2>2
  <2>. HIDE DEF Q
  <2>3. \A n \in Nat : n \in Q
    BY <2>1, <2>2, SetInduction
  <2>. QED
    BY <2>3 DEF Q
<1>7. C \in [0 .. N -> SUBSET names]
  BY ONLY <1>4, <1>6
<1>8. ASSUME NEW n \in 1 .. N PROVE C[n] = G[C[n - 1]]
  <2>1. n - 1 \in 0 .. N
    BY <1>1
  <2>2. C[n - 1] \in SUBSET names
    BY <2>1, <1>6
  <2>. QED
    BY <2>2, <1>5 DEF PeelStep
<1>9. Iterates(C, SUBSET names, {}, G, N)
  BY ONLY <1>4, <1>7, <1>8 DEF Iterates
<1>10. C = P
  BY ONLY <1>9, <1>1, Peels(P, names, deps), IteratesUnique DEF Peels
<1>11. TopoLayers(names, deps) = LayersFrom(C, names)
  BY DEF TopoLayers, LayersFrom, C, Body
<1>. QED
  BY <1>10, <1>11

Height(h, P, names) ==
    /\ LayersFrom(P, names) = IF P[h] # names THEN <<{}>> ELSE [n \in 1 .. h |-> P[n] \ P[n - 1]]
    /\ P[h] = P[Cardinality(names)]
    /\ \A n \in 1 .. h : P[n] # P[n - 1]

LEMMA Heights ==
    ASSUME NEW names, IsFiniteSet(names), NEW deps, NEW P, Peels(P, names, deps)
    PROVE  \E h \in 0 .. Cardinality(names) : Height(h, P, names)
<1>. DEFINE N == Cardinality(names)
            G == PeelStep(names, deps)
            Good(n) == P[n] = P[N] /\ \A m \in 0 .. n - 1 : P[m] # P[n]
            h == CHOOSE n \in 0 .. N : Good(n)
<1>1. N \in Nat
  BY FS_CardinalityType
<1>2. \E n \in 0 .. N : Good(n)
  <2>. DEFINE H == {n \in 0 .. N : P[n] = P[N]}
  <2>1. H \subseteq Nat /\ N \in H
    BY <1>1
  <2>2. PICK n \in H : \A m \in H : n <= m
    BY <2>1, LeastNatural
  <2>3. ASSUME NEW m \in 0 .. n - 1 PROVE P[m] # P[n]
    <3>1. m \in 0 .. N /\ ~(n <= m)
      BY <1>1, <2>1
    <3>2. m \notin H
      BY <2>2, <3>1
    <3>. QED
      BY <3>1, <3>2
  <2>. QED
    BY <2>3
<1>3. h \in 0 .. N /\ Good(h)
  BY <1>2
<1>4. LayersFrom(P, names) = IF P[h] # names THEN <<{}>> ELSE [n \in 1 .. h |-> P[n] \ P[n - 1]]
  BY DEF LayersFrom
<1>. HIDE DEF h
<1>5. ASSUME NEW n \in 1 .. h, P[n] = P[n - 1] PROVE FALSE
  <2>1. n \in 1 .. N /\ n - 1 \in 0 .. N /\ h \in n - 1 .. N /\ n - 1 \in 0 .. h - 1
    BY <1>1, <1>3
  <2>2. P[n] = G[P[n - 1]]
    BY ONLY <2>1, Peels(P, names, deps) DEF Peels, Iterates
  <2>3. P[h] = P[n - 1]
    <3>1. PICK g : g = G
      OBVIOUS
    <3>2. Adds(g, names)
      BY <3>1, PeelSteps
    <3>3. Iterates(P, SUBSET names, {}, g, N)
      BY <3>1 DEF Peels
    <3>4. Climbs(P, g, n - 1, N)
      BY ONLY <3>2, <3>3, <1>1, <2>1, GrowsUp
    <3>5. g[P[n - 1]] = P[n - 1]
      BY ONLY <2>2, <3>1, <1>5
    <3>. QED
      BY ONLY <3>4, <3>5, <2>1 DEF Climbs
  <2>. QED
    BY <2>1, <2>3, <1>3
<1>. QED
  BY <1>3, <1>4, <1>5 DEF Height

\* What the layers of a graph are for: each command is in one layer, comes after
\* what is in lower ones, and after something in the layer below.
Layering(layers, names, deps) ==
    /\ layers \in Seq(SUBSET names)
    /\ \A c \in names : \E n \in 1 .. Len(layers) : c \in layers[n]
    /\ \A n, m \in 1 .. Len(layers) : n # m => layers[n] \cap layers[m] = {}
    /\ \A n \in 1 .. Len(layers) : \A c \in layers[n] :
          /\ \A d \in deps[c] : \E m \in 1 .. n - 1 : d \in layers[m]
          /\ n = 1 \/ deps[c] \cap layers[n - 1] # {}

Peelings(P, names, deps, N) ==
    /\ N \in Nat /\ P \in [0 .. N -> SUBSET names] /\ P[0] = {}
    /\ \A m \in 0 .. N : \A n \in m .. N : P[m] \subseteq P[n]
    /\ \A n \in 1 .. N : P[n] = P[n - 1] \cup {c \in names : deps[c] \subseteq P[n - 1]}
    /\ \A c \in names : deps[c] \subseteq P[N] => c \in P[N]

LEMMA PeelGrows ==
    ASSUME NEW names, IsFiniteSet(names), NEW deps, NEW P, Peels(P, names, deps)
    PROVE  Peelings(P, names, deps, Cardinality(names))
<1>. DEFINE N == Cardinality(names)
<1>1. N \in Nat
  BY FS_CardinalityType
<1>2. P \in [0 .. N -> SUBSET names] /\ P[0] = {} /\ P[N] \in SUBSET names
  BY <1>1 DEF Iterates, Peels
<1>3. PICK g : g = PeelStep(names, deps)
  OBVIOUS
<1>4. Adds(g, names)
  BY <1>3, PeelSteps
<1>5. Iterates(P, SUBSET names, {}, g, N)
  BY <1>3 DEF Peels
<1>. HIDE DEF N
<1>6. ASSUME NEW m \in 0 .. N PROVE \A n \in m .. N : P[m] \subseteq P[n]
  <2>1. Climbs(P, g, m, N)
    BY ONLY <1>1, <1>4, <1>5, m \in 0 .. N, GrowsUp
  <2>. QED
    BY ONLY <2>1 DEF Climbs
<1>7. ASSUME NEW n \in 1 .. N PROVE P[n] = P[n - 1] \cup {c \in names : deps[c] \subseteq P[n - 1]}
  <2>1. P[n] = g[P[n - 1]] /\ n - 1 \in 0 .. N
    BY <1>1, <1>5 DEF Iterates
  <2>2. P[n - 1] \in SUBSET names
    BY ONLY <2>1, <1>2
  <2>. QED
    BY ONLY <2>1, <2>2, <1>3 DEF PeelStep
<1>8. g[P[N]] = P[N]
  BY ONLY IsFiniteSet(names), <1>4, <1>5, GrowsFull DEF N
<1>9. g[P[N]] = P[N] \cup {c \in names : deps[c] \subseteq P[N]}
  BY ONLY <1>2, <1>3 DEF PeelStep
<1>10. \A c \in names : deps[c] \subseteq P[N] => c \in P[N]
  BY ONLY <1>8, <1>9
<1>. QED
  BY ONLY <1>1, <1>2, <1>6, <1>7, <1>10 DEF N, Peelings

LEMMA LayersFull ==
    ASSUME NEW names, IsFiniteSet(names), NEW deps, NEW P, Peels(P, names, deps)
    PROVE  /\ TopoLayers(names, deps) # <<{}>> <=> P[Cardinality(names)] = names
           /\ TopoLayers(names, deps) # <<{}>> => Layering(TopoLayers(names, deps), names, deps)
<1>. DEFINE N == Cardinality(names)
<1>0. PICK h \in 0 .. N : Height(h, P, names)
  BY Heights
<1>1. /\ h \in 0 .. N
      /\ LayersFrom(P, names) = IF P[h] # names THEN <<{}>> ELSE [n \in 1 .. h |-> P[n] \ P[n - 1]]
      /\ P[h] = P[N]
      /\ \A n \in 1 .. h : P[n] # P[n - 1]
  BY <1>0 DEF Height
<1>2. PICK L : L = TopoLayers(names, deps)
  OBVIOUS
<1>3. L = LayersFrom(P, names)
  BY <1>2, TopoLayersAre
<1>4. /\ N \in Nat /\ P \in [0 .. N -> SUBSET names] /\ P[0] = {}
      /\ \A m \in 0 .. N : \A n \in m .. N : P[m] \subseteq P[n]
      /\ \A n \in 1 .. N : P[n] = P[n - 1] \cup {c \in names : deps[c] \subseteq P[n - 1]}
  <2>1. Peelings(P, names, deps, N)
    BY PeelGrows
  <2>. QED
    BY <2>1 DEF Peelings
<1>. HIDE DEF N
<1>5. P[h] # names => L = <<{}>>
  BY ONLY <1>1, <1>3
<1>6. ASSUME P[h] = names PROVE L # <<{}>> /\ Layering(L, names, deps)
  <2>1. L = [n \in 1 .. h |-> P[n] \ P[n - 1]]
    BY ONLY <1>1, <1>3, <1>6
  <2>2. h \in Nat /\ DOMAIN L = 1 .. h /\ (\A n \in 1 .. h : L[n] = P[n] \ P[n - 1])
    BY ONLY <2>1, <1>1, <1>4
  <2>3. \A n \in 0 .. h : P[n] \in SUBSET names
    BY ONLY <1>1, <1>4
  <2>4. L \in Seq(SUBSET names) /\ Len(L) = h
    <3>1. \A n \in 1 .. h : L[n] \in SUBSET names
      BY ONLY <2>2, <2>3
    <3>2. L = [n \in 1 .. h |-> L[n]]
      BY ONLY <2>1, <2>2
    <3>3. L \in [1 .. h -> SUBSET names]
      BY ONLY <3>1, <3>2
    <3>4. L \in Seq(SUBSET names)
      BY ONLY <3>3, <2>2
    <3>. QED
      BY ONLY <3>4, <2>2
  <2>5. \A n \in 1 .. h : n - 1 \in 0 .. h /\ n \in 0 .. h /\ n \in 1 .. N /\ n - 1 \in 0 .. N
    BY ONLY <1>1, <1>4
  <2>6. \A m \in 0 .. h : \A n \in m .. h : P[m] \subseteq P[n]
    <3>1. SUFFICES ASSUME NEW m \in 0 .. h, NEW n \in m .. h PROVE P[m] \subseteq P[n]
      OBVIOUS
    <3>2. m \in 0 .. N /\ n \in m .. N
      BY ONLY <1>1, <1>4, m \in 0 .. h, n \in m .. h
    <3>. QED
      BY ONLY <3>2, <1>4
  <2>7. L # <<{}>>
    <3>1. SUFFICES ASSUME L = <<{}>> PROVE FALSE
      OBVIOUS
    <3>2. Len(L) = 1 /\ L[1] = {}
      BY ONLY <3>1
    <3>3. h = 1
      BY ONLY <3>2, <2>4
    <3>4. 1 \in 1 .. h /\ 0 \in 0 .. h /\ 1 \in 0 .. h /\ 1 - 1 = 0
      BY ONLY <3>3
    <3>5. P[1] \ P[0] = {} /\ P[1] # P[0]
      BY ONLY <3>2, <3>4, <2>2, <1>1
    <3>6. P[0] \subseteq P[1]
      BY ONLY <3>4, <2>6
    <3>. QED
      BY ONLY <3>5, <3>6
  <2>8. ASSUME NEW c \in names PROVE \E n \in 1 .. h : c \in L[n]
    <3>. DEFINE H == {n \in 0 .. h : c \in P[n]}
    <3>1. H \subseteq Nat /\ h \in H
      BY ONLY <2>2, <1>6, c \in names
    <3>2. PICK n \in H : \A m \in H : n <= m
      BY ONLY <3>1, LeastNatural
    <3>3. n \in 0 .. h /\ c \in P[n] /\ n # 0
      BY ONLY n \in H, <1>4
    <3>4. n \in 1 .. h
      BY ONLY <3>3, <2>2
    <3>5. n - 1 \notin H
      BY ONLY <3>2, <3>4, <2>2
    <3>6. c \notin P[n - 1]
      BY ONLY <3>5, <3>4, <2>2
    <3>. QED
      BY ONLY <3>3, <3>4, <3>6, <2>2
  <2>9. ASSUME NEW n \in 1 .. h, NEW m \in 1 .. h, n < m PROVE L[n] \cap L[m] = {}
    <3>1. m - 1 \in n .. h /\ n \in 0 .. h
      BY ONLY <2>2, <2>9
    <3>2. P[n] \subseteq P[m - 1]
      BY ONLY <3>1, <2>6
    <3>. QED
      BY ONLY <3>2, <2>2, n \in 1 .. h, m \in 1 .. h
  <2>10. ASSUME NEW n \in 1 .. h, NEW m \in 1 .. h, n # m PROVE L[n] \cap L[m] = {}
    <3>1. n < m \/ m < n
      BY ONLY <2>10, <2>2
    <3>2. CASE n < m
      BY ONLY <3>2, <2>9, n \in 1 .. h, m \in 1 .. h
    <3>3. CASE m < n
      <4>1. L[m] \cap L[n] = {}
        BY ONLY <3>3, <2>9, n \in 1 .. h, m \in 1 .. h
      <4>. QED
        BY ONLY <4>1
    <3>. QED
      BY ONLY <3>1, <3>2, <3>3
  <2>11. ASSUME NEW n \in 1 .. h, NEW c \in L[n] PROVE c \in names /\ deps[c] \subseteq P[n - 1]
    <3>1. c \in P[n] /\ c \notin P[n - 1]
      BY ONLY <2>2, n \in 1 .. h, c \in L[n]
    <3>2. P[n] = P[n - 1] \cup {x \in names : deps[x] \subseteq P[n - 1]}
      BY ONLY <1>4, <2>5, n \in 1 .. h
    <3>. QED
      BY ONLY <3>1, <3>2
  <2>12. ASSUME NEW n \in 1 .. h, NEW c \in L[n], NEW d \in deps[c] PROVE \E m \in 1 .. n - 1 : d \in L[m]
    <3>1. d \in P[n - 1] /\ n - 1 \in 0 .. h /\ n - 1 \in Nat
      BY ONLY <2>2, <2>5, <2>11, n \in 1 .. h, c \in L[n], d \in deps[c]
    <3>2. d \in names
      BY ONLY <3>1, <2>3
    <3>3. PICK m \in 1 .. h : d \in L[m]
      BY ONLY <3>2, <2>8
    <3>4. ~(n <= m)
      <4>1. SUFFICES ASSUME n <= m PROVE FALSE
        OBVIOUS
      <4>2. n - 1 \in 0 .. h /\ m - 1 \in n - 1 .. h
        BY ONLY <4>1, <2>2, n \in 1 .. h, m \in 1 .. h
      <4>3. P[n - 1] \subseteq P[m - 1]
        BY ONLY <4>2, <2>6
      <4>. QED
        BY ONLY <4>3, <3>1, <3>3, <2>2
    <3>5. m \in 1 .. n - 1
      BY ONLY <3>4, <2>2, n \in 1 .. h, m \in 1 .. h
    <3>. QED
      BY ONLY <3>3, <3>5
  <2>13. ASSUME NEW n \in 1 .. h, n # 1, NEW c \in L[n] PROVE deps[c] \cap L[n - 1] # {}
    <3>1. n - 1 \in 1 .. h /\ (n - 1) - 1 \in 0 .. h
      BY ONLY <2>2, <2>13
    <3>2. P[n - 1] = P[(n - 1) - 1] \cup {x \in names : deps[x] \subseteq P[(n - 1) - 1]}
      BY ONLY <3>1, <2>5, <1>4
    <3>3. c \notin P[n - 1] /\ c \in names /\ deps[c] \subseteq P[n - 1]
      BY ONLY <2>2, <2>11, n \in 1 .. h, c \in L[n]
    <3>4. PICK d \in deps[c] : d \notin P[(n - 1) - 1]
      BY ONLY <3>2, <3>3
    <3>5. d \in L[n - 1]
      BY ONLY <3>1, <3>3, <3>4, <2>2
    <3>. QED
      BY ONLY <3>5
  <2>. QED
    BY ONLY <2>4, <2>7, <2>8, <2>10, <2>12, <2>13 DEF Layering
<1>7. P[h] = P[N]
  BY ONLY <1>1
<1>. QED
  BY ONLY <1>2, <1>5, <1>6, <1>7 DEF N

-----------------------------------------------------------------------------
(* What a command comes after, however far                                 *)

Graphs == [Services -> SUBSET Services]
FarStep == [F \in Graphs |-> [c \in Services |-> F[c] \cup UNION {F[d] : d \in F[c]}]]
Fars(F, deps) == Iterates(F, Graphs, deps, FarStep, Cardinality(Services))

LEMMA FarSteps == FarStep \in [Graphs -> Graphs]
<1>1. ASSUME NEW F \in Graphs PROVE [c \in Services |-> F[c] \cup UNION {F[d] : d \in F[c]}] \in Graphs
  BY DEF Graphs
<1>. QED
  BY <1>1 DEF FarStep

LEMMA NeedsAre ==
    ASSUME NEW deps \in Graphs
    PROVE  \E F : Fars(F, deps) /\ Needs(Services, deps) = F[Cardinality(Services)]
<1>. DEFINE N == Cardinality(Services)
            Body(f) == [n \in 0 .. N |->
                           IF n = 0 THEN deps
                           ELSE [c \in Services |-> f[n - 1][c] \cup UNION {f[n - 1][d] : d \in f[n - 1][c]}]]
            C == CHOOSE f : f = Body(f)
<1>1. N \in Nat
  BY ServicesAssumption, FS_CardinalityType
<1>2. PICK P : Iterates(P, Graphs, deps, FarStep, N)
  BY <1>1, FarSteps, IteratesExists
<1>3. P \in [0 .. N -> Graphs] /\ P[0] = deps
  BY <1>2 DEF Iterates
<1>4. P = Body(P)
  <2>2. ASSUME NEW n \in 0 .. N PROVE P[n] = Body(P)[n]
    <3>1. CASE n = 0
      BY <1>3, <3>1
    <3>2. CASE n # 0
      <4>1. n \in 1 .. N /\ n - 1 \in 0 .. N
        BY <1>1, <3>2
      <4>2. P[n] = FarStep[P[n - 1]]
        BY ONLY <4>1, <1>2 DEF Iterates
      <4>3. P[n - 1] \in Graphs
        BY ONLY <4>1, <1>3
      <4>4. P[n] = [c \in Services |-> P[n - 1][c] \cup UNION {P[n - 1][d] : d \in P[n - 1][c]}]
        BY ONLY <4>2, <4>3 DEF FarStep
      <4>. QED
        BY <4>4, <3>2
    <3>. QED
      BY <3>1, <3>2
  <2>3. Body(P) = [n \in 0 .. N |-> Body(P)[n]]
    OBVIOUS
  <2>. HIDE DEF Body
  <2>. QED
    BY ONLY <1>3, <2>2, <2>3
<1>5. C = Body(C)
  BY <1>4
<1>. HIDE DEF C
<1>6. C[0] = deps /\ C = [n \in 0 .. N |-> C[n]]
  <2>1. Body(C)[0] = deps /\ Body(C) = [n \in 0 .. N |-> Body(C)[n]]
    BY <1>1
  <2>. HIDE DEF Body
  <2>. QED
    BY ONLY <2>1, <1>5
<1>7. ASSUME NEW n \in 1 .. N
      PROVE C[n] = [c \in Services |-> C[n - 1][c] \cup UNION {C[n - 1][d] : d \in C[n - 1][c]}]
  <2>1. Body(C)[n] = [c \in Services |-> C[n - 1][c] \cup UNION {C[n - 1][d] : d \in C[n - 1][c]}]
    BY <1>1
  <2>. HIDE DEF Body
  <2>. QED
    BY ONLY <2>1, <1>5
<1>. HIDE DEF Body
<1>8. \A n \in 0 .. N : C[n] \in Graphs
  <2>. DEFINE Q == {n \in Nat : n \in 0 .. N => C[n] \in Graphs}
  <2>1. 0 \in Q
    BY <1>6
  <2>2. ASSUME NEW n \in Nat, n \in Q PROVE n + 1 \in Q
    <3>1. SUFFICES ASSUME n + 1 \in 0 .. N PROVE C[n + 1] \in Graphs
      OBVIOUS
    <3>2. n + 1 \in 1 .. N /\ n \in 0 .. N /\ (n + 1) - 1 = n
      BY <1>1, <3>1
    <3>3. C[n + 1] = [c \in Services |-> C[n][c] \cup UNION {C[n][d] : d \in C[n][c]}]
      BY ONLY <3>2, <1>7
    <3>4. C[n] \in Graphs
      BY <3>2, <2>2
    <3>. QED
      BY ONLY <3>3, <3>4 DEF Graphs
  <2>. HIDE DEF Q
  <2>3. \A n \in Nat : n \in Q
    BY <2>1, <2>2, SetInduction
  <2>. QED
    BY <2>3 DEF Q
<1>9. C \in [0 .. N -> Graphs]
  BY ONLY <1>6, <1>8
<1>10. ASSUME NEW n \in 1 .. N PROVE C[n] = FarStep[C[n - 1]]
  <2>1. n - 1 \in 0 .. N
    BY <1>1
  <2>2. C[n - 1] \in Graphs
    BY <2>1, <1>8
  <2>. QED
    BY ONLY <2>2, <1>7, n \in 1 .. N DEF FarStep
<1>11. Fars(C, deps)
  BY ONLY <1>6, <1>9, <1>10 DEF Iterates, Fars, N
<1>12. Needs(Services, deps) = C[N]
  BY DEF Needs, C, Body
<1>. QED
  BY <1>11, <1>12

LEMMA FarFacts ==
    ASSUME NEW deps \in Graphs, NEW F, Fars(F, deps)
    PROVE  /\ Cardinality(Services) \in Nat /\ F[0] = deps
           /\ \A n \in 0 .. Cardinality(Services) : F[n] \in Graphs
           /\ \A n \in 1 .. Cardinality(Services) : \A c \in Services :
                 F[n][c] = F[n - 1][c] \cup UNION {F[n - 1][d] : d \in F[n - 1][c]}
<1>1. Cardinality(Services) \in Nat
  BY ServicesAssumption, FS_CardinalityType
<1>2. F[0] = deps /\ (\A n \in 0 .. Cardinality(Services) : F[n] \in Graphs)
  BY DEF Fars, Iterates
<1>3. ASSUME NEW n \in 1 .. Cardinality(Services), NEW c \in Services
      PROVE  F[n][c] = F[n - 1][c] \cup UNION {F[n - 1][d] : d \in F[n - 1][c]}
  <2>1. F[n] = FarStep[F[n - 1]]
    BY DEF Fars, Iterates
  <2>2. F[n - 1] \in Graphs
    BY <1>1, <1>2
  <2>. QED
    BY ONLY <2>1, <2>2, c \in Services DEF FarStep
<1>. QED
  BY <1>1, <1>2, <1>3

LEMMA NeedsType ==
    ASSUME NEW deps \in Graphs PROVE Needs(Services, deps) \in Graphs
<1>1. PICK F : Fars(F, deps) /\ Needs(Services, deps) = F[Cardinality(Services)]
  BY NeedsAre
<1>2. Cardinality(Services) \in Nat /\ \A n \in 0 .. Cardinality(Services) : F[n] \in Graphs
  BY <1>1, FarFacts
<1>. QED
  BY <1>1, <1>2

\* What a command comes after is in lower layers.
LEMMA NeedsBelow ==
    ASSUME NEW deps \in Graphs, NEW names \in SUBSET Services, NEW layers, Layering(layers, names, deps)
    PROVE  \A n \in 1 .. Len(layers) : \A c \in layers[n] : \A d \in Needs(Services, deps)[c] :
              \E m \in 1 .. n - 1 : d \in layers[m]
<1>. DEFINE N == Cardinality(Services)
            Low(f) == \A n \in 1 .. Len(layers) : \A c \in layers[n] : \A d \in f[c] :
                          \E m \in 1 .. n - 1 : d \in layers[m]
<1>1. PICK F : Fars(F, deps) /\ Needs(Services, deps) = F[N]
  BY NeedsAre
<1>2. /\ N \in Nat /\ F[0] = deps
      /\ \A n \in 1 .. N : \A c \in Services :
             F[n][c] = F[n - 1][c] \cup UNION {F[n - 1][d] : d \in F[n - 1][c]}
  BY <1>1, FarFacts
<1>3. Len(layers) \in Nat /\ (\A n \in 1 .. Len(layers) : layers[n] \in SUBSET names)
  BY DEF Layering
<1>. DEFINE Q == {n \in Nat : n \in 0 .. N => Low(F[n])}
<1>. HIDE DEF N
<1>4. 0 \in Q
  <2>1. Low(deps)
    BY DEF Layering
  <2>. HIDE DEF Low
  <2>. QED
    BY <1>2, <2>1
<1>5. ASSUME NEW i \in Nat, i \in Q PROVE i + 1 \in Q
  <2>1. SUFFICES ASSUME i + 1 \in 0 .. N PROVE Low(F[i + 1])
    BY DEF Q
  <2>2. i + 1 \in 1 .. N /\ i \in 0 .. N /\ (i + 1) - 1 = i
    BY <2>1, <1>2
  <2>3. Low(F[i])
    <3>. HIDE DEF Low
    <3>. QED
      BY <2>2, <1>5 DEF Q
  <2>. HIDE DEF Q
  <2>4. SUFFICES ASSUME NEW n \in 1 .. Len(layers), NEW c \in layers[n], NEW d \in F[i + 1][c]
                 PROVE  \E m \in 1 .. n - 1 : d \in layers[m]
    OBVIOUS
  <2>5. c \in Services
    BY ONLY <1>3, names \in SUBSET Services, n \in 1 .. Len(layers), c \in layers[n]
  <2>6. F[i + 1][c] = F[i][c] \cup UNION {F[i][e] : e \in F[i][c]}
    BY ONLY <1>2, <2>2, <2>5
  <2>7. CASE d \in F[i][c]
    BY ONLY <2>3, <2>7, n \in 1 .. Len(layers), c \in layers[n]
  <2>8. CASE d \notin F[i][c]
    <3>1. PICK e \in F[i][c] : d \in F[i][e]
      BY ONLY <2>6, <2>8, d \in F[i + 1][c]
    <3>2. PICK m \in 1 .. n - 1 : e \in layers[m]
      BY ONLY <2>3, n \in 1 .. Len(layers), c \in layers[n], e \in F[i][c]
    <3>3. m \in 1 .. Len(layers)
      BY ONLY <1>3, n \in 1 .. Len(layers), m \in 1 .. n - 1
    <3>4. PICK j \in 1 .. m - 1 : d \in layers[j]
      BY ONLY <2>3, <3>1, <3>2, <3>3
    <3>5. j \in 1 .. n - 1
      BY ONLY <1>3, n \in 1 .. Len(layers), m \in 1 .. n - 1, j \in 1 .. m - 1
    <3>. QED
      BY ONLY <3>4, <3>5
  <2>. QED
    BY ONLY <2>7, <2>8
<1>. HIDE DEF Q
<1>6. \A n \in Nat : n \in Q
  BY ONLY <1>4, <1>5, SetInduction
<1>7. Low(F[N])
  <2>. HIDE DEF Low
  <2>. QED
    BY <1>2, <1>6 DEF Q
<1>. QED
  BY <1>1, <1>7

\* The least set that holds what c comes after and what its members come after.
Closed(T, deps) == \A x \in T : deps[x] \subseteq T
Reachable(c, deps) ==
    {d \in Services : \A T \in SUBSET Services : deps[c] \subseteq T /\ Closed(T, deps) => d \in T}
LinStep(deps) == [T \in SUBSET Services |-> T \cup UNION {deps[x] : x \in T}]

LEMMA ReachableNeeded ==
    ASSUME NEW deps \in Graphs, NEW c \in Services
    PROVE  Reachable(c, deps) \subseteq Needs(Services, deps)[c]
<1>. DEFINE N == Cardinality(Services)
<1>1. PICK F : Fars(F, deps) /\ Needs(Services, deps) = F[N]
  BY NeedsAre
<1>2. /\ N \in Nat /\ F[0] = deps /\ (\A n \in 0 .. N : F[n] \in Graphs)
      /\ \A n \in 1 .. N : \A x \in Services :
             F[n][x] = F[n - 1][x] \cup UNION {F[n - 1][d] : d \in F[n - 1][x]}
  BY <1>1, FarFacts
<1>3. PICK g : g = LinStep(deps)
  OBVIOUS
<1>4. Adds(g, Services)
  BY <1>3 DEF LinStep, Adds, Graphs
<1>5. g \in [SUBSET Services -> SUBSET Services] /\ deps[c] \in SUBSET Services
  BY <1>4 DEF Adds, Graphs
<1>6. PICK L : Iterates(L, SUBSET Services, deps[c], g, N)
  BY ONLY <1>2, <1>5, IteratesExists
<1>7. g[L[N]] = L[N]
  BY ONLY <1>4, <1>6, ServicesAssumption, GrowsFull
<1>. HIDE DEF N
<1>8. L[0] = deps[c] /\ (\A n \in 0 .. N : L[n] \in SUBSET Services)
  BY ONLY <1>6 DEF Iterates
<1>9. ASSUME NEW n \in 1 .. N PROVE L[n] = L[n - 1] \cup UNION {deps[x] : x \in L[n - 1]}
  <2>1. L[n] = g[L[n - 1]] /\ n - 1 \in 0 .. N
    BY ONLY <1>2, <1>6, n \in 1 .. N DEF Iterates
  <2>2. L[n - 1] \in SUBSET Services
    BY ONLY <2>1, <1>8
  <2>. QED
    BY ONLY <2>1, <2>2, <1>3 DEF LinStep
<1>10. deps[c] \subseteq L[N] /\ Closed(L[N], deps) /\ L[N] \in SUBSET Services
  <2>1. Climbs(L, g, 0, N)
    <3>1. 0 \in 0 .. N
      BY ONLY <1>2
    <3>. QED
      BY ONLY <3>1, <1>2, <1>4, <1>6, GrowsUp
  <2>2. deps[c] \subseteq L[N]
    BY ONLY <2>1, <1>2, <1>8 DEF Climbs
  <2>3. L[N] \in SUBSET Services
    BY ONLY <1>2, <1>8
  <2>4. g[L[N]] = L[N] \cup UNION {deps[x] : x \in L[N]}
    BY ONLY <2>3, <1>3 DEF LinStep
  <2>5. Closed(L[N], deps)
    BY ONLY <2>4, <1>7 DEF Closed
  <2>. QED
    BY ONLY <2>2, <2>3, <2>5
<1>. DEFINE Q == {n \in Nat : n \in 0 .. N => /\ \A x \in Services : deps[x] \subseteq F[n][x]
                                              /\ L[n] \subseteq F[n][c]}
<1>11. 0 \in Q
  BY <1>2, <1>8
<1>12. ASSUME NEW n \in Nat, n \in Q PROVE n + 1 \in Q
  <2>1. SUFFICES ASSUME n + 1 \in 0 .. N
                 PROVE  (\A x \in Services : deps[x] \subseteq F[n + 1][x]) /\ L[n + 1] \subseteq F[n + 1][c]
    OBVIOUS
  <2>2. n + 1 \in 1 .. N /\ n \in 0 .. N /\ (n + 1) - 1 = n
    BY ONLY <2>1, <1>2, n \in Nat
  <2>3. (\A x \in Services : deps[x] \subseteq F[n][x]) /\ L[n] \subseteq F[n][c]
    BY <1>12, <2>2
  <2>. HIDE DEF Q
  <2>4. \A x \in Services : F[n + 1][x] = F[n][x] \cup UNION {F[n][d] : d \in F[n][x]}
    BY ONLY <2>2, <1>2
  <2>5. L[n + 1] = L[n] \cup UNION {deps[x] : x \in L[n]} /\ L[n] \in SUBSET Services
    BY ONLY <2>2, <1>8, <1>9
  <2>6. \A x \in Services : deps[x] \subseteq F[n + 1][x]
    BY ONLY <2>3, <2>4
  <2>7. F[n + 1][c] = F[n][c] \cup UNION {F[n][d] : d \in F[n][c]}
    BY ONLY <2>4, c \in Services
  <2>8. ASSUME NEW y \in L[n + 1], y \notin L[n] PROVE y \in F[n + 1][c]
    <3>1. PICK x \in L[n] : y \in deps[x]
      BY ONLY <2>5, <2>8
    <3>2. x \in F[n][c] /\ y \in F[n][x]
      BY ONLY <3>1, <2>3, <2>5
    <3>. QED
      BY ONLY <3>2, <2>7
  <2>9. L[n] \subseteq F[n + 1][c]
    BY ONLY <2>3, <2>7
  <2>. QED
    BY ONLY <2>6, <2>8, <2>9
<1>. HIDE DEF Q
<1>13. \A n \in Nat : n \in Q
  BY ONLY <1>11, <1>12, SetInduction
<1>14. L[N] \subseteq F[N][c]
  BY <1>2, <1>13 DEF Q
<1>15. Reachable(c, deps) \subseteq L[N]
  BY ONLY <1>10 DEF Reachable
<1>. QED
  BY ONLY <1>1, <1>14, <1>15 DEF N

LEMMA ReachableFacts ==
    ASSUME NEW deps \in Graphs, NEW c \in Services, NEW d \in deps[c]
    PROVE  /\ d \in Reachable(c, deps) /\ Reachable(d, deps) \subseteq Reachable(c, deps)
           /\ Reachable(c, deps) \in SUBSET Services
<1>1. d \in Services
  BY DEF Graphs
<1>2. d \in Reachable(c, deps)
  BY <1>1 DEF Reachable
<1>3. ASSUME NEW T \in SUBSET Services, deps[c] \subseteq T, Closed(T, deps) PROVE deps[d] \subseteq T
  BY <1>3 DEF Closed
<1>4. Reachable(d, deps) \subseteq Reachable(c, deps)
  BY <1>3 DEF Reachable
<1>. QED
  BY <1>2, <1>4 DEF Reachable

\* What is left when no command can be peeled any more goes round in a cycle.
LEMMA ResidueHasCycle ==
    ASSUME NEW deps \in Graphs, NEW R \in SUBSET Services, R # {},
           \A c \in R : \E d \in deps[c] : d \in R
    PROVE  \E c \in Services : c \in Needs(Services, deps)[c]
<1>1. SUFFICES ASSUME \A c \in Services : c \notin Needs(Services, deps)[c] PROVE FALSE
  OBVIOUS
<1>2. \A c \in Services : c \notin Reachable(c, deps)
  BY <1>1, ReachableNeeded
<1>3. \A c \in Services : /\ Reachable(c, deps) \in SUBSET Services
                          /\ IsFiniteSet(Reachable(c, deps)) /\ Cardinality(Reachable(c, deps)) \in Nat
  <2>1. \A c \in Services : Reachable(c, deps) \in SUBSET Services
    BY DEF Reachable
  <2>. QED
    BY <2>1, ServicesAssumption, FS_Subset, FS_CardinalityType
<1>. DEFINE K == {Cardinality(Reachable(c, deps)) : c \in R}
<1>4. K \subseteq Nat /\ K # {}
  BY <1>3
<1>5. PICK k \in K : \A m \in K : k <= m
  BY ONLY <1>4, LeastNatural
<1>6. PICK c \in R : k = Cardinality(Reachable(c, deps))
  OBVIOUS
<1>7. PICK d \in deps[c] : d \in R
  OBVIOUS
<1>8. c \in Services /\ d \in Services
  BY <1>7
<1>9. /\ d \in Reachable(c, deps) /\ Reachable(d, deps) \subseteq Reachable(c, deps) /\ d \notin Reachable(d, deps)
  BY <1>2, <1>7, <1>8, ReachableFacts
<1>10. PICK A : A = Reachable(c, deps)
  OBVIOUS
<1>11. PICK B : B = Reachable(d, deps)
  OBVIOUS
<1>12. B \in SUBSET A /\ B # A /\ IsFiniteSet(A) /\ Cardinality(A) \in Nat /\ Cardinality(B) \in Nat
  BY ONLY <1>3, <1>8, <1>9, <1>10, <1>11
<1>13. Cardinality(B) <= Cardinality(A) /\ (Cardinality(A) = Cardinality(B) => A = B)
  BY ONLY <1>12, FS_Subset
<1>14. Cardinality(A) <= Cardinality(B)
  BY <1>5, <1>6, <1>7, <1>10, <1>11
<1>. QED
  BY ONLY <1>12, <1>13, <1>14

\* ValidateDAG and topoLayers, on any graph of any finite set of commands: the
\* graph is refused just when a command comes after itself, and otherwise every
\* command is in exactly one layer, above all that it comes after, however far,
\* and right above something it comes after.
THEOREM GraphLayers ==
    ASSUME NEW deps \in Graphs
    PROVE  LET needs == Needs(Services, deps) layers == TopoLayers(Services, deps) IN
        /\ ValidateDAG(Services, deps) = (\A c \in Services : c \notin needs[c])
        /\ ValidateDAG(Services, deps) =>
            /\ \A c \in Services : Cardinality({n \in DOMAIN layers : c \in layers[n]}) = 1
            /\ \A n \in DOMAIN layers : \A c \in layers[n] :
                /\ \A m \in n .. Len(layers) : needs[c] \cap layers[m] = {}
                /\ n = 1 \/ deps[c] \cap layers[n - 1] # {}
<1>. DEFINE N == Cardinality(Services)
<1>. DEFINE needs == Needs(Services, deps)
            layers == TopoLayers(Services, deps)
<1>1. needs = Needs(Services, deps)
  OBVIOUS
<1>2. layers = TopoLayers(Services, deps)
  OBVIOUS
<1>. HIDE DEF needs, layers
<1>3. PICK P : Peels(P, Services, deps)
  BY ServicesAssumption, PeelsExists
<1>4. /\ layers # <<{}>> <=> P[N] = Services
      /\ layers # <<{}>> => Layering(layers, Services, deps)
  BY <1>2, <1>3, ServicesAssumption, LayersFull
<1>5. \A c \in Services : deps[c] \subseteq Services
  BY DEF Graphs
<1>6. ValidateDAG(Services, deps) <=> layers # <<{}>>
  BY ONLY <1>2, <1>5 DEF ValidateDAG
<1>7. ASSUME layers = <<{}>> PROVE \E c \in Services : c \in needs[c]
  <2>1. Peelings(P, Services, deps, N)
    BY <1>3, ServicesAssumption, PeelGrows
  <2>2. N \in Nat /\ P[N] \in SUBSET Services /\ \A c \in Services : deps[c] \subseteq P[N] => c \in P[N]
    BY ONLY <2>1 DEF Peelings
  <2>3. PICK R : R = Services \ P[N]
    OBVIOUS
  <2>4. R \in SUBSET Services /\ R # {}
    BY ONLY <2>2, <2>3, <1>4, <1>7
  <2>5. ASSUME NEW c \in R PROVE \E d \in deps[c] : d \in R
    BY ONLY <2>2, <2>3, <1>5, c \in R
  <2>. QED
    BY ONLY <2>4, <2>5, <1>1, deps \in Graphs, ResidueHasCycle
<1>8. ASSUME layers # <<{}>>
      PROVE  /\ \A c \in Services : c \notin needs[c]
             /\ \A c \in Services : Cardinality({n \in DOMAIN layers : c \in layers[n]}) = 1
             /\ \A n \in DOMAIN layers : \A c \in layers[n] :
                 /\ \A m \in n .. Len(layers) : needs[c] \cap layers[m] = {}
                 /\ n = 1 \/ deps[c] \cap layers[n - 1] # {}
  <2>1. Layering(layers, Services, deps)
    BY <1>4, <1>8
  <2>2. /\ Len(layers) \in Nat /\ DOMAIN layers = 1 .. Len(layers)
        /\ (\A n \in 1 .. Len(layers) : layers[n] \in SUBSET Services)
    BY ONLY <2>1 DEF Layering
  <2>3. /\ \A c \in Services : \E n \in 1 .. Len(layers) : c \in layers[n]
        /\ \A n, m \in 1 .. Len(layers) : n # m => layers[n] \cap layers[m] = {}
        /\ \A n \in 1 .. Len(layers) : \A c \in layers[n] : n = 1 \/ deps[c] \cap layers[n - 1] # {}
    BY ONLY <2>1 DEF Layering
  <2>4. \A n \in 1 .. Len(layers) : \A c \in layers[n] : \A d \in needs[c] : \E m \in 1 .. n - 1 : d \in layers[m]
    <3>1. Services \in SUBSET Services
      OBVIOUS
    <3>. QED
      BY ONLY <3>1, <2>1, <1>1, deps \in Graphs, NeedsBelow
  <2>5. ASSUME NEW n \in 1 .. Len(layers), NEW c \in layers[n], NEW m \in n .. Len(layers)
        PROVE  needs[c] \cap layers[m] = {}
    <3>1. SUFFICES ASSUME NEW d \in needs[c], d \in layers[m] PROVE FALSE
      OBVIOUS
    <3>2. PICK i \in 1 .. n - 1 : d \in layers[i]
      BY ONLY <2>4, n \in 1 .. Len(layers), c \in layers[n], d \in needs[c]
    <3>3. i \in 1 .. Len(layers) /\ m \in 1 .. Len(layers) /\ i # m
      BY ONLY <2>2, n \in 1 .. Len(layers), m \in n .. Len(layers), i \in 1 .. n - 1
    <3>4. layers[i] \cap layers[m] = {}
      BY ONLY <2>3, <3>3
    <3>. QED
      BY ONLY <3>1, <3>2, <3>4
  <2>6. ASSUME NEW c \in Services PROVE c \notin needs[c]
    <3>1. PICK n \in 1 .. Len(layers) : c \in layers[n]
      BY ONLY <2>3, c \in Services
    <3>2. n \in n .. Len(layers)
      BY ONLY <2>2, n \in 1 .. Len(layers)
    <3>3. needs[c] \cap layers[n] = {}
      BY ONLY <2>5, <3>1, <3>2, n \in 1 .. Len(layers)
    <3>. QED
      BY ONLY <3>1, <3>3
  <2>7. ASSUME NEW c \in Services PROVE Cardinality({n \in DOMAIN layers : c \in layers[n]}) = 1
    <3>1. PICK n \in 1 .. Len(layers) : c \in layers[n]
      BY ONLY <2>3, c \in Services
    <3>2. ASSUME NEW m \in 1 .. Len(layers), c \in layers[m] PROVE m = n
      BY ONLY <3>1, <3>2, <2>3, n \in 1 .. Len(layers)
    <3>3. {i \in DOMAIN layers : c \in layers[i]} = {n}
      BY ONLY <3>1, <3>2, <2>2
    <3>. QED
      BY <3>3, FS_Singleton
  <2>. QED
    BY ONLY <2>2, <2>3, <2>5, <2>6, <2>7
<1>9. (layers # <<{}>>) = (\A c \in Services : c \notin needs[c])
  BY ONLY <1>7, <1>8
<1>10. ValidateDAG(Services, deps) = (\A c \in Services : c \notin needs[c])
  <2>1. ValidateDAG(Services, deps) \in BOOLEAN
    BY DEF ValidateDAG
  <2>. QED
    BY ONLY <2>1, <1>6, <1>9
<1>. QED
  BY ONLY <1>6, <1>8, <1>10 DEF needs, layers

LEMMA LayersAreRight == LayersRight
BY GraphLayers DEF LayersRight, Graphs

-----------------------------------------------------------------------------
(* The inductive invariant of a project                                    *)

Entries == [hash : [ver : Nat, after : SUBSET Services], state : {"created", "running", "exited"}, file : STRING]
Restarts ==
    [on : BOOLEAN, phase : {"none", "stop", "start", "done"}, layers : Seq(SUBSET Services), at : Nat,
     deps : Graphs, chosen : SUBSET Instances, live : SUBSET Instances, busy : SUBSET Instances,
     over : SUBSET Instances, held : SUBSET Instances, stopped : SUBSET Instances, started : SUBSET Instances,
     stopErr : SUBSET Instances, startErr : SUBSET Instances, cancelled : BOOLEAN,
     hooked : SUBSET Instances, since : Nat, nth : Nat]

ProjectType ==
    /\ yaml \in Yamls \cup {NoYaml} /\ stock \in [Instances -> Entries \cup {None}]
    /\ restart \in Restarts /\ verbs \in Nat /\ turns \in Nat
    /\ settled \in [spec : Files \cup {NoYaml}, of : SUBSET Services]
    /\ settled.spec = NoYaml => settled.of = {}
    /\ settled.of \subseteq settled.spec.names

\* The layers a restart walks: every replica it has chosen is in one of them, and
\* what its command comes after is below.
WalkOK(r) ==
    /\ \A k \in r.chosen : \E n \in 1 .. Len(r.layers) : k[1] \in r.layers[n]
    /\ \A n, m \in 1 .. Len(r.layers) : n # m => r.layers[n] \cap r.layers[m] = {}
    /\ \A n \in 1 .. Len(r.layers) : \A c \in r.layers[n] : \A d \in Needs(Services, r.deps)[c] :
          \E m \in 1 .. n - 1 : d \in r.layers[m]
    /\ r.at \in 0 .. Len(r.layers) /\ (r.at = 0 => Len(r.layers) = 0)

\* The layers above the one at hand have been stopped, those below are untouched.
StopOK(r) ==
    /\ \A n \in 1 .. Len(r.layers) : \A k \in r.chosen : k[1] \in r.layers[n] /\ n > r.at => k \in r.over
    /\ \A n \in 1 .. Len(r.layers) : \A k \in r.busy \cup r.over : k[1] \in r.layers[n] => n >= r.at
    /\ r.over \cap r.live \subseteq r.stopped \cup r.stopErr
    /\ r.stopped \cup r.stopErr \subseteq r.over
    /\ r.started = {} /\ r.startErr = {}

\* The layers below the one at hand have been started, those above are untouched.
StartOK(r) ==
    /\ \A n \in 1 .. Len(r.layers) : \A k \in r.chosen \ r.held : k[1] \in r.layers[n] /\ n < r.at => k \in r.over
    /\ \A n \in 1 .. Len(r.layers) : \A k \in r.busy \cup r.over : k[1] \in r.layers[n] => n <= r.at
    /\ r.live \subseteq r.stopped \cup r.stopErr
    /\ r.over = r.started /\ (r.busy \cup r.over) \cap r.held = {}

RestartOK(r) ==
    /\ r.on <=> r.phase \in {"stop", "start"}
    /\ r.busy \cup r.over \cup r.held \cup r.live \subseteq r.chosen /\ r.busy \cap r.over = {}
    /\ r.held = r.hooked /\ r.hooked \subseteq r.stopErr
    /\ r.on => WalkOK(r)
    /\ r.phase = "stop" => StopOK(r)
    /\ r.phase = "start" => StartOK(r)
    /\ r.phase = "done" => r.started = r.chosen \ r.hooked
    /\ r.phase = "none" => r.started = {}

\* What a restart has started runs until someone else steps in.
OutcomeOK ==
    /\ restart.nth <= verbs /\ restart.since <= turns
    /\ restart.on => restart.nth = verbs /\ settled = Unsettled
    /\ verbs = restart.nth /\ turns = restart.since =>
          \A k \in restart.started \ restart.startErr : stock[k] # None /\ IsLive(stock[k])

ProjectInv == ProjectType /\ RestartOK(restart) /\ OutcomeOK /\ Converged

-----------------------------------------------------------------------------
(* The steps of a restart                                                  *)

LEMMA OneLayer ==
    ASSUME NEW r \in Restarts, WalkOK(r), NEW k \in r.chosen, k[1] \in r.layers[r.at]
    PROVE  /\ Len(r.layers) \in Nat /\ r.at \in 1 .. Len(r.layers)
           /\ \A n \in 1 .. Len(r.layers) : k[1] \in r.layers[n] => n = r.at
<1>1. Len(r.layers) \in Nat
  BY DEF Restarts
<1>2. PICK n \in 1 .. Len(r.layers) : k[1] \in r.layers[n]
  BY DEF WalkOK
<1>3. r.at \in 1 .. Len(r.layers)
  BY <1>1, <1>2 DEF WalkOK
<1>4. ASSUME NEW m \in 1 .. Len(r.layers), k[1] \in r.layers[m], m # r.at PROVE FALSE
  <2>1. r.layers[m] \cap r.layers[r.at] = {}
    BY <1>3, <1>4 DEF WalkOK
  <2>. QED
    BY ONLY <2>1, <1>4, k[1] \in r.layers[r.at]
<1>. QED
  BY <1>1, <1>3, <1>4

\* A goroutine of the layer at hand sets to work.
LEMMA BusyKeeps ==
    ASSUME NEW r \in Restarts, RestartOK(r), NEW k \in r.chosen \ (r.busy \cup r.over), r.on, k[1] \in r.layers[r.at],
           r.phase = "start" => k \notin r.held,
           NEW s, s = [r EXCEPT !.busy = @ \cup {k}]
    PROVE  s \in Restarts /\ RestartOK(s)
<1>1. k \in Instances
  BY DEF Restarts
<1>2. s \in Restarts
  BY <1>1 DEF Restarts
<1>3. /\ s.on = r.on /\ s.phase = r.phase /\ s.layers = r.layers /\ s.at = r.at /\ s.deps = r.deps
      /\ s.chosen = r.chosen /\ s.live = r.live /\ s.busy = r.busy \cup {k} /\ s.over = r.over /\ s.held = r.held
      /\ s.stopped = r.stopped /\ s.started = r.started /\ s.stopErr = r.stopErr /\ s.startErr = r.startErr
      /\ s.hooked = r.hooked
  BY DEF Restarts
<1>4. WalkOK(r)
  BY DEF RestartOK
<1>5. /\ Len(r.layers) \in Nat /\ r.at \in 1 .. Len(r.layers)
      /\ \A n \in 1 .. Len(r.layers) : k[1] \in r.layers[n] => n = r.at
  BY <1>4, OneLayer
<1>6. WalkOK(s)
  BY ONLY <1>3, <1>4 DEF WalkOK
<1>7. ASSUME r.phase = "stop" PROVE StopOK(s)
  <2>1. StopOK(r)
    BY <1>7 DEF RestartOK
  <2>. QED
    BY ONLY <2>1, <1>3, <1>5 DEF StopOK
<1>8. ASSUME r.phase = "start" PROVE StartOK(s)
  <2>1. StartOK(r) /\ k \notin r.held
    BY <1>8 DEF RestartOK
  <2>. QED
    BY ONLY <2>1, <1>3, <1>5 DEF StartOK
<1>. QED
  BY ONLY RestartOK(r), <1>2, <1>3, <1>6, <1>7, <1>8, k \in r.chosen \ (r.busy \cup r.over), r.on DEF RestartOK

\* A replica of the layer at hand is over and done with in the stop phase.
LEMMA StoppedKeeps ==
    ASSUME NEW r \in Restarts, RestartOK(r), NEW k \in r.chosen \ r.over, r.phase = "stop", k[1] \in r.layers[r.at],
           NEW B, B \in {r.busy, r.busy \ {k}}, k \notin B,
           NEW P \in SUBSET {k}, NEW E \in SUBSET {k}, NEW H \in SUBSET E, k \in r.live => k \in P \cup E,
           NEW s, s = [r EXCEPT !.busy = B, !.over = @ \cup {k}, !.stopped = @ \cup P, !.stopErr = @ \cup E,
                                !.hooked = @ \cup H, !.held = @ \cup H]
    PROVE  s \in Restarts /\ RestartOK(s)
<1>1. k \in Instances /\ B \in SUBSET Instances /\ B \subseteq r.busy
  BY DEF Restarts
<1>2. s \in Restarts
  <2>1. P \in SUBSET Instances /\ E \in SUBSET Instances /\ H \in SUBSET Instances
    BY <1>1
  <2>. QED
    BY ONLY <1>1, <2>1, r \in Restarts, s = [r EXCEPT !.busy = B, !.over = @ \cup {k}, !.stopped = @ \cup P,
                                !.stopErr = @ \cup E, !.hooked = @ \cup H, !.held = @ \cup H] DEF Restarts
<1>3. /\ s.on = r.on /\ s.phase = r.phase /\ s.layers = r.layers /\ s.at = r.at /\ s.deps = r.deps
      /\ s.chosen = r.chosen /\ s.live = r.live /\ s.busy = B /\ s.over = r.over \cup {k} /\ s.held = r.held \cup H
      /\ s.stopped = r.stopped \cup P /\ s.started = r.started /\ s.stopErr = r.stopErr \cup E
      /\ s.startErr = r.startErr /\ s.hooked = r.hooked \cup H
  BY DEF Restarts
<1>4. WalkOK(r) /\ StopOK(r) /\ r.on
  BY DEF RestartOK
<1>5. /\ Len(r.layers) \in Nat /\ r.at \in 1 .. Len(r.layers)
      /\ \A n \in 1 .. Len(r.layers) : k[1] \in r.layers[n] => n = r.at
  BY <1>4, OneLayer
<1>6. WalkOK(s)
  BY ONLY <1>3, <1>4 DEF WalkOK
<1>7. StopOK(s)
  <2>1. \A n \in 1 .. Len(s.layers) : \A j \in s.chosen : j[1] \in s.layers[n] /\ n > s.at => j \in s.over
    BY ONLY <1>3, <1>4 DEF StopOK
  <2>2. \A n \in 1 .. Len(s.layers) : \A j \in s.busy \cup s.over : j[1] \in s.layers[n] => n >= s.at
    BY ONLY <1>1, <1>3, <1>4, <1>5 DEF StopOK
  <2>3. s.over \cap s.live \subseteq s.stopped \cup s.stopErr /\ s.stopped \cup s.stopErr \subseteq s.over
        /\ s.started = {} /\ s.startErr = {}
    BY ONLY <1>3, <1>4, k \in r.live => k \in P \cup E, P \in SUBSET {k}, E \in SUBSET {k} DEF StopOK
  <2>. QED
    BY ONLY <2>1, <2>2, <2>3 DEF StopOK
<1>8. /\ s.busy \cup s.over \cup s.held \cup s.live \subseteq s.chosen /\ s.busy \cap s.over = {}
      /\ s.held = s.hooked /\ s.hooked \subseteq s.stopErr
  BY ONLY <1>1, <1>3, RestartOK(r), k \in r.chosen \ r.over, k \notin B, H \in SUBSET E, E \in SUBSET {k} DEF RestartOK
<1>. QED
  BY ONLY RestartOK(r), <1>2, <1>3, <1>4, <1>6, <1>7, <1>8, r.phase = "stop" DEF RestartOK

\* A start has returned.
LEMMA StartedKeeps ==
    ASSUME NEW r \in Restarts, RestartOK(r), NEW k \in r.busy, r.phase = "start", NEW E \in SUBSET {k},
           NEW s, s = [r EXCEPT !.busy = @ \ {k}, !.over = @ \cup {k}, !.started = @ \cup {k}, !.startErr = @ \cup E]
    PROVE  s \in Restarts /\ RestartOK(s)
<1>1. k \in Instances /\ E \in SUBSET Instances
  BY DEF Restarts
<1>2. s \in Restarts
  BY <1>1 DEF Restarts
<1>3. /\ s.on = r.on /\ s.phase = r.phase /\ s.layers = r.layers /\ s.at = r.at /\ s.deps = r.deps
      /\ s.chosen = r.chosen /\ s.live = r.live /\ s.busy = r.busy \ {k} /\ s.over = r.over \cup {k} /\ s.held = r.held
      /\ s.stopped = r.stopped /\ s.started = r.started \cup {k} /\ s.stopErr = r.stopErr
      /\ s.hooked = r.hooked
  BY DEF Restarts
<1>4. WalkOK(r) /\ StartOK(r) /\ r.on
  BY DEF RestartOK
<1>5. WalkOK(s)
  BY ONLY <1>3, <1>4 DEF WalkOK
<1>6. StartOK(s)
  BY ONLY <1>3, <1>4, k \in r.busy DEF StartOK
<1>7. /\ s.busy \cup s.over \cup s.held \cup s.live \subseteq s.chosen /\ s.busy \cap s.over = {}
      /\ s.held = s.hooked /\ s.hooked \subseteq s.stopErr
  BY ONLY <1>3, RestartOK(r), k \in r.busy DEF RestartOK
<1>. QED
  BY ONLY RestartOK(r), <1>2, <1>3, <1>4, <1>5, <1>6, <1>7, r.phase = "start" DEF RestartOK

LEMMA RestartCancelKeeps ==
    ASSUME NEW r \in Restarts, RestartOK(r), NEW s, s = [r EXCEPT !.cancelled = TRUE]
    PROVE  s \in Restarts /\ RestartOK(s)
<1>1. s \in Restarts
  BY DEF Restarts
<1>2. /\ s.on = r.on /\ s.phase = r.phase /\ s.layers = r.layers /\ s.at = r.at /\ s.deps = r.deps
      /\ s.chosen = r.chosen /\ s.live = r.live /\ s.busy = r.busy /\ s.over = r.over /\ s.held = r.held
      /\ s.stopped = r.stopped /\ s.started = r.started /\ s.stopErr = r.stopErr /\ s.startErr = r.startErr
      /\ s.hooked = r.hooked
  BY DEF Restarts
<1>3. (WalkOK(s) <=> WalkOK(r)) /\ (StopOK(s) <=> StopOK(r)) /\ (StartOK(s) <=> StartOK(r))
  BY ONLY <1>2 DEF WalkOK, StopOK, StartOK
<1>. QED
  BY ONLY <1>1, <1>2, <1>3, RestartOK(r) DEF RestartOK

\* The group of a layer has returned.
LEMMA LayerKeeps ==
    ASSUME NEW r \in Restarts, RestartOK(r), r.on, r.busy = {},
           {k \in r.chosen : k[1] \in r.layers[r.at]} \ (IF r.phase = "start" THEN r.held ELSE {}) \subseteq r.over,
           NEW s,
           \/ r.phase = "stop" /\ r.at > 1 /\ s = [r EXCEPT !.at = @ - 1]
           \/ r.phase = "stop" /\ r.at = 1 /\ s = [r EXCEPT !.phase = "start", !.over = {}]
           \/ r.phase = "start" /\ r.at < Len(r.layers) /\ s = [r EXCEPT !.at = @ + 1]
           \/ /\ ~(r.phase = "stop" /\ r.at > 1) /\ ~(r.phase = "stop" /\ r.at = 1)
              /\ ~(r.phase = "start" /\ r.at < Len(r.layers))
              /\ s = [r EXCEPT !.on = FALSE, !.phase = "done"]
    PROVE  s \in Restarts /\ RestartOK(s)
<1>1. /\ r.phase \in {"stop", "start"} /\ WalkOK(r)
      /\ r.busy \cup r.over \cup r.held \cup r.live \subseteq r.chosen
      /\ r.held = r.hooked /\ r.hooked \subseteq r.stopErr
  BY DEF RestartOK
<1>2. Len(r.layers) \in Nat /\ r.at \in Nat /\ r.at \in 0 .. Len(r.layers) /\ (r.at = 0 => Len(r.layers) = 0)
  BY <1>1 DEF Restarts, WalkOK
<1>3. CASE r.phase = "stop" /\ r.at > 1 /\ s = [r EXCEPT !.at = @ - 1]
  <2>0. PICK p \in Nat : p = r.at - 1
    BY ONLY <1>2, <1>3
  <2>1. s \in Restarts
    <3>1. s = [r EXCEPT !.at = p]
      BY ONLY <1>3, <2>0
    <3>. QED
      BY ONLY <3>1, r \in Restarts, p \in Nat DEF Restarts
  <2>2. /\ s.on = r.on /\ s.phase = r.phase /\ s.layers = r.layers /\ s.at = r.at - 1 /\ s.deps = r.deps
        /\ s.chosen = r.chosen /\ s.live = r.live /\ s.busy = {} /\ s.over = r.over /\ s.held = r.held
        /\ s.stopped = r.stopped /\ s.started = r.started /\ s.stopErr = r.stopErr /\ s.startErr = r.startErr
        /\ s.hooked = r.hooked
    BY <1>3 DEF Restarts
  <2>3. WalkOK(s)
    <3>1. s.at \in 0 .. Len(s.layers) /\ s.at # 0
      BY ONLY <1>2, <1>3, <2>2
    <3>. QED
      BY ONLY <1>1, <2>2, <3>1 DEF WalkOK
  <2>4. StopOK(r)
    BY <1>3 DEF RestartOK
  <2>5. ASSUME NEW n \in 1 .. Len(r.layers), NEW k \in r.chosen, k[1] \in r.layers[n], n > r.at - 1 PROVE k \in r.over
    <3>1. CASE n = r.at
      BY <3>1, <2>5, <1>3
    <3>2. CASE n > r.at
      BY ONLY <3>2, <2>4, <2>5 DEF StopOK
    <3>. QED
      BY ONLY <3>1, <3>2, <2>5, <1>2
  <2>6. ASSUME NEW n \in 1 .. Len(r.layers), NEW k \in r.over, k[1] \in r.layers[n] PROVE n >= r.at - 1
    <3>1. n >= r.at
      BY ONLY <2>4, <2>6 DEF StopOK
    <3>. QED
      BY ONLY <3>1, <1>2, n \in 1 .. Len(r.layers)
  <2>7. StopOK(s)
    BY ONLY <2>2, <2>4, <2>5, <2>6 DEF StopOK
  <2>. QED
    BY ONLY <2>1, <2>2, <2>3, <2>7, <1>1, <1>3, r.on, RestartOK(r) DEF RestartOK
<1>4. CASE r.phase = "stop" /\ r.at = 1 /\ s = [r EXCEPT !.phase = "start", !.over = {}]
  <2>1. s \in Restarts
    BY <1>2, <1>4 DEF Restarts
  <2>2. /\ s.on = r.on /\ s.phase = "start" /\ s.layers = r.layers /\ s.at = 1 /\ s.deps = r.deps
        /\ s.chosen = r.chosen /\ s.live = r.live /\ s.busy = {} /\ s.over = {} /\ s.held = r.held
        /\ s.stopped = r.stopped /\ s.started = r.started /\ s.stopErr = r.stopErr /\ s.startErr = r.startErr
        /\ s.hooked = r.hooked
    BY <1>4 DEF Restarts
  <2>3. WalkOK(s)
    <3>1. s.at = r.at
      BY ONLY <1>4, <2>2
    <3>. QED
      BY ONLY <1>1, <2>2, <3>1 DEF WalkOK
  <2>4. StopOK(r)
    BY <1>4 DEF RestartOK
  <2>5. ASSUME NEW k \in r.chosen PROVE k \in r.over
    <3>1. PICK n \in 1 .. Len(r.layers) : k[1] \in r.layers[n]
      BY ONLY <1>1, k \in r.chosen DEF WalkOK
    <3>2. CASE n = 1
      BY <3>1, <3>2, <1>4
    <3>3. CASE n > 1
      BY ONLY <3>1, <3>3, <2>4, <1>4, k \in r.chosen DEF StopOK
    <3>. QED
      BY ONLY <3>2, <3>3, <1>2, n \in 1 .. Len(r.layers)
  <2>6. r.live \subseteq r.stopped \cup r.stopErr /\ r.started = {}
    BY ONLY <2>4, <2>5, <1>1 DEF StopOK
  <2>7. \A n \in 1 .. Len(s.layers) : ~(n < s.at)
    BY ONLY <2>2, <1>2
  <2>8. StartOK(s)
    BY ONLY <2>2, <2>6, <2>7 DEF StartOK
  <2>. QED
    BY ONLY <2>1, <2>2, <2>3, <2>8, <1>1, r.on, RestartOK(r) DEF RestartOK
<1>5. CASE r.phase = "start" /\ r.at < Len(r.layers) /\ s = [r EXCEPT !.at = @ + 1]
  <2>0. PICK p \in Nat : p = r.at + 1
    BY ONLY <1>2, <1>5
  <2>1. s \in Restarts
    <3>1. s = [r EXCEPT !.at = p]
      BY ONLY <1>5, <2>0
    <3>. QED
      BY ONLY <3>1, r \in Restarts, p \in Nat DEF Restarts
  <2>2. /\ s.on = r.on /\ s.phase = r.phase /\ s.layers = r.layers /\ s.at = r.at + 1 /\ s.deps = r.deps
        /\ s.chosen = r.chosen /\ s.live = r.live /\ s.busy = {} /\ s.over = r.over /\ s.held = r.held
        /\ s.stopped = r.stopped /\ s.started = r.started /\ s.stopErr = r.stopErr /\ s.startErr = r.startErr
        /\ s.hooked = r.hooked
    BY <1>5 DEF Restarts
  <2>3. WalkOK(s)
    <3>1. s.at \in 0 .. Len(s.layers) /\ s.at # 0
      BY ONLY <1>2, <1>5, <2>2
    <3>. QED
      BY ONLY <1>1, <2>2, <3>1 DEF WalkOK
  <2>4. StartOK(r)
    BY <1>5 DEF RestartOK
  <2>5. ASSUME NEW n \in 1 .. Len(r.layers), NEW k \in r.chosen \ r.held, k[1] \in r.layers[n], n < r.at + 1
        PROVE  k \in r.over
    <3>1. CASE n = r.at
      BY <3>1, <2>5, <1>5
    <3>2. CASE n < r.at
      BY ONLY <3>2, <2>4, <2>5 DEF StartOK
    <3>. QED
      BY ONLY <3>1, <3>2, <2>5, <1>2
  <2>6. ASSUME NEW n \in 1 .. Len(r.layers), NEW k \in r.over, k[1] \in r.layers[n] PROVE n <= r.at + 1
    <3>1. n <= r.at
      BY ONLY <2>4, <2>6 DEF StartOK
    <3>. QED
      BY ONLY <3>1, <1>2, n \in 1 .. Len(r.layers)
  <2>7. StartOK(s)
    BY ONLY <2>2, <2>4, <2>5, <2>6 DEF StartOK
  <2>. QED
    BY ONLY <2>1, <2>2, <2>3, <2>7, <1>1, <1>5, r.on, RestartOK(r) DEF RestartOK
<1>6. CASE /\ ~(r.phase = "stop" /\ r.at > 1) /\ ~(r.phase = "stop" /\ r.at = 1)
           /\ ~(r.phase = "start" /\ r.at < Len(r.layers))
           /\ s = [r EXCEPT !.on = FALSE, !.phase = "done"]
  <2>1. s \in Restarts
    BY <1>6 DEF Restarts
  <2>2. /\ s.on = FALSE /\ s.phase = "done"
        /\ s.chosen = r.chosen /\ s.live = r.live /\ s.busy = {} /\ s.over = r.over /\ s.held = r.held
        /\ s.started = r.started /\ s.stopErr = r.stopErr /\ s.hooked = r.hooked
    BY <1>6 DEF Restarts
  <2>3. r.started = r.chosen \ r.hooked
    <3>1. CASE r.phase = "stop"
      <4>1. r.at = 0
        BY ONLY <3>1, <1>2, <1>6
      <4>2. r.chosen = {}
        BY ONLY <4>1, <1>1, <1>2 DEF WalkOK
      <4>3. r.started = {}
        BY ONLY <3>1, RestartOK(r) DEF RestartOK, StopOK
      <4>. QED
        BY ONLY <4>2, <4>3
    <3>2. CASE r.phase = "start"
      <4>1. StartOK(r) /\ r.at = Len(r.layers)
        BY ONLY <3>2, <1>2, <1>6, RestartOK(r) DEF RestartOK
      <4>2. ASSUME NEW k \in r.chosen \ r.held PROVE k \in r.over
        <5>1. PICK n \in 1 .. Len(r.layers) : k[1] \in r.layers[n]
          BY ONLY <1>1, k \in r.chosen \ r.held DEF WalkOK
        <5>2. CASE n = r.at
          BY <5>1, <5>2, <3>2
        <5>3. CASE n < r.at
          BY ONLY <5>1, <5>3, <4>1, k \in r.chosen \ r.held DEF StartOK
        <5>. QED
          BY ONLY <5>2, <5>3, <4>1, <1>2, n \in 1 .. Len(r.layers)
      <4>. QED
        BY ONLY <4>1, <4>2, <1>1 DEF StartOK
    <3>. QED
      BY ONLY <3>1, <3>2, <1>1
  <2>. QED
    BY ONLY <2>1, <2>2, <2>3, <1>1, RestartOK(r) DEF RestartOK
<1>. QED
  BY <1>3, <1>4, <1>5, <1>6

-----------------------------------------------------------------------------
(* What the verbs make of the stock                                        *)

LEMMA EntryFacts ==
    /\ \A e \in Entries : e # None
    /\ \A e \in Entries : \A st \in {"created", "running", "exited"} :
          [e EXCEPT !.state = st] \in Entries /\ [e EXCEPT !.state = st].state = st
          /\ [e EXCEPT !.state = st].hash = e.hash
<1>1. ASSUME NEW e \in Entries, e = None PROVE FALSE
  <2>1. "state" \in DOMAIN e
    BY DEF Entries
  <2>2. DOMAIN None = {"hash"}
    BY DEF None
  <2>. QED
    BY ONLY <2>1, <2>2, <1>1
<1>. QED
  BY <1>1 DEF Entries

LEMMA FileFacts ==
    /\ NoYaml \notin Files
    /\ \A y \in Files : /\ y.names \in SUBSET Services /\ IsFiniteSet(y.names) /\ y.deps \in Graphs
                        /\ y.scale \in [Services -> Nat \ {0}] /\ y.ver \in [Services -> Nat] /\ y.file \in STRING
    /\ NoYaml.names = {} /\ Unsettled.spec = NoYaml /\ Unsettled.of = {}
<1>1. ASSUME NoYaml \in Files PROVE FALSE
  <2>1. "file" \in DOMAIN NoYaml
    BY <1>1 DEF Files
  <2>2. DOMAIN NoYaml = {"names"}
    BY DEF NoYaml
  <2>. QED
    BY ONLY <2>1, <2>2
<1>2. ASSUME NEW y \in Files
      PROVE  /\ y.names \in SUBSET Services /\ y.deps \in Graphs
             /\ y.scale \in [Services -> Nat \ {0}] /\ y.ver \in [Services -> Nat] /\ y.file \in STRING
  BY DEF Files, Graphs
<1>3. ASSUME NEW y \in Files PROVE IsFiniteSet(y.names)
  BY <1>2, ServicesAssumption, FS_Subset
<1>. QED
  BY <1>1, <1>2, <1>3 DEF NoYaml, Unsettled

LEMMA StoredFacts ==
    ASSUME stock \in [Instances -> Entries \cup {None}]
    PROVE  /\ Stored \in SUBSET Instances
           /\ \A k \in Instances : k \in Stored <=> stock[k] # None
           /\ \A k \in Stored : stock[k] \in Entries
BY DEF Stored

LEMMA InstanceFacts ==
    \A k \in Instances : k[1] \in Services /\ k[2] \in Nat /\ k[2] \in Indices /\ k = <<k[1], k[2]>>
BY MaxScaleAssumption DEF Instances, Indices

\* A create takes commands of the file.
LEMMA ClosureWithin ==
    ASSUME NEW y \in Files, ValidateDAG(y.names, y.deps), NEW names \in SUBSET y.names
    PROVE  Closure(y, names) \in SUBSET y.names
<1>1. CASE names = {}
  BY <1>1 DEF Closure
<1>2. CASE names # {}
  <2>. DEFINE N == Cardinality(y.names)
              Body(f) == [n \in 0 .. N |->
                            IF n = 0 THEN names ELSE f[n - 1] \cup UNION {y.deps[c] : c \in f[n - 1]}]
              C == CHOOSE f : f = Body(f)
              G == [T \in SUBSET y.names |-> T \cup UNION {y.deps[c] : c \in T}]
  <2>1. N \in Nat
    BY FileFacts, FS_CardinalityType
  <2>2. \A c \in y.names : y.deps[c] \subseteq y.names
    BY DEF ValidateDAG
  <2>3. G \in [SUBSET y.names -> SUBSET y.names]
    BY <2>2
  <2>4. PICK P : Iterates(P, SUBSET y.names, names, G, N)
    <3>. HIDE DEF G, N
    <3>. QED
      BY ONLY <2>1, <2>3, names \in SUBSET y.names, IteratesExists
  <2>5. P \in [0 .. N -> SUBSET y.names] /\ P[0] = names
    <3>. HIDE DEF G, N
    <3>. QED
      BY <2>4 DEF Iterates
  <2>6. P = Body(P)
    <3>2. ASSUME NEW n \in 0 .. N PROVE P[n] = Body(P)[n]
      <4>1. CASE n = 0
        BY <2>5, <4>1
      <4>2. CASE n # 0
        <5>1. n \in 1 .. N /\ n - 1 \in 0 .. N
          BY <2>1, <4>2
        <5>2. P[n] = G[P[n - 1]]
          <6>. HIDE DEF G, N
          <6>. QED
            BY ONLY <5>1, <2>4 DEF Iterates
        <5>3. P[n - 1] \in SUBSET y.names
          BY ONLY <5>1, <2>5
        <5>4. P[n] = P[n - 1] \cup UNION {y.deps[c] : c \in P[n - 1]}
          BY ONLY <5>2, <5>3
        <5>. QED
          BY <5>4, <4>2
      <4>. QED
        BY <4>1, <4>2
    <3>3. Body(P) = [n \in 0 .. N |-> Body(P)[n]]
      OBVIOUS
    <3>. HIDE DEF Body
    <3>. QED
      BY ONLY <2>5, <3>2, <3>3
  <2>7. C = Body(C)
    BY <2>6
  <2>. HIDE DEF C
  <2>8. C[0] = names
    <3>1. Body(C)[0] = names
      BY <2>1
    <3>. HIDE DEF Body
    <3>. QED
      BY ONLY <3>1, <2>7
  <2>9. ASSUME NEW n \in 1 .. N PROVE C[n] = C[n - 1] \cup UNION {y.deps[c] : c \in C[n - 1]}
    <3>1. Body(C)[n] = C[n - 1] \cup UNION {y.deps[c] : c \in C[n - 1]}
      BY <2>1
    <3>. HIDE DEF Body
    <3>. QED
      BY ONLY <3>1, <2>7
  <2>. HIDE DEF Body, G
  <2>. DEFINE Q == {n \in Nat : n \in 0 .. N => C[n] \in SUBSET y.names}
  <2>10. 0 \in Q
    BY <2>8
  <2>11. ASSUME NEW n \in Nat, n \in Q PROVE n + 1 \in Q
    <3>1. SUFFICES ASSUME n + 1 \in 0 .. N PROVE C[n + 1] \in SUBSET y.names
      OBVIOUS
    <3>2. n + 1 \in 1 .. N /\ n \in 0 .. N /\ (n + 1) - 1 = n
      BY <2>1, <3>1
    <3>3. C[n + 1] = C[n] \cup UNION {y.deps[c] : c \in C[n]}
      BY <3>2, <2>9
    <3>. QED
      BY <3>2, <3>3, <2>2, <2>11
  <2>. HIDE DEF Q
  <2>12. \A n \in Nat : n \in Q
    BY <2>10, <2>11, SetInduction
  <2>13. C[N] \in SUBSET y.names
    BY <2>1, <2>12 DEF Q
  <2>14. Closure(y, names) = C[N]
    BY <1>2 DEF Closure, C, Body
  <2>. QED
    BY <2>13, <2>14
<1>. QED
  BY <1>1, <1>2

\* A create, an up or a scale leaves replicas of the file, and when it reports
\* nothing every replica of the commands it took is as the file wants it.
LEMMA CreatesSettles ==
    ASSUME stock \in [Instances -> Entries \cup {None}], NEW y \in Files, ValidateDAG(y.names, y.deps),
           NEW ts, {t[1] : t \in ts} \in SUBSET y.names, NEW prune, NEW up, NEW bad, NEW lost,
           Creates(y, ts, prune, up, bad, lost)
    PROVE  /\ stock' \in [Instances -> Entries \cup {None}]
           /\ settled' \in [spec : Files \cup {NoYaml}, of : SUBSET Services]
           /\ settled'.spec = NoYaml => settled'.of = {}
           /\ settled'.of \subseteq settled'.spec.names
           /\ Converged'
<1>. DEFINE closure == Closure(y, {t[1] : t \in ts})
            orphans == IF ts = {} /\ prune THEN {k \in PlanOrphans(y) : ~IsLive(stock[k])} ELSE {}
            excess  == IF ReplicaScoped(ts) THEN {} ELSE {k \in PlanExcess(y) : k[1] \in closure}
            acts    == {k \in DOMAIN PlanActions(y) : k[1] \in closure /\ Covers(ts, k)}
            gone    == ((orphans \cup excess) \ bad) \cup lost
            made    == {k \in acts \ bad : PlanActions(y)[k] # "unchanged"}
<1>1. /\ lost \subseteq bad \cap acts
      /\ stock' = [k \in Instances |->
            IF k \in gone THEN None
            ELSE IF k \in made THEN [Fresh(y, k[1]) EXCEPT !.state = IF up THEN "running" ELSE "created"]
            ELSE IF k \in acts \ bad /\ up THEN [stock[k] EXCEPT !.state = "running"]
            ELSE stock[k]]
      /\ settled' = IF ReplicaScoped(ts) \/ bad # {} THEN Unsettled ELSE [spec |-> y, of |-> closure]
  BY DEF Creates
<1>2. closure \in SUBSET y.names
  BY ClosureWithin
<1>3. /\ y.names \in SUBSET Services /\ y.deps \in Graphs /\ y.scale \in [Services -> Nat \ {0}]
      /\ y.ver \in [Services -> Nat] /\ y.file \in STRING
  BY FileFacts
<1>4. /\ Stored \in SUBSET Instances /\ (\A k \in Instances : k \in Stored <=> stock[k] # None)
      /\ (\A k \in Stored : stock[k] \in Entries)
  BY StoredFacts
<1>5. /\ DOMAIN PlanActions(y) = {i \in Instances : i[1] \in y.names /\ i[2] <= y.scale[i[1]]}
      /\ \A k \in DOMAIN PlanActions(y) : PlanActions(y)[k] = ActionOf(y, k)
  BY DEF PlanActions
<1>6. \A c \in y.names : \A st \in {"running", "created"} :
         /\ [Fresh(y, c) EXCEPT !.state = st] \in Entries
         /\ [Fresh(y, c) EXCEPT !.state = st].hash = Hash(y, c)
  <2>1. ASSUME NEW c \in y.names PROVE Fresh(y, c) \in Entries /\ Fresh(y, c).hash = Hash(y, c)
    <3>1. Hash(y, c) \in [ver : Nat, after : SUBSET Services]
      BY <1>3 DEF Hash, Graphs
    <3>. QED
      BY <3>1, <1>3 DEF Fresh, Entries
  <2>. QED
    BY <2>1, EntryFacts
<1>7. \A k \in acts : k \in Instances /\ k[1] \in y.names /\ k[2] <= y.scale[k[1]]
                      /\ (PlanActions(y)[k] = "unchanged" => k \in Stored /\ stock[k].hash = Hash(y, k[1]))
  BY <1>5 DEF ActionOf
<1>. HIDE DEF closure, orphans, excess, acts, gone, made
<1>8. made \subseteq acts /\ (\A k \in acts \ bad : k \notin made => PlanActions(y)[k] = "unchanged")
  BY DEF made
<1>9. ASSUME NEW k \in Instances
      PROVE  (IF k \in gone THEN None
              ELSE IF k \in made THEN [Fresh(y, k[1]) EXCEPT !.state = IF up THEN "running" ELSE "created"]
              ELSE IF k \in acts \ bad /\ up THEN [stock[k] EXCEPT !.state = "running"]
              ELSE stock[k]) \in Entries \cup {None}
  <2>1. CASE k \in made
    <3>1. (IF up THEN "running" ELSE "created") \in {"running", "created"}
      OBVIOUS
    <3>2. [Fresh(y, k[1]) EXCEPT !.state = IF up THEN "running" ELSE "created"] \in Entries
      BY <3>1, <2>1, <1>6, <1>7, <1>8
    <3>. QED
      BY <3>2, <2>1
  <2>2. CASE k \notin made
    <3>1. k \in acts \ bad => [stock[k] EXCEPT !.state = "running"] \in Entries
      BY <2>2, <1>4, <1>7, <1>8, EntryFacts
    <3>. QED
      BY <3>1, <2>2, <1>4
  <2>. QED
    BY <2>1, <2>2
<1>10. stock' \in [Instances -> Entries \cup {None}]
  BY <1>1, <1>9
<1>11. /\ settled' \in [spec : Files \cup {NoYaml}, of : SUBSET Services]
       /\ settled'.spec = NoYaml => settled'.of = {}
       /\ settled'.of \subseteq settled'.spec.names
  <2>1. CASE ReplicaScoped(ts) \/ bad # {}
    BY <2>1, <1>1, FileFacts DEF Unsettled
  <2>2. CASE ~(ReplicaScoped(ts) \/ bad # {})
    BY <2>2, <1>1, <1>2, <1>3, FileFacts
  <2>. QED
    BY <2>1, <2>2
<1>12. Converged'
  <2>1. CASE ReplicaScoped(ts) \/ bad # {}
    <3>1. settled'.of = {}
      BY <2>1, <1>1, FileFacts
    <3>. QED
      BY <3>1 DEF Converged
  <2>2. CASE ~ReplicaScoped(ts) /\ bad = {}
    <3>1. settled'.spec = y /\ settled'.of = closure /\ lost = {}
      BY <2>2, <1>1
    <3>2. \A k \in Instances : k \in Stored' <=> stock'[k] # None
      BY DEF Stored
    <3>3. ASSUME NEW k \in Instances, k[1] \in closure, k[2] <= y.scale[k[1]]
          PROVE  stock'[k] # None /\ stock'[k].hash = Hash(y, k[1])
      <4>1. k \in DOMAIN PlanActions(y)
        BY <3>3, <1>2, <1>5
      <4>2. Covers(ts, k)
        BY <2>2 DEF Covers, ReplicaScoped
      <4>3. k \in acts \ bad
        BY <4>1, <4>2, <3>3, <2>2 DEF acts
      <4>4. k \notin gone
        <5>1. k \notin orphans
          BY <3>3, <1>2 DEF orphans, PlanOrphans
        <5>2. k \notin excess
          BY <4>1 DEF excess, PlanExcess
        <5>. QED
          BY <5>1, <5>2, <3>1 DEF gone
      <4>5. CASE k \in made
        <5>1. stock'[k] = [Fresh(y, k[1]) EXCEPT !.state = IF up THEN "running" ELSE "created"]
          BY <4>4, <4>5, <1>1
        <5>2. (IF up THEN "running" ELSE "created") \in {"running", "created"}
          OBVIOUS
        <5>3. stock'[k] \in Entries /\ stock'[k].hash = Hash(y, k[1])
          BY <5>1, <5>2, <3>3, <1>2, <1>6
        <5>. QED
          BY <5>3, EntryFacts
      <4>6. CASE k \notin made
        <5>1. stock'[k] = IF up THEN [stock[k] EXCEPT !.state = "running"] ELSE stock[k]
          BY <4>3, <4>4, <4>6, <1>1
        <5>2. stock[k] \in Entries /\ stock[k].hash = Hash(y, k[1])
          BY <4>3, <4>6, <1>4, <1>7, <1>8
        <5>3. stock'[k] \in Entries /\ stock'[k].hash = Hash(y, k[1])
          BY <5>1, <5>2, EntryFacts
        <5>. QED
          BY <5>3, EntryFacts
      <4>. QED
        BY <4>5, <4>6
    <3>4. ASSUME NEW k \in Instances, k[1] \in closure, ~(k[2] <= y.scale[k[1]]) PROVE stock'[k] = None
      <4>1. k \notin acts /\ k \notin made /\ k \notin DOMAIN PlanActions(y)
        BY <3>4, <1>5, <1>7, <1>8
      <4>2. CASE k \in Stored
        <5>1. k \in excess
          BY <4>1, <4>2, <3>4, <2>2, <1>2 DEF excess, PlanExcess
        <5>2. k \in gone
          BY <5>1, <2>2 DEF gone
        <5>. QED
          BY <5>2, <1>1
      <4>3. CASE k \notin Stored
        BY <4>1, <4>3, <1>1, <1>4
      <4>. QED
        BY <4>2, <4>3
    <3>5. ASSUME NEW k \in Instances, k[1] \in closure
          PROVE  IF k[2] <= y.scale[k[1]]
                 THEN k \in Stored' /\ stock'[k].hash = Hash(y, k[1])
                 ELSE k \notin Stored'
      BY <3>2, <3>3, <3>4, <3>5
    <3>. QED
      BY ONLY <3>1, <3>5 DEF Converged, ActionOf
  <2>. QED
    BY <2>1, <2>2
<1>. QED
  BY <1>10, <1>11, <1>12

-----------------------------------------------------------------------------
(* The steps of a project                                                  *)

LEMMA UnsettledFacts ==
    /\ Unsettled \in [spec : Files \cup {NoYaml}, of : SUBSET Services]
    /\ (settled' = Unsettled) =>
          /\ settled' \in [spec : Files \cup {NoYaml}, of : SUBSET Services]
          /\ (settled'.spec = NoYaml => settled'.of = {}) /\ settled'.of \subseteq settled'.spec.names
          /\ Converged'
<1>1. Unsettled \in [spec : Files \cup {NoYaml}, of : SUBSET Services] /\ Unsettled.of = {}
  BY DEF Unsettled
<1>2. settled' = Unsettled => Converged'
  BY <1>1 DEF Converged
<1>. QED
  BY <1>1, <1>2

\* A verb that has ended leaves the last restart alone.
LEMMA VerbKeeps ==
    ASSUME ProjectInv, Resting, verbs' = verbs + 1, UNCHANGED <<yaml, restart, turns>>,
           stock' \in [Instances -> Entries \cup {None}],
           settled' \in [spec : Files \cup {NoYaml}, of : SUBSET Services],
           settled'.spec = NoYaml => settled'.of = {}, settled'.of \subseteq settled'.spec.names,
           Converged'
    PROVE  ProjectInv'
<1>1. ProjectType /\ RestartOK(restart) /\ OutcomeOK /\ ~restart.on
  BY DEF ProjectInv, Resting
<1>2. ProjectType'
  BY <1>1 DEF ProjectType
<1>3. RestartOK(restart')
  BY <1>1
<1>4. restart.nth \in Nat /\ restart.nth <= verbs /\ verbs \in Nat
  BY <1>1 DEF ProjectType, Restarts, OutcomeOK
<1>5. restart.nth <= verbs' /\ verbs' # restart.nth
  BY ONLY <1>4, verbs' = verbs + 1
<1>6. OutcomeOK'
  BY <1>1, <1>5 DEF OutcomeOK
<1>. QED
  BY <1>2, <1>3, <1>6 DEF ProjectInv

LEMMA CreateKeeps ==
    ASSUME ProjectInv, Create \/ Scale PROVE ProjectInv'
<1>1. /\ stock \in [Instances -> Entries \cup {None}] /\ yaml \in Files /\ Resting
      /\ verbs' = verbs + 1 /\ UNCHANGED <<yaml, restart, turns>> /\ ValidateDAG(yaml.names, yaml.deps)
  BY YamlsAssumption DEF Create, Scale, Plannable, ProjectInv, ProjectType
<1>2. /\ yaml.names \in SUBSET Services /\ yaml.scale \in [Services -> Nat \ {0}]
  BY <1>1, FileFacts
<1>3. CASE Create
  <2>1. PICK ts \in TargetSets :
          /\ TargetsValid(ts, DeclaredReplicas(yaml))
          /\ \E prune, up \in BOOLEAN, bad \in Failures : \E lost \in {{}, bad} :
                Creates(yaml, ts, prune, up, bad, lost)
    BY <1>3 DEF Create
  <2>2. PICK prune \in BOOLEAN, up \in BOOLEAN, bad \in Failures : \E lost \in {{}, bad} :
                Creates(yaml, ts, prune, up, bad, lost)
    BY <2>1
  <2>3. PICK lost \in {{}, bad} : Creates(yaml, ts, prune, up, bad, lost)
    BY <2>2
  <2>4. {t[1] : t \in ts} \in SUBSET yaml.names
    <3>1. DOMAIN DeclaredReplicas(yaml) = yaml.names
      BY DEF DeclaredReplicas
    <3>. QED
      BY <3>1, <2>1 DEF TargetsValid
  <2>5. /\ stock' \in [Instances -> Entries \cup {None}]
        /\ settled' \in [spec : Files \cup {NoYaml}, of : SUBSET Services]
        /\ settled'.spec = NoYaml => settled'.of = {}
        /\ settled'.of \subseteq settled'.spec.names
        /\ Converged'
    BY ONLY <1>1, <2>3, <2>4, CreatesSettles
  <2>. QED
    BY ONLY ProjectInv, <1>1, <2>5, VerbKeeps
<1>4. CASE Scale
  <2>1. PICK c \in yaml.names, n \in Indices, bad \in Failures : \E lost \in {{}, bad} :
          Creates([yaml EXCEPT !.scale[c] = n], {<<c, 0>>}, FALSE, TRUE, bad, lost)
    BY <1>4 DEF Scale
  <2>2. PICK lost \in {{}, bad} : Creates([yaml EXCEPT !.scale[c] = n], {<<c, 0>>}, FALSE, TRUE, bad, lost)
    BY <2>1
  <2>3. PICK y : y = [yaml EXCEPT !.scale[c] = n]
    OBVIOUS
  <2>4. n \in Nat \ {0} /\ c \in Services
    BY <1>2, MaxScaleAssumption DEF Indices
  <2>5. y \in Files /\ y.names = yaml.names /\ y.deps = yaml.deps
    BY ONLY <1>1, <2>3, <2>4 DEF Files
  <2>6. {t[1] : t \in {<<c, 0>>}} \in SUBSET y.names
    BY ONLY <2>5, c \in yaml.names
  <2>7. Creates(y, {<<c, 0>>}, FALSE, TRUE, bad, lost)
    BY ONLY <2>2, <2>3
  <2>8. ValidateDAG(y.names, y.deps)
    BY ONLY <1>1, <2>5
  <2>9. /\ stock' \in [Instances -> Entries \cup {None}]
        /\ settled' \in [spec : Files \cup {NoYaml}, of : SUBSET Services]
        /\ settled'.spec = NoYaml => settled'.of = {}
        /\ settled'.of \subseteq settled'.spec.names
        /\ Converged'
    BY ONLY <1>1, <2>5, <2>6, <2>7, <2>8, CreatesSettles
  <2>. QED
    BY ONLY ProjectInv, <1>1, <2>9, VerbKeeps
<1>. QED
  BY <1>3, <1>4

LEMMA EndingKeeps ==
    ASSUME ProjectInv, Resting, NEW ks \in SUBSET Stored, End(ks) PROVE ProjectInv'
<1>1. PICK ended \in SUBSET {k \in ks : IsLive(stock[k])} :
          stock' = [k \in Instances |-> IF k \in ended THEN [stock[k] EXCEPT !.state = "exited"] ELSE stock[k]]
  BY DEF End
<1>2. verbs' = verbs + 1 /\ settled' = Unsettled /\ UNCHANGED <<yaml, restart, turns>>
  BY DEF End
<1>3. stock \in [Instances -> Entries \cup {None}]
  BY DEF ProjectInv, ProjectType
<1>4. \A k \in ended : k \in Instances /\ stock[k] \in Entries
  BY <1>3, StoredFacts
<1>5. \A k \in ended : [stock[k] EXCEPT !.state = "exited"] \in Entries
  BY <1>4, EntryFacts
<1>6. stock' \in [Instances -> Entries \cup {None}]
  BY ONLY <1>1, <1>3, <1>5
<1>. QED
  BY ONLY ProjectInv, Resting, <1>2, <1>6, UnsettledFacts, VerbKeeps

LEMMA SignalKeeps ==
    ASSUME ProjectInv, Signal \/ SendKeys \/ Stop PROVE ProjectInv'
<1>1. CASE Signal \/ SendKeys
  <2>1. PICK ts \in TargetSets : End(Filter(ts, Stored))
    BY <1>1 DEF Signal, SendKeys
  <2>2. PICK ks : ks = Filter(ts, Stored)
    OBVIOUS
  <2>3. ks \in SUBSET Stored /\ Resting /\ End(ks)
    BY <1>1, <2>1, <2>2 DEF Filter, Signal, SendKeys
  <2>. QED
    BY ONLY ProjectInv, <2>3, EndingKeeps
<1>2. CASE Stop
  <2>1. Resting
    BY <1>2 DEF Stop
  <2>2. PICK ts \in TargetSets, f \in Firsts :
          End({k \in Stored : k[1] \in Dependents(SpecOf(f), {t[1] : t \in ts}) /\ Covers(ts, k)})
    BY <1>2 DEF Stop
  <2>3. PICK ks : ks = {k \in Stored : k[1] \in Dependents(SpecOf(f), {t[1] : t \in ts}) /\ Covers(ts, k)}
    OBVIOUS
  <2>4. ks \in SUBSET Stored /\ End(ks)
    BY ONLY <2>2, <2>3
  <2>. QED
    BY ONLY ProjectInv, <2>1, <2>4, EndingKeeps
<1>. QED
  BY <1>1, <1>2

\* The graph a restart walks is one of the commands.
LEMMA SpecFacts ==
    ASSUME ProjectInv, NEW f \in Firsts
    PROVE  SpecOf(f).names \in SUBSET Services /\ SpecOf(f).deps \in Graphs /\ IsFiniteSet(SpecOf(f).names)
<1>1. stock \in [Instances -> Entries \cup {None}] /\ yaml \in Yamls \cup {NoYaml}
  BY DEF ProjectInv, ProjectType
<1>2. CASE yaml = NoYaml
  <2>1. \A k \in Stored : k \in Instances /\ stock[k] \in Entries
    BY <1>1, StoredFacts
  <2>2. SpecOf(f).names = {k[1] : k \in Stored}
        /\ SpecOf(f).deps = [c \in Services |-> IF f[c] = 0 THEN {} ELSE stock[<<c, f[c]>>].hash.after]
    BY <1>2 DEF SpecOf, Reconstruct
  <2>3. SpecOf(f).names \in SUBSET Services
    BY <2>1, <2>2, InstanceFacts
  <2>4. ASSUME NEW c \in Services, f[c] # 0 PROVE stock[<<c, f[c]>>].hash.after \in SUBSET Services
    <3>1. <<c, f[c]>> \in Stored
      BY <2>4 DEF Firsts
    <3>2. stock[<<c, f[c]>>] \in Entries
      BY <3>1, <2>1
    <3>. QED
      BY ONLY <3>2 DEF Entries
  <2>5. SpecOf(f).deps \in Graphs
    BY <2>2, <2>4 DEF Graphs
  <2>. QED
    BY <2>3, <2>5, ServicesAssumption, FS_Subset
<1>3. CASE yaml # NoYaml
  <2>1. yaml \in Files /\ SpecOf(f) = yaml
    BY <1>1, <1>3, YamlsAssumption DEF SpecOf
  <2>. QED
    BY <2>1, FileFacts
<1>. QED
  BY <1>2, <1>3

LEMMA NoRestartFacts ==
    ASSUME NEW r, r = NoRestart
    PROVE  /\ r \in Restarts /\ ~r.on /\ r.phase = "none" /\ r.chosen = {} /\ r.live = {} /\ r.busy = {} /\ r.over = {}
           /\ r.held = {} /\ r.stopped = {} /\ r.started = {} /\ r.stopErr = {} /\ r.startErr = {} /\ r.hooked = {}
           /\ r.since = 0 /\ r.nth = 0
<1>1. <<>> \in Seq(SUBSET Services) /\ [c \in Services |-> {}] \in Graphs
  BY DEF Graphs
<1>. QED
  BY <1>1 DEF NoRestart, Restarts

LEMMA RestartBeginsKeeps ==
    ASSUME ProjectInv, RestartBegins PROVE ProjectInv'
<1>1. /\ Resting /\ verbs' = verbs + 1 /\ settled' = Unsettled /\ UNCHANGED <<yaml, stock, turns>>
  BY DEF RestartBegins
<1>2. PICK ts \in TargetSets, f \in Firsts :
        LET spec == SpecOf(f)
            ks == {k \in Filter(ts, Stored) : k[1] \in spec.names}
        IN  /\ ValidateDAG(spec.names, spec.deps)
            /\ restart' = [NoRestart EXCEPT
                   !.on = TRUE, !.phase = "stop", !.deps = spec.deps,
                   !.layers = TopoLayers(spec.names, spec.deps),
                   !.at = Len(TopoLayers(spec.names, spec.deps)),
                   !.chosen = ks, !.live = {k \in ks : IsLive(stock[k])}, !.since = turns, !.nth = verbs + 1]
  BY DEF RestartBegins
<1>3. PICK names, deps, L : names = SpecOf(f).names /\ deps = SpecOf(f).deps /\ L = TopoLayers(names, deps)
  OBVIOUS
<1>4. PICK ks : ks = {k \in Filter(ts, Stored) : k[1] \in names}
  OBVIOUS
<1>5. PICK lv : lv = {k \in ks : IsLive(stock[k])}
  OBVIOUS
<1>6. /\ ValidateDAG(names, deps)
      /\ restart' = [NoRestart EXCEPT !.on = TRUE, !.phase = "stop", !.deps = deps, !.layers = L, !.at = Len(L),
                         !.chosen = ks, !.live = lv, !.since = turns, !.nth = verbs + 1]
  BY ONLY <1>2, <1>3, <1>4, <1>5
<1>7. names \in SUBSET Services /\ deps \in Graphs /\ IsFiniteSet(names)
  BY <1>3, SpecFacts
<1>8. Layering(L, names, deps)
  <2>1. PICK P : Peels(P, names, deps)
    BY ONLY <1>7, PeelsExists
  <2>2. L # <<{}>>
    BY ONLY <1>3, <1>6 DEF ValidateDAG
  <2>. QED
    BY ONLY <2>1, <2>2, <1>3, <1>7, LayersFull
<1>9. L \in Seq(SUBSET Services) /\ Len(L) \in Nat
  <2>1. L \in Seq(SUBSET names)
    BY ONLY <1>8 DEF Layering
  <2>. QED
    BY ONLY <2>1, <1>7
<1>10. ks \in SUBSET Instances /\ (\A k \in ks : k[1] \in names) /\ lv \in SUBSET ks
  <2>1. Filter(ts, Stored) \subseteq Stored
    BY DEF Filter
  <2>2. Stored \in SUBSET Instances
    BY StoredFacts DEF ProjectInv, ProjectType
  <2>. QED
    BY ONLY <2>1, <2>2, <1>4, <1>5
<1>11. /\ verbs \in Nat /\ turns \in Nat /\ yaml \in Yamls \cup {NoYaml}
       /\ stock \in [Instances -> Entries \cup {None}]
  BY DEF ProjectInv, ProjectType
<1>12. PICK d : d = NoRestart
  OBVIOUS
<1>13. /\ d \in Restarts /\ d.busy = {} /\ d.over = {} /\ d.held = {} /\ d.stopped = {} /\ d.started = {}
       /\ d.stopErr = {} /\ d.startErr = {} /\ d.hooked = {}
  BY ONLY <1>12, NoRestartFacts
<1>14. PICK v \in Nat : v = verbs + 1
  BY ONLY <1>11
<1>15. PICK r : r = [d EXCEPT !.on = TRUE, !.phase = "stop", !.deps = deps, !.layers = L, !.at = Len(L),
                         !.chosen = ks, !.live = lv, !.since = turns, !.nth = v]
  OBVIOUS
<1>16. restart' = r
  BY ONLY <1>6, <1>12, <1>14, <1>15
<1>17. /\ r \in Restarts
       /\ r.on /\ r.phase = "stop" /\ r.deps = deps /\ r.layers = L /\ r.at = Len(L) /\ r.chosen = ks /\ r.live = lv
       /\ r.since = turns /\ r.nth = v
       /\ r.busy = {} /\ r.over = {} /\ r.held = {} /\ r.stopped = {} /\ r.started = {}
       /\ r.stopErr = {} /\ r.startErr = {} /\ r.hooked = {}
  BY ONLY <1>7, <1>9, <1>10, <1>11, <1>13, <1>14, <1>15 DEF Restarts
<1>18. WalkOK(r)
  <2>1. \A n \in 1 .. Len(L) : \A c \in L[n] : \A e \in Needs(Services, deps)[c] : \E m \in 1 .. n - 1 : e \in L[m]
    BY ONLY <1>7, <1>8, NeedsBelow
  <2>2. \A k \in ks : \E n \in 1 .. Len(L) : k[1] \in L[n]
    BY ONLY <1>8, <1>10 DEF Layering
  <2>3. \A n, m \in 1 .. Len(L) : n # m => L[n] \cap L[m] = {}
    BY ONLY <1>8 DEF Layering
  <2>4. Len(L) \in 0 .. Len(L)
    BY ONLY <1>9
  <2>. QED
    BY ONLY <2>1, <2>2, <2>3, <2>4, <1>17 DEF WalkOK
<1>19. StopOK(r)
  <2>1. \A n \in 1 .. Len(L) : ~(n > Len(L))
    BY ONLY <1>9
  <2>. QED
    BY ONLY <2>1, <1>17 DEF StopOK
<1>20. RestartOK(r)
  BY ONLY <1>10, <1>17, <1>18, <1>19 DEF RestartOK
<1>21. OutcomeOK'
  <2>1. restart'.nth = verbs' /\ restart'.since = turns' /\ restart'.started = {}
    BY ONLY <1>1, <1>14, <1>16, <1>17
  <2>2. verbs' \in Nat /\ turns' \in Nat
    BY ONLY <1>1, <1>11
  <2>. QED
    BY ONLY <2>1, <2>2, <1>1 DEF OutcomeOK
<1>22. ProjectType' /\ Converged'
  <2>1. restart' \in Restarts /\ verbs' \in Nat /\ turns' \in Nat /\ yaml' \in Yamls \cup {NoYaml}
        /\ stock' \in [Instances -> Entries \cup {None}]
    BY ONLY <1>1, <1>11, <1>16, <1>17
  <2>. QED
    BY ONLY <2>1, <1>1, UnsettledFacts DEF ProjectType
<1>. QED
  BY ONLY <1>16, <1>20, <1>21, <1>22 DEF ProjectInv

\* What every step of a restart leaves alone.
LEMMA RestartStepKeeps ==
    ASSUME ProjectInv, restart.on, restart' \in Restarts, RestartOK(restart'),
           restart'.nth = restart.nth, restart'.since = restart.since,
           stock' \in [Instances -> Entries \cup {None}], UNCHANGED <<yaml, verbs, settled>>,
           turns' \in {turns, turns + 1},
           turns' = turns /\ (\A k \in restart.started \ restart.startErr : stock[k] # None /\ IsLive(stock[k])) =>
              \A k \in restart'.started \ restart'.startErr : stock'[k] # None /\ IsLive(stock'[k])
    PROVE  ProjectInv'
<1>1. /\ ProjectType /\ OutcomeOK /\ settled = Unsettled /\ restart.nth = verbs /\ restart.since <= turns
      /\ verbs \in Nat /\ turns \in Nat /\ restart.since \in Nat
  BY DEF ProjectInv, ProjectType, OutcomeOK, Restarts
<1>2. turns' \in Nat /\ restart.since <= turns' /\ (turns' = restart.since => turns' = turns)
  BY ONLY <1>1, turns' \in {turns, turns + 1}
<1>3. ProjectType' /\ Converged'
  BY <1>1, <1>2, UnsettledFacts DEF ProjectType
<1>4. OutcomeOK'
  <2>1. restart'.nth <= verbs' /\ restart'.since <= turns' /\ restart'.nth = verbs' /\ settled' = Unsettled
    BY <1>1, <1>2
  <2>2. ASSUME turns' = restart'.since
        PROVE  \A k \in restart'.started \ restart'.startErr : stock'[k] # None /\ IsLive(stock'[k])
    <3>1. turns' = turns /\ turns = restart.since
      BY <2>2, <1>2
    <3>2. \A k \in restart.started \ restart.startErr : stock[k] # None /\ IsLive(stock[k])
      BY ONLY <3>1, <1>1 DEF OutcomeOK
    <3>. QED
      BY <3>1, <3>2
  <2>. QED
    BY ONLY <2>1, <2>2 DEF OutcomeOK
<1>. QED
  BY <1>3, <1>4 DEF ProjectInv

LEMMA UntouchedFacts ==
    ASSUME NEW k, Untouched(k)
    PROVE  k \in restart.chosen \ (restart.busy \cup restart.over) /\ k[1] \in restart.layers[restart.at]
BY DEF Untouched, LayerOf

LEMMA InvFacts ==
    ASSUME ProjectInv
    PROVE  /\ restart \in Restarts /\ RestartOK(restart) /\ stock \in [Instances -> Entries \cup {None}]
           /\ turns \in Nat
BY DEF ProjectInv, ProjectType

\* A step that takes the stock and the starts as they are.
LEMMA QuietStepKeeps ==
    ASSUME ProjectInv, restart.on, restart' \in Restarts, RestartOK(restart'),
           restart'.nth = restart.nth, restart'.since = restart.since,
           restart'.started = restart.started, restart'.startErr = restart.startErr,
           UNCHANGED <<yaml, stock, verbs, settled>>, turns' \in {turns, turns + 1}
    PROVE  ProjectInv'
<1>1. stock' \in [Instances -> Entries \cup {None}]
  BY InvFacts
<1>2. (\A k \in restart.started \ restart.startErr : stock[k] # None /\ IsLive(stock[k])) =>
              \A k \in restart'.started \ restart'.startErr : stock'[k] # None /\ IsLive(stock'[k])
  OBVIOUS
<1>. QED
  BY ONLY ProjectInv, restart.on, restart' \in Restarts, RestartOK(restart'), restart'.nth = restart.nth,
          restart'.since = restart.since, UNCHANGED <<yaml, stock, verbs, settled>>, turns' \in {turns, turns + 1},
          <1>1, <1>2, RestartStepKeeps

LEMMA StopBeginsKeeps ==
    ASSUME ProjectInv, NEW k \in Instances, StopBegins(k) \/ PermitFails(k) PROVE ProjectInv'
<1>1. restart \in Restarts /\ RestartOK(restart)
  BY InvFacts
<1>2. /\ restart.on /\ restart.phase = "stop" /\ k \in restart.chosen \ (restart.busy \cup restart.over)
      /\ k[1] \in restart.layers[restart.at] /\ UNCHANGED <<yaml, stock, verbs, turns, settled>>
  BY UntouchedFacts DEF StopBegins, PermitFails, Phase
<1>3. CASE restart' = [restart EXCEPT !.busy = @ \cup {k}]
  <2>1. PICK r, s : r = restart /\ s = restart'
    OBVIOUS
  <2>2. s \in Restarts /\ RestartOK(s)
    <3>1. /\ r \in Restarts /\ RestartOK(r) /\ k \in r.chosen \ (r.busy \cup r.over) /\ r.on
          /\ k[1] \in r.layers[r.at] /\ r.phase # "start" /\ s = [r EXCEPT !.busy = @ \cup {k}]
      BY ONLY <1>1, <1>2, <1>3, <2>1
    <3>. QED
      BY ONLY <3>1, BusyKeeps
  <2>3. s.nth = r.nth /\ s.since = r.since /\ s.started = r.started /\ s.startErr = r.startErr
    BY ONLY <1>1, <1>3, <2>1 DEF Restarts
  <2>. QED
    BY ONLY ProjectInv, <2>1, <2>2, <2>3, <1>2, QuietStepKeeps
<1>4. CASE \/ restart' = [restart EXCEPT !.over = @ \cup {k}] /\ k \notin restart.live
           \/ restart' = [restart EXCEPT !.over = @ \cup {k}, !.stopErr = @ \cup {k}]
  <2>1. PICK r, s : r = restart /\ s = restart'
    OBVIOUS
  <2>2. PICK E \in SUBSET {k} : /\ k \in r.live => k \in E
                                /\ s = [r EXCEPT !.over = @ \cup {k}, !.stopErr = @ \cup E]
    <3>1. CASE restart' = [restart EXCEPT !.over = @ \cup {k}] /\ k \notin restart.live
      <4>1. s = [r EXCEPT !.over = @ \cup {k}, !.stopErr = @ \cup {}]
        BY ONLY <3>1, <2>1, <1>1 DEF Restarts
      <4>. QED
        BY ONLY <4>1, <3>1, <2>1
    <3>2. CASE restart' = [restart EXCEPT !.over = @ \cup {k}, !.stopErr = @ \cup {k}]
      BY ONLY <3>2, <2>1
    <3>. QED
      BY ONLY <3>1, <3>2, <1>4
  <2>3. s = [r EXCEPT !.busy = r.busy, !.over = @ \cup {k}, !.stopped = @ \cup {}, !.stopErr = @ \cup E,
                      !.hooked = @ \cup {}, !.held = @ \cup {}]
    <3>1. r \in Restarts
      BY ONLY <2>1, <1>1
    <3>2. r.stopped \cup {} = r.stopped /\ r.hooked \cup {} = r.hooked /\ r.held \cup {} = r.held
      OBVIOUS
    <3>3. s = [r EXCEPT !.busy = r.busy, !.over = r.over \cup {k}, !.stopped = r.stopped, !.stopErr = r.stopErr \cup E,
                        !.hooked = r.hooked, !.held = r.held]
      BY ONLY <3>1, <2>2 DEF Restarts
    <3>. QED
      BY ONLY <3>2, <3>3
  <2>4. s \in Restarts /\ RestartOK(s)
    <3>1. /\ r \in Restarts /\ RestartOK(r) /\ k \in r.chosen \ r.over /\ r.phase = "stop"
          /\ k[1] \in r.layers[r.at] /\ r.busy \in {r.busy, r.busy \ {k}} /\ k \notin r.busy
      BY ONLY <1>1, <1>2, <2>1
    <3>2. PICK B, P, H : B = r.busy /\ P = {} /\ H = {}
      OBVIOUS
    <3>3. /\ P \in SUBSET {k} /\ H \in SUBSET E /\ (k \in r.live => k \in P \cup E)
          /\ B \in {r.busy, r.busy \ {k}} /\ k \notin B
      BY ONLY <2>2, <3>1, <3>2
    <3>4. s = [r EXCEPT !.busy = B, !.over = @ \cup {k}, !.stopped = @ \cup P, !.stopErr = @ \cup E,
                        !.hooked = @ \cup H, !.held = @ \cup H]
      BY ONLY <2>3, <3>2
    <3>. QED
      BY ONLY <3>1, <3>3, <3>4, E \in SUBSET {k}, StoppedKeeps
  <2>5. s.nth = r.nth /\ s.since = r.since /\ s.started = r.started /\ s.startErr = r.startErr
    BY ONLY <1>1, <2>1, <2>2 DEF Restarts
  <2>. QED
    BY ONLY ProjectInv, <2>1, <2>4, <2>5, <1>2, QuietStepKeeps
<1>. QED
  BY <1>3, <1>4 DEF StopBegins, PermitFails

LEMMA StopReturnsKeeps ==
    ASSUME ProjectInv, NEW k \in Instances, StopReturns(k) PROVE ProjectInv'
<1>1. restart \in Restarts /\ RestartOK(restart) /\ stock \in [Instances -> Entries \cup {None}]
  BY InvFacts
<1>2. restart.phase = "stop" /\ restart.on /\ k \in restart.busy /\ UNCHANGED <<yaml, verbs, turns, settled>>
  BY DEF StopReturns, Phase
<1>3. PICK res \in {"ok", "failed", "pre", "post"} :
        /\ restart' = [restart EXCEPT !.busy = @ \ {k}, !.over = @ \cup {k},
                           !.stopped = @ \cup {k},
                           !.stopErr = IF res = "ok" THEN @ ELSE @ \cup {k},
                           !.hooked = IF res \in {"pre", "post"} THEN @ \cup {k} ELSE @,
                           !.held = IF Startable(res) THEN @ ELSE @ \cup {k}]
        /\ stock' = IF res \in {"ok", "post"} /\ stock[k] # None
                    THEN [stock EXCEPT ![k].state = "exited"] ELSE stock
  BY DEF StopReturns
<1>4. PICK r, s : r = restart /\ s = restart'
  OBVIOUS
<1>5. PICK E : E = IF res = "ok" THEN {} ELSE {k}
  OBVIOUS
<1>6. PICK H : H = IF res \in {"pre", "post"} THEN {k} ELSE {}
  OBVIOUS
<1>7. E \in SUBSET {k} /\ H \in SUBSET E
  BY ONLY <1>5, <1>6
<1>8. s = [r EXCEPT !.busy = r.busy \ {k}, !.over = @ \cup {k}, !.stopped = @ \cup {k}, !.stopErr = @ \cup E,
                    !.hooked = @ \cup H, !.held = @ \cup H]
  <2>1. /\ (IF res = "ok" THEN r.stopErr ELSE r.stopErr \cup {k}) = r.stopErr \cup E
        /\ (IF res \in {"pre", "post"} THEN r.hooked \cup {k} ELSE r.hooked) = r.hooked \cup H
        /\ (IF Startable(res) THEN r.held ELSE r.held \cup {k}) = r.held \cup H
    BY ONLY <1>5, <1>6 DEF Startable
  <2>2. s = [r EXCEPT !.busy = r.busy \ {k}, !.over = r.over \cup {k}, !.stopped = r.stopped \cup {k},
                      !.stopErr = IF res = "ok" THEN r.stopErr ELSE r.stopErr \cup {k},
                      !.hooked = IF res \in {"pre", "post"} THEN r.hooked \cup {k} ELSE r.hooked,
                      !.held = IF Startable(res) THEN r.held ELSE r.held \cup {k}]
    BY ONLY <1>1, <1>3, <1>4
  <2>. QED
    BY ONLY <2>1, <2>2
<1>9. /\ r.busy \subseteq r.chosen /\ r.busy \cap r.over = {}
      /\ k[1] \in r.layers[r.at] /\ r.started = {}
  <2>1. /\ r.busy \subseteq r.chosen /\ r.busy \cap r.over = {} /\ WalkOK(r) /\ StopOK(r)
    BY ONLY <1>1, <1>2, <1>4 DEF RestartOK
  <2>2. PICK n \in 1 .. Len(r.layers) : k[1] \in r.layers[n]
    BY ONLY <1>2, <1>4, <2>1 DEF WalkOK
  <2>3. n >= r.at /\ (n > r.at => k \in r.over)
    BY ONLY <1>2, <1>4, <2>1, <2>2 DEF StopOK
  <2>4. n \in Nat /\ r.at \in Nat /\ k \notin r.over
    BY ONLY <1>1, <1>2, <1>4, <2>1, n \in 1 .. Len(r.layers) DEF Restarts
  <2>5. n = r.at
    BY ONLY <2>3, <2>4
  <2>. QED
    BY ONLY <2>1, <2>2, <2>5 DEF StopOK
<1>10. s \in Restarts /\ RestartOK(s)
  <2>1. /\ r \in Restarts /\ RestartOK(r) /\ k \in r.chosen \ r.over /\ r.phase = "stop"
        /\ k[1] \in r.layers[r.at]
    BY ONLY <1>1, <1>2, <1>4, <1>9
  <2>2. PICK B : B = r.busy \ {k}
    OBVIOUS
  <2>3. PICK P : P = {k}
    OBVIOUS
  <2>4. s = [r EXCEPT !.busy = B, !.over = @ \cup {k}, !.stopped = @ \cup P, !.stopErr = @ \cup E,
                      !.hooked = @ \cup H, !.held = @ \cup H]
    BY ONLY <1>8, <2>2, <2>3
  <2>5. B \in {r.busy, r.busy \ {k}} /\ k \notin B /\ P \in SUBSET {k} /\ (k \in r.live => k \in P \cup E)
    BY ONLY <2>2, <2>3
  <2>. QED
    BY ONLY <2>1, <2>4, <2>5, <1>7, StoppedKeeps
<1>11. s.nth = r.nth /\ s.since = r.since /\ s.started = {}
  BY ONLY <1>1, <1>4, <1>8, <1>9 DEF Restarts
<1>12. stock' \in [Instances -> Entries \cup {None}]
  <2>1. CASE stock[k] = None
    BY ONLY <2>1, <1>1, <1>3
  <2>2. CASE stock[k] # None
    <3>1. [stock[k] EXCEPT !.state = "exited"] \in Entries
      BY <2>2, <1>1, EntryFacts
    <3>2. [stock EXCEPT ![k].state = "exited"] = [stock EXCEPT ![k] = [stock[k] EXCEPT !.state = "exited"]]
      BY ONLY <1>1
    <3>. QED
      BY ONLY <3>1, <3>2, <1>1, <1>3, k \in Instances
  <2>. QED
    BY <2>1, <2>2
<1>13. /\ restart' \in Restarts /\ RestartOK(restart') /\ restart'.nth = restart.nth
       /\ restart'.since = restart.since /\ restart'.started = {} /\ turns' \in {turns, turns + 1}
  BY ONLY <1>2, <1>4, <1>10, <1>11
<1>14. \A j \in restart'.started \ restart'.startErr : stock'[j] # None /\ IsLive(stock'[j])
  BY ONLY <1>13
<1>. QED
  BY ONLY ProjectInv, <1>2, <1>12, <1>13, <1>14, RestartStepKeeps

LEMMA StartBeginsKeeps ==
    ASSUME ProjectInv, NEW k \in Instances, StartBegins(k) PROVE ProjectInv'
<1>1. restart \in Restarts /\ RestartOK(restart)
  BY InvFacts
<1>2. /\ restart.on /\ k \in restart.chosen \ (restart.busy \cup restart.over) /\ k \notin restart.held
      /\ k[1] \in restart.layers[restart.at] /\ UNCHANGED <<yaml, stock, verbs, turns, settled>>
      /\ restart' = [restart EXCEPT !.busy = @ \cup {k}]
  BY UntouchedFacts DEF StartBegins, Phase
<1>3. PICK r, s : r = restart /\ s = restart'
  OBVIOUS
<1>4. s \in Restarts /\ RestartOK(s)
  <2>1. /\ r \in Restarts /\ RestartOK(r) /\ k \in r.chosen \ (r.busy \cup r.over) /\ r.on
        /\ k[1] \in r.layers[r.at] /\ k \notin r.held /\ s = [r EXCEPT !.busy = @ \cup {k}]
    BY ONLY <1>1, <1>2, <1>3
  <2>. QED
    BY ONLY <2>1, BusyKeeps
<1>5. s.nth = r.nth /\ s.since = r.since /\ s.started = r.started /\ s.startErr = r.startErr
  BY ONLY <1>1, <1>2, <1>3 DEF Restarts
<1>. QED
  BY ONLY ProjectInv, <1>2, <1>3, <1>4, <1>5, QuietStepKeeps

LEMMA StartReturnsKeeps ==
    ASSUME ProjectInv, NEW k \in Instances, StartReturns(k) PROVE ProjectInv'
<1>1. restart \in Restarts /\ RestartOK(restart) /\ stock \in [Instances -> Entries \cup {None}]
  BY InvFacts
<1>2. restart.phase = "start" /\ restart.on /\ k \in restart.busy /\ UNCHANGED <<yaml, verbs, turns, settled>>
  BY DEF StartReturns, Phase
<1>3. PICK ok \in BOOLEAN :
        /\ ok => stock[k] # None /\ ~IsLive(stock[k])
        /\ restart' = [restart EXCEPT !.busy = @ \ {k}, !.over = @ \cup {k},
                           !.started = @ \cup {k},
                           !.startErr = IF ok THEN @ ELSE @ \cup {k}]
        /\ stock' = IF ok THEN [stock EXCEPT ![k].state = "running"] ELSE stock
  BY DEF StartReturns
<1>4. PICK r, s : r = restart /\ s = restart'
  OBVIOUS
<1>5. PICK E : E = IF ok THEN {} ELSE {k}
  OBVIOUS
<1>6. s = [r EXCEPT !.busy = @ \ {k}, !.over = @ \cup {k}, !.started = @ \cup {k}, !.startErr = @ \cup E]
  <2>1. (IF ok THEN r.startErr ELSE r.startErr \cup {k}) = r.startErr \cup E
    BY ONLY <1>5
  <2>2. s = [r EXCEPT !.busy = r.busy \ {k}, !.over = r.over \cup {k}, !.started = r.started \cup {k},
                      !.startErr = IF ok THEN r.startErr ELSE r.startErr \cup {k}]
    BY ONLY <1>1, <1>3, <1>4
  <2>. QED
    BY ONLY <2>1, <2>2
<1>7. s \in Restarts /\ RestartOK(s)
  <2>1. r \in Restarts /\ RestartOK(r) /\ k \in r.busy /\ r.phase = "start" /\ E \in SUBSET {k}
    BY ONLY <1>1, <1>2, <1>4, <1>5
  <2>. QED
    BY ONLY <2>1, <1>6, StartedKeeps
<1>8. /\ s.nth = r.nth /\ s.since = r.since /\ s.started = r.started \cup {k} /\ s.startErr = r.startErr \cup E
  BY ONLY <1>1, <1>4, <1>6 DEF Restarts
<1>9. /\ stock' \in [Instances -> Entries \cup {None}]
      /\ \A j \in Instances : j # k => stock'[j] = stock[j]
      /\ ok => stock'[k] # None /\ stock'[k].state = "running"
      /\ ~ok => stock' = stock
  <2>1. CASE ~ok
    BY ONLY <2>1, <1>1, <1>3
  <2>2. CASE ok
    <3>1. PICK e : e = [stock[k] EXCEPT !.state = "running"]
      OBVIOUS
    <3>2. stock[k] \in Entries
      BY ONLY <2>2, <1>1, <1>3, k \in Instances
    <3>3. e \in Entries /\ e.state = "running" /\ e # None
      BY <3>1, <3>2, EntryFacts
    <3>4. stock' = [stock EXCEPT ![k] = e]
      BY ONLY <2>2, <3>1, <1>1, <1>3
    <3>. QED
      BY ONLY <2>2, <3>3, <3>4, <1>1, k \in Instances
  <2>. QED
    BY ONLY <2>1, <2>2
<1>10. ASSUME \A j \in restart.started \ restart.startErr : stock[j] # None /\ IsLive(stock[j])
       PROVE  \A j \in restart'.started \ restart'.startErr : stock'[j] # None /\ IsLive(stock'[j])
  <2>1. SUFFICES ASSUME NEW j \in s.started \ s.startErr PROVE stock'[j] # None /\ stock'[j].state = "running"
    BY ONLY <2>1, <1>4 DEF IsLive
  <2>2. j \in Instances
    BY ONLY <1>7, j \in s.started \ s.startErr DEF Restarts
  <2>3. CASE j = k
    <3>1. ok
      BY ONLY <2>3, <1>5, <1>8, j \in s.started \ s.startErr
    <3>. QED
      BY ONLY <3>1, <2>3, <1>9
  <2>4. CASE j # k
    <3>1. j \in restart.started \ restart.startErr
      BY ONLY <2>4, <1>4, <1>8, j \in s.started \ s.startErr
    <3>2. stock[j] # None /\ stock[j].state = "running"
      BY ONLY <3>1, <1>10 DEF IsLive
    <3>. QED
      BY ONLY <3>2, <2>2, <2>4, <1>9
  <2>. QED
    BY ONLY <2>3, <2>4
<1>11. /\ restart' \in Restarts /\ RestartOK(restart') /\ restart'.nth = restart.nth
       /\ restart'.since = restart.since /\ turns' \in {turns, turns + 1}
       /\ stock' \in [Instances -> Entries \cup {None}]
  BY ONLY <1>2, <1>4, <1>7, <1>8, <1>9
<1>. QED
  BY ONLY ProjectInv, <1>2, <1>10, <1>11, RestartStepKeeps

LEMMA LayerEndsKeeps ==
    ASSUME ProjectInv, LayerEnds PROVE ProjectInv'
<1>1. restart \in Restarts /\ RestartOK(restart)
  BY InvFacts
<1>2. /\ restart.on /\ restart.busy = {} /\ UNCHANGED <<yaml, stock, verbs, turns, settled>>
      /\ LayerOf(restart.at) \ (IF restart.phase = "start" THEN restart.held ELSE {}) \subseteq restart.over
      /\ restart' = CASE restart.phase = "stop" /\ restart.at > 1 -> [restart EXCEPT !.at = @ - 1]
                    [] restart.phase = "stop" /\ restart.at = 1 -> [restart EXCEPT !.phase = "start", !.over = {}]
                    [] restart.phase = "start" /\ restart.at < Len(restart.layers) -> [restart EXCEPT !.at = @ + 1]
                    [] OTHER -> [restart EXCEPT !.on = FALSE, !.phase = "done"]
  BY DEF LayerEnds
<1>3. PICK r, s : r = restart /\ s = restart'
  OBVIOUS
<1>4. r.at \in Nat
  BY ONLY <1>1, <1>3 DEF Restarts
<1>5. s = CASE r.phase = "stop" /\ r.at > 1 -> [r EXCEPT !.at = @ - 1]
            [] r.phase = "stop" /\ r.at = 1 -> [r EXCEPT !.phase = "start", !.over = {}]
            [] r.phase = "start" /\ r.at < Len(r.layers) -> [r EXCEPT !.at = @ + 1]
            [] OTHER -> [r EXCEPT !.on = FALSE, !.phase = "done"]
  BY ONLY <1>2, <1>3
<1>6. \/ r.phase = "stop" /\ r.at > 1 /\ s = [r EXCEPT !.at = @ - 1]
      \/ r.phase = "stop" /\ r.at = 1 /\ s = [r EXCEPT !.phase = "start", !.over = {}]
      \/ r.phase = "start" /\ r.at < Len(r.layers) /\ s = [r EXCEPT !.at = @ + 1]
      \/ /\ ~(r.phase = "stop" /\ r.at > 1) /\ ~(r.phase = "stop" /\ r.at = 1)
         /\ ~(r.phase = "start" /\ r.at < Len(r.layers))
         /\ s = [r EXCEPT !.on = FALSE, !.phase = "done"]
  <2>1. CASE r.phase = "stop" /\ r.at > 1
    BY ONLY <2>1, <1>4, <1>5
  <2>2. CASE r.phase = "stop" /\ r.at = 1
    BY ONLY <2>2, <1>4, <1>5
  <2>3. CASE r.phase = "start" /\ r.at < Len(r.layers)
    BY ONLY <2>3, <1>4, <1>5
  <2>4. CASE /\ ~(r.phase = "stop" /\ r.at > 1) /\ ~(r.phase = "stop" /\ r.at = 1)
             /\ ~(r.phase = "start" /\ r.at < Len(r.layers))
    BY ONLY <2>4, <1>4, <1>5
  <2>. QED
    BY ONLY <2>1, <2>2, <2>3, <2>4
<1>7. {k \in r.chosen : k[1] \in r.layers[r.at]} \ (IF r.phase = "start" THEN r.held ELSE {}) \subseteq r.over
  BY ONLY <1>2, <1>3 DEF LayerOf
<1>8. s \in Restarts /\ RestartOK(s)
  <2>1. r \in Restarts /\ RestartOK(r) /\ r.on /\ r.busy = {}
    BY ONLY <1>1, <1>2, <1>3
  <2>. QED
    BY ONLY <2>1, <1>6, <1>7, LayerKeeps
<1>9. s.nth = r.nth /\ s.since = r.since /\ s.started = r.started /\ s.startErr = r.startErr
  <2>1. r \in Restarts
    BY ONLY <1>1, <1>3
  <2>. QED
    BY ONLY <2>1, <1>6 DEF Restarts
<1>. QED
  BY ONLY ProjectInv, <1>2, <1>3, <1>8, <1>9, QuietStepKeeps

LEMMA CancelRestartKeeps ==
    ASSUME ProjectInv, CancelRestart PROVE ProjectInv'
<1>1. restart \in Restarts /\ RestartOK(restart)
  BY InvFacts
<1>2. /\ restart.on /\ restart' = [restart EXCEPT !.cancelled = TRUE] /\ turns' = turns + 1
      /\ UNCHANGED <<yaml, stock, verbs, settled>>
  BY DEF CancelRestart, Phase
<1>3. PICK r, s : r = restart /\ s = restart'
  OBVIOUS
<1>4. s \in Restarts /\ RestartOK(s)
  <2>1. r \in Restarts /\ RestartOK(r) /\ s = [r EXCEPT !.cancelled = TRUE]
    BY ONLY <1>1, <1>2, <1>3
  <2>. QED
    BY ONLY <2>1, RestartCancelKeeps
<1>5. s.nth = r.nth /\ s.since = r.since /\ s.started = r.started /\ s.startErr = r.startErr
  BY ONLY <1>1, <1>2, <1>3 DEF Restarts
<1>. QED
  BY ONLY ProjectInv, <1>2, <1>3, <1>4, <1>5, QuietStepKeeps

\* Someone else has stepped in: nothing is said of what the last restart started.
LEMMA OthersKeep ==
    ASSUME ProjectInv, turns' = turns + 1, UNCHANGED <<restart, verbs>>, yaml' \in Yamls \cup {NoYaml},
           stock' \in [Instances -> Entries \cup {None}],
           \/ settled' = Unsettled
           \/ ~restart.on /\ UNCHANGED <<stock, settled>>
    PROVE  ProjectInv'
<1>1. ProjectType /\ RestartOK(restart) /\ OutcomeOK /\ Converged
  BY DEF ProjectInv
<1>2. turns \in Nat /\ restart.since \in Nat /\ restart.since <= turns
  BY <1>1 DEF ProjectType, Restarts, OutcomeOK
<1>3. turns' \in Nat /\ restart.since <= turns' /\ turns' # restart.since
  BY ONLY <1>2, turns' = turns + 1
<1>4. RestartOK(restart')
  BY <1>1
<1>5. OutcomeOK'
  BY <1>1, <1>3 DEF OutcomeOK
<1>6. CASE settled' = Unsettled
  <2>1. ProjectType' /\ Converged'
    BY <1>1, <1>3, <1>6, UnsettledFacts DEF ProjectType
  <2>. QED
    BY <2>1, <1>4, <1>5 DEF ProjectInv
<1>7. CASE UNCHANGED <<stock, settled>>
  <2>1. ProjectType'
    BY <1>1, <1>3, <1>7 DEF ProjectType
  <2>2. Converged'
    BY <1>1, <1>7 DEF Converged, ActionOf, Stored
  <2>. QED
    BY <2>1, <2>2, <1>4, <1>5 DEF ProjectInv
<1>. QED
  BY <1>6, <1>7

LEMMA EditYamlKeeps ==
    ASSUME ProjectInv, EditYaml PROVE ProjectInv'
<1>1. /\ ~restart.on /\ yaml' \in Yamls \cup {NoYaml} /\ turns' = turns + 1
      /\ UNCHANGED <<stock, restart, verbs, settled>>
  BY DEF EditYaml, Resting
<1>2. stock' \in [Instances -> Entries \cup {None}]
  BY <1>1, InvFacts
<1>. QED
  BY <1>1, <1>2, OthersKeep

LEMMA TurnsKeeps ==
    ASSUME ProjectInv, NEW k \in Instances, Turns(k) PROVE ProjectInv'
<1>1. /\ k \in Stored /\ turns' = turns + 1 /\ settled' = Unsettled /\ UNCHANGED <<yaml, restart, verbs>>
  BY DEF Turns
<1>2. stock \in [Instances -> Entries \cup {None}] /\ yaml \in Yamls \cup {NoYaml}
  BY DEF ProjectInv, ProjectType
<1>3. stock[k] \in Entries
  BY <1>1, <1>2, StoredFacts
<1>4. PICK st : st = IF IsLive(stock[k]) THEN "exited" ELSE "running"
  OBVIOUS
<1>5. PICK e \in {None, [stock[k] EXCEPT !.state = st]} : stock' = [stock EXCEPT ![k] = e]
  BY <1>4 DEF Turns
<1>6. [stock[k] EXCEPT !.state = st] \in Entries
  BY <1>3, <1>4, EntryFacts
<1>7. stock' \in [Instances -> Entries \cup {None}]
  BY ONLY <1>2, <1>5, <1>6, k \in Instances
<1>8. yaml' \in Yamls \cup {NoYaml}
  BY <1>1, <1>2
<1>. QED
  BY ONLY ProjectInv, <1>1, <1>7, <1>8, OthersKeep

LEMMA ProjectInitInv == ProjectInit => ProjectInv
<1>1. SUFFICES ASSUME ProjectInit PROVE ProjectInv
  OBVIOUS
<1>2. PICK r : r = restart
  OBVIOUS
<1>3. /\ r \in Restarts /\ ~r.on /\ r.phase = "none" /\ r.chosen = {} /\ r.live = {} /\ r.busy = {} /\ r.over = {}
      /\ r.held = {} /\ r.started = {} /\ r.stopErr = {} /\ r.hooked = {} /\ r.since = 0 /\ r.nth = 0
  BY <1>1, <1>2, NoRestartFacts DEF ProjectInit
<1>4. RestartOK(r)
  BY ONLY <1>3 DEF RestartOK
<1>5. /\ yaml \in Yamls /\ stock = [k \in Instances |-> None] /\ verbs = 0 /\ turns = 0 /\ settled = Unsettled
  BY <1>1 DEF ProjectInit
<1>6. settled.of = {} /\ settled \in [spec : Files \cup {NoYaml}, of : SUBSET Services]
  BY <1>5, UnsettledFacts, FileFacts
<1>7. ProjectType
  BY <1>2, <1>3, <1>5, <1>6 DEF ProjectType
<1>8. Converged
  BY <1>6 DEF Converged
<1>9. OutcomeOK
  BY ONLY <1>2, <1>3, <1>5 DEF OutcomeOK
<1>. QED
  BY <1>2, <1>4, <1>7, <1>8, <1>9 DEF ProjectInv

LEMMA ComposeKeepsProject ==
    ASSUME ProjectInv, [ComposeNext]_composeVars PROVE ProjectInv'
<1>1. CASE UNCHANGED projectVars
  <2>1. UNCHANGED <<yaml, stock, restart, verbs, turns, settled>>
    BY <1>1 DEF projectVars
  <2>. QED
    BY <2>1 DEF ProjectInv, ProjectType, OutcomeOK, Converged, ActionOf, Stored
<1>2. CASE ProjectNext
  <2>1. CASE Create \/ Scale
    BY <2>1, CreateKeeps
  <2>2. CASE Signal \/ SendKeys \/ Stop
    BY <2>2, SignalKeeps
  <2>3. CASE RestartBegins \/ LayerEnds \/ CancelRestart \/ EditYaml
    BY <2>3, RestartBeginsKeeps, LayerEndsKeeps, CancelRestartKeeps, EditYamlKeeps
  <2>4. CASE \E k \in Instances :
               StopBegins(k) \/ PermitFails(k) \/ StopReturns(k) \/ StartBegins(k) \/ StartReturns(k) \/ Turns(k)
    BY <2>4, StopBeginsKeeps, StopReturnsKeeps, StartBeginsKeeps, StartReturnsKeeps, TurnsKeeps
  <2>. QED
    BY <1>2, <2>1, <2>2, <2>3, <2>4 DEF ProjectNext
<1>. QED
  BY <1>1, <1>2 DEF ComposeNext, composeVars, ProjectSteps

-----------------------------------------------------------------------------
(* What follows for the project                                            *)

LEMMA HighestFacts ==
    ASSUME NEW c \in Services, NEW ks, ks = {i \in Indices : <<c, i>> \in Stored}
    PROVE  /\ Highest(c) \in 0 .. MaxScale
           /\ ks = {} => Highest(c) = 0
           /\ ks # {} => Highest(c) \in ks /\ \A j \in ks : j <= Highest(c)
<1>1. MaxScale \in Nat
  BY MaxScaleAssumption
<1>2. ks \in SUBSET (1 .. MaxScale)
  BY DEF Indices
<1>3. Highest(c) = IF ks = {} THEN 0 ELSE CHOOSE i \in ks : \A j \in ks : j <= i
  BY DEF Highest
<1>4. ks # {} => \E i \in ks : \A j \in ks : j <= i
  BY ONLY <1>1, <1>2, GreatestNatural
<1>5. ks # {} => Highest(c) \in ks /\ \A j \in ks : j <= Highest(c)
  BY ONLY <1>3, <1>4
<1>6. ks = {} => Highest(c) = 0
  BY ONLY <1>3
<1>7. Highest(c) \in 0 .. MaxScale
  <2>1. CASE ks = {}
    BY ONLY <2>1, <1>1, <1>6
  <2>2. CASE ks # {}
    <3>1. Highest(c) \in 1 .. MaxScale
      BY ONLY <2>2, <1>2, <1>5
    <3>. QED
      BY ONLY <3>1, <1>1
  <2>. QED
    BY ONLY <2>1, <2>2
<1>. QED
  BY ONLY <1>5, <1>6, <1>7

LEMMA AttachHolds == AttachesAsked
<1>1. SUFFICES ASSUME NEW c \in Services, \A i \in 1 .. Highest(c) : <<c, i>> \in Stored, NEW i \in Indices
               PROVE  ResolveCommandID(c, i) = IF <<c, i>> \in Stored THEN i ELSE 0
  BY DEF AttachesAsked
<1>2. PICK ks : ks = {j \in Indices : <<c, j>> \in Stored}
  OBVIOUS
<1>3. PICK h : h = Highest(c)
  OBVIOUS
<1>4. /\ h \in 0 .. MaxScale /\ (ks = {} => h = 0) /\ (ks # {} => h \in ks /\ \A j \in ks : j <= h)
  BY <1>2, <1>3, HighestFacts
<1>5. MaxScale \in Nat /\ Indices = 1 .. MaxScale /\ h \in Nat
  BY <1>4, MaxScaleAssumption DEF Indices
<1>6. ks = 1 .. h
  <2>1. ASSUME NEW j \in 1 .. h PROVE j \in ks
    <3>1. j \in Indices
      BY ONLY <1>4, <1>5, j \in 1 .. h
    <3>. QED
      BY <3>1, <1>1, <1>2, <1>3
  <2>2. ASSUME NEW j \in ks PROVE j \in 1 .. h
    <3>1. j \in 1 .. MaxScale /\ j <= h
      BY ONLY <1>2, <1>4, <1>5, j \in ks
    <3>. QED
      BY ONLY <3>1, <1>5
  <2>. QED
    BY ONLY <2>1, <2>2
<1>7. \A j \in Nat : Cardinality(1 .. j) = j
  <2>1. ASSUME NEW j \in Nat PROVE Cardinality(1 .. j) = j
    <3>1. Cardinality(1 .. j) = IF 1 > j THEN 0 ELSE j - 1 + 1
      BY FS_Interval
    <3>. QED
      BY ONLY <3>1, j \in Nat
  <2>. QED
    BY <2>1
<1>8. Cardinality(ks) = h
  BY ONLY <1>5, <1>6, <1>7
<1>9. i \in Nat /\ i # 0 /\ (<<c, i>> \in Stored <=> i \in ks)
  BY <1>2, <1>5
<1>10. ResolveCommandID(c, i) =
         IF i > h THEN 0 ELSE CHOOSE j \in ks : Cardinality({m \in ks : m <= j}) = i
  BY <1>2, <1>8, <1>9 DEF ResolveCommandID
<1>11. CASE i > h
  <2>1. i \notin ks
    BY ONLY <1>5, <1>6, <1>9, <1>11
  <2>. QED
    BY ONLY <2>1, <1>9, <1>10, <1>11
<1>12. CASE i <= h
  <2>1. i \in ks /\ ~(i > h)
    BY ONLY <1>5, <1>6, <1>9, <1>12
  <2>2. ASSUME NEW j \in ks PROVE Cardinality({m \in ks : m <= j}) = j
    <3>1. j \in Nat /\ {m \in ks : m <= j} = 1 .. j
      BY ONLY <1>5, <1>6, j \in ks
    <3>. QED
      BY ONLY <3>1, <1>7
  <2>3. \E j \in ks : Cardinality({m \in ks : m <= j}) = i
    BY ONLY <2>1, <2>2
  <2>4. PICK q : q = CHOOSE j \in ks : Cardinality({m \in ks : m <= j}) = i
    OBVIOUS
  <2>5. q \in ks /\ Cardinality({m \in ks : m <= q}) = i
    BY ONLY <2>3, <2>4
  <2>6. q = i
    BY ONLY <2>2, <2>5
  <2>. QED
    BY ONLY <2>1, <2>4, <2>6, <1>9, <1>10
<1>. QED
  BY ONLY <1>5, <1>9, <1>11, <1>12

LEMMA TopoLayersSame ==
    ASSUME NEW names, IsFiniteSet(names), NEW d1, NEW d2, \A c \in names : d1[c] = d2[c]
    PROVE  TopoLayers(names, d1) = TopoLayers(names, d2)
<1>1. PeelStep(names, d1) = PeelStep(names, d2)
  BY DEF PeelStep
<1>2. PICK P : Peels(P, names, d1)
  BY PeelsExists
<1>3. Peels(P, names, d2)
  BY ONLY <1>1, <1>2 DEF Peels
<1>. QED
  BY <1>2, <1>3, TopoLayersAre

LEMMA GraphAgrees ==
    ASSUME ProjectInv PROVE StoredGraphAgrees
<1>1. PICK y : y = settled.spec
  OBVIOUS
<1>2. SUFFICES ASSUME y # NoYaml, settled.of = y.names, PlanOrphans(y) = {}, NEW f \in Firsts
               PROVE  /\ Reconstruct(f).names = y.names
                      /\ TopoLayers(Reconstruct(f).names, Reconstruct(f).deps) = TopoLayers(y.names, y.deps)
  BY <1>1 DEF StoredGraphAgrees
<1>3. y \in Files /\ stock \in [Instances -> Entries \cup {None}]
  BY <1>1, <1>2 DEF ProjectInv, ProjectType
<1>4. y.names \in SUBSET Services /\ IsFiniteSet(y.names) /\ y.scale \in [Services -> Nat \ {0}]
  BY <1>3, FileFacts
<1>5. Stored \in SUBSET Instances
  BY <1>3, StoredFacts
<1>6. \A k \in Instances : k[1] \in y.names =>
         IF k[2] <= y.scale[k[1]] THEN ActionOf(y, k) = "unchanged" ELSE k \notin Stored
  BY <1>1, <1>2 DEF ProjectInv, Converged
<1>7. \A k \in Instances : k[1] \in y.names /\ k[2] <= y.scale[k[1]] =>
         k \in Stored /\ stock[k].hash = Hash(y, k[1])
  BY ONLY <1>6 DEF ActionOf
<1>8. \A k \in Stored : k[1] \in y.names /\ stock[k].hash = Hash(y, k[1])
  <2>1. ASSUME NEW k \in Stored PROVE k[1] \in y.names
    BY <1>2 DEF PlanOrphans
  <2>. QED
    BY ONLY <2>1, <1>5, <1>6, <1>7
<1>9. ASSUME NEW c \in y.names PROVE <<c, 1>> \in Stored
  <2>1. <<c, 1>> \in Instances /\ <<c, 1>>[1] = c /\ <<c, 1>>[2] = 1
    BY <1>4, MaxScaleAssumption DEF Instances, Indices
  <2>2. y.scale[c] \in Nat \ {0}
    BY <1>4
  <2>3. 1 <= y.scale[c]
    BY ONLY <2>2
  <2>. QED
    BY ONLY <2>1, <2>3, <1>7, c \in y.names
<1>10. PICK names, deps : names = Reconstruct(f).names /\ deps = Reconstruct(f).deps
  OBVIOUS
<1>11. names = {k[1] : k \in Stored}
       /\ deps = [c \in Services |-> IF f[c] = 0 THEN {} ELSE stock[<<c, f[c]>>].hash.after]
  BY <1>10 DEF Reconstruct
<1>12. names = y.names
  <2>1. \A c \in y.names : <<c, 1>>[1] = c
    OBVIOUS
  <2>. QED
    BY ONLY <2>1, <1>8, <1>9, <1>11
<1>13. ASSUME NEW c \in y.names PROVE deps[c] = y.deps[c]
  <2>1. c \in Services
    BY <1>4
  <2>2. PICK ks : ks = {i \in Indices : <<c, i>> \in Stored}
    OBVIOUS
  <2>3. 1 \in ks
    BY <2>2, <1>9, MaxScaleAssumption DEF Indices
  <2>4. Highest(c) # 0
    <3>1. Highest(c) \in ks
      BY ONLY <2>1, <2>2, <2>3, HighestFacts
    <3>2. \A i \in ks : i # 0
      BY <2>2, MaxScaleAssumption DEF Indices
    <3>. QED
      BY ONLY <3>1, <3>2
  <2>5. <<c, f[c]>> \in Stored
    BY <2>1, <2>4 DEF Firsts
  <2>6. f[c] # 0
    <3>1. <<c, f[c]>> \in Instances /\ <<c, f[c]>>[2] = f[c]
      BY ONLY <2>5, <1>5
    <3>2. <<c, f[c]>>[2] \in Indices
      BY ONLY <3>1, InstanceFacts
    <3>. QED
      BY <3>1, <3>2, MaxScaleAssumption DEF Indices
  <2>7. stock[<<c, f[c]>>].hash = Hash(y, c)
    <3>1. <<c, f[c]>>[1] = c
      OBVIOUS
    <3>. QED
      BY ONLY <3>1, <2>5, <1>8
  <2>8. deps[c] = stock[<<c, f[c]>>].hash.after
    BY ONLY <2>1, <2>6, <1>11
  <2>. QED
    BY ONLY <2>7, <2>8 DEF Hash
<1>14. TopoLayers(names, deps) = TopoLayers(y.names, y.deps)
  <2>1. TopoLayers(y.names, deps) = TopoLayers(y.names, y.deps)
    BY ONLY <1>4, <1>13, TopoLayersSame
  <2>. QED
    BY ONLY <2>1, <1>12
<1>. QED
  BY ONLY <1>10, <1>12, <1>14

LEMMA OrderHolds ==
    ASSUME ProjectInv PROVE RestartOrder
<1>1. restart \in Restarts /\ RestartOK(restart)
  BY InvFacts
<1>2. PICK r : r = restart
  OBVIOUS
<1>3. PICK needs : needs = Needs(Services, r.deps)
  OBVIOUS
<1>4. r \in Restarts /\ RestartOK(r)
  BY ONLY <1>1, <1>2
<1>5. ASSUME r.phase = "stop", r.on, NEW k \in r.busy \cup r.stopped, NEW j \in r.chosen, k[1] \in needs[j[1]]
      PROVE  j \in r.over
  <2>1. WalkOK(r) /\ StopOK(r)
    BY ONLY <1>4, <1>5 DEF RestartOK
  <2>2. Len(r.layers) \in Nat /\ r.at \in Nat
    BY ONLY <1>4 DEF Restarts
  <2>3. PICK n \in 1 .. Len(r.layers) : j[1] \in r.layers[n]
    BY ONLY <2>1, j \in r.chosen DEF WalkOK
  <2>4. PICK m \in 1 .. n - 1 : k[1] \in r.layers[m]
    BY ONLY <2>1, <2>3, <1>3, <1>5 DEF WalkOK
  <2>5. k \in r.busy \cup r.over /\ m \in 1 .. Len(r.layers)
    BY ONLY <2>1, <2>2, k \in r.busy \cup r.stopped, n \in 1 .. Len(r.layers), m \in 1 .. n - 1 DEF StopOK
  <2>6. m >= r.at
    BY ONLY <2>1, <2>4, <2>5 DEF StopOK
  <2>7. n > r.at
    BY ONLY <2>2, <2>6, n \in 1 .. Len(r.layers), m \in 1 .. n - 1
  <2>. QED
    BY ONLY <2>1, <2>3, <2>7, j \in r.chosen DEF StopOK
<1>6. ASSUME r.phase = "start", r.on, NEW k \in r.busy \cup r.started, NEW j \in r.chosen \ r.hooked,
             j[1] \in needs[k[1]]
      PROVE  j \in r.started
  <2>1. WalkOK(r) /\ StartOK(r) /\ r.held = r.hooked /\ r.busy \cup r.over \subseteq r.chosen
    BY ONLY <1>4, <1>6 DEF RestartOK
  <2>2. Len(r.layers) \in Nat /\ r.at \in Nat
    BY ONLY <1>4 DEF Restarts
  <2>3. k \in r.busy \cup r.over /\ k \in r.chosen
    BY ONLY <2>1, k \in r.busy \cup r.started DEF StartOK
  <2>4. PICK n \in 1 .. Len(r.layers) : k[1] \in r.layers[n]
    BY ONLY <2>1, <2>3 DEF WalkOK
  <2>5. PICK m \in 1 .. n - 1 : j[1] \in r.layers[m]
    BY ONLY <2>1, <2>4, <1>3, <1>6 DEF WalkOK
  <2>6. n <= r.at
    BY ONLY <2>1, <2>3, <2>4 DEF StartOK
  <2>7. m < r.at /\ m \in 1 .. Len(r.layers)
    BY ONLY <2>2, <2>6, n \in 1 .. Len(r.layers), m \in 1 .. n - 1
  <2>8. j \in r.chosen \ r.held
    BY ONLY <2>1, j \in r.chosen \ r.hooked
  <2>9. j \in r.over
    BY ONLY <2>1, <2>5, <2>7, <2>8 DEF StartOK
  <2>. QED
    BY ONLY <2>1, <2>9 DEF StartOK
<1>7. r.phase = "start" => r.live \subseteq r.stopped \cup r.stopErr
  BY ONLY <1>4 DEF RestartOK, StartOK
<1>. QED
  BY ONLY <1>2, <1>3, <1>5, <1>6, <1>7 DEF RestartOrder, Phase

LEMMA ProjectFollows == ProjectInv => ProjectSafety
<1>1. SUFFICES ASSUME ProjectInv PROVE ProjectSafety
  OBVIOUS
<1>2. ProjectType /\ RestartOK(restart) /\ OutcomeOK /\ Converged /\ restart \in Restarts
  BY <1>1 DEF ProjectInv, ProjectType
<1>3. ProjectTypeOK
  <2>1. \A k \in Stored : stock[k].state \in {"created", "running", "exited"}
    <3>1. \A k \in Stored : stock[k] \in Entries
      BY <1>2, StoredFacts DEF ProjectType
    <3>. QED
      BY <3>1 DEF Entries
  <2>2. restart.busy \cup restart.over \cup restart.held \subseteq restart.chosen
        /\ restart.busy \cap restart.over = {} /\ restart.chosen \subseteq Instances
    BY <1>2 DEF RestartOK, Restarts
  <2>. QED
    BY <2>1, <2>2, <1>2 DEF ProjectTypeOK, ProjectType
<1>4. RestartTrue
  <2>1. SUFFICES ASSUME restart.phase = "done"
                 PROVE  /\ restart.started = restart.chosen \ restart.hooked
                        /\ verbs = restart.nth /\ turns = restart.since =>
                              \A k \in restart.chosen \ (restart.stopErr \cup restart.startErr) :
                                  k \in Stored /\ IsLive(stock[k])
    BY DEF RestartTrue
  <2>2. /\ restart.started = restart.chosen \ restart.hooked /\ restart.hooked \subseteq restart.stopErr
        /\ restart.chosen \subseteq Instances
    BY <2>1, <1>2 DEF RestartOK, Restarts
  <2>3. ASSUME verbs = restart.nth, turns = restart.since,
               NEW k \in restart.chosen \ (restart.stopErr \cup restart.startErr)
        PROVE  k \in Stored /\ IsLive(stock[k])
    <3>1. k \in restart.started \ restart.startErr /\ k \in Instances
      BY <2>2
    <3>2. stock[k] # None /\ IsLive(stock[k])
      BY <3>1, <2>3, <1>2 DEF OutcomeOK
    <3>. QED
      BY <3>1, <3>2 DEF Stored
  <2>. QED
    BY <2>2, <2>3
<1>. QED
  BY <1>1, <1>2, <1>3, <1>4, LayersAreRight, AttachHolds, GraphAgrees, OrderHolds DEF ProjectSafety

\* The project, for any commands, files, scales and permits: the layers of a graph
\* are right, a create that reports nothing has converged and leaves labels that
\* describe the same graph, and a restart stops and starts in the order of the
\* graph and reports what it did.
THEOREM ProjectIsSafe == ComposeSpec => []ProjectSafety
<1>1. ComposeInit => ProjectInv
  BY ProjectInitInv DEF ComposeInit
<1>2. ProjectInv /\ [ComposeNext]_composeVars => ProjectInv'
  BY ComposeKeepsProject
<1>. QED
  BY <1>1, <1>2, ProjectFollows, PTL DEF ComposeSpec

\* The verbs on the project and its logs, in whichever part steps.
THEOREM ProjectIsTrue == ComposeSpec => []ProjectTrue
<1>1. ProjectSafety /\ LogsSafety => ProjectTrue
  BY DEF ProjectTrue
<1>. QED
  BY <1>1, ProjectIsSafe, LogsAreTrue, PTL
=============================================================================
