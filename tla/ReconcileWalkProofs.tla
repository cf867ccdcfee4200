------------------------- MODULE ReconcileWalkProofs -------------------------
(***************************************************************************)
(* Theorems about ReconcileWalk, for any set of commands, any scales and   *)
(* any acyclic graph, any number of workers and permits.                   *)
(***************************************************************************)
EXTENDS ReconcileWalk, FiniteSetTheorems, WellFoundedInduction, TLAPS

-----------------------------------------------------------------------------
(* The inductive invariant, part by part.                                  *)

Busy(w) == wpc[w] \in {"act", "wait"}

\* The commands c waits for: its dependencies, or its dependents in a stop walk.
Awaited(c) == IF dir = "start" THEN Deps(c) ELSE Dependents(c)

\* A start walk's closure holds the dependencies of what it holds, and every
\* command covers a replica.
GraphInv ==
    /\ ValidateDAG(after)
    /\ dir = "start" => \A c \in closure : Deps(c) \subseteq closure
    /\ \A c \in Commands : Covered(c) # {}

\* The sets claim and complete move a command through are disjoint, and what is
\* about to be sent is marked queued.
QueueInv ==
    /\ ChannelFits
    /\ inProgress \cap consumed = {}
    /\ \A w \in Workers : wsend[w] \subseteq queued

\* A worker that acts holds a command nobody else acts on.
HoldsInv ==
    /\ \A w \in Workers : Busy(w) =>
          wcmd[w] \in inProgress /\ wtodo[w] \subseteq Covered(wcmd[w])
    /\ \A w, v \in Workers : Busy(w) /\ Busy(v) /\ w # v => wcmd[w] # wcmd[v]

PermitsInv == IsFiniteSet(stopping) /\ StopsWithinLimit

\* What a start walk has begun runs, or has ended since.
BegunInv ==
    dir = "start" =>
        /\ \A r \in Replicas : snap[r] = "running" => r \in begun
        /\ \A r \in begun : store[r] \in Terminal \cup {"running"}
        /\ \A r \in begun : store[r] \in Terminal => r \in ended

\* A start that goes well has begun every replica it is through with.
StartsInv ==
    dir = "start" => \A w \in Workers : Busy(w) =>
        /\ ~wbad[w] => Covered(wcmd[w]) \ wtodo[w] \subseteq begun
        /\ wpc[w] = "wait" => ~wbad[w] /\ wtodo[w] = {}

\* What a command's action reported is what its replicas have come to, and is
\* an end if somebody waits for one.
ResultsInv ==
    dir = "start" => \A p \in consumed \ failed :
        /\ Covered(p) \subseteq begun
        /\ result[p] \in Terminal => \A r \in Covered(p) : r \in ended /\ store[r] \in Terminal
        /\ result[p] = "exit0" => \A r \in Covered(p) : store[r] = "exit0"
        /\ AnyDependentNeedsCompletion(p) => result[p] \in Terminal

\* What is acted on was ready, and stays so.
ReadyInv ==
    dir = "start" => \A c \in Acted : \A p \in Deps(c) :
        /\ p \in consumed \ failed
        /\ after[c][p] # "running" => result[p] \in Terminal
        /\ after[c][p] = "success" => result[p] = "exit0"

\* A stop that goes well has ended the replicas it is through with.
StopsInv ==
    dir = "stop" =>
        /\ \A w \in Workers : Busy(w) =>
              /\ wpc[w] = "act"
              /\ ~wbad[w] => ActiveInstances(wcmd[w]) \ (wtodo[w] \cup stopping) \subseteq ended
        /\ \A c \in consumed \ failed : ActiveInstances(c) \subseteq ended

\* No wake-up is lost: a command at rest waits for one that is not consumed, or
\* for one that was blocked.
WakeInv ==
    \A c \in closure \ (consumed \cup queued \cup inProgress) :
        \E p \in Awaited(c) \cap closure : p \notin consumed \/ p \in blocked

\* What is blocked has a cause.
CauseInv ==
    /\ blocked \subseteq failed
    /\ dir = "start" => \A c \in blocked : \E p \in Deps(c) :
          p \in failed \/ (p \in consumed /\ after[c][p] = "success"
                           /\ result[p] \in {"exit1", "failed"})
    /\ dir = "stop" => blocked = {}

\* Only the end of the walk sends every worker home.
EndInv ==
    /\ over /\ ~cancelled => consumed = closure
    /\ WalkOver => over

WalkInv ==
    /\ TypeOK /\ GraphInv /\ QueueInv /\ HoldsInv /\ PermitsInv
    /\ BegunInv /\ StartsInv /\ ResultsInv /\ ReadyInv /\ StopsInv /\ DependentsFirst
    /\ WakeInv /\ CauseInv /\ EndInv

-----------------------------------------------------------------------------
(* Facts about the operators.                                              *)

\* A set of numbers has a least one.
LEMMA LeastNumber ==
    ASSUME NEW T, T \subseteq Nat, T # {}
    PROVE  \E x \in T : \A y \in T : x <= y
<1> DEFINE Below == {1 .. n : n \in T}
           R == StrictSubsetOrdering(Nat)
<1>1. Below \subseteq FiniteSubsetsOf(Nat) /\ Below # {}
  <2>1. \A n \in T : IsFiniteSet(1 .. n) /\ 1 .. n \subseteq Nat
    BY FS_Interval
  <2> QED BY <2>1 DEF FiniteSubsetsOf
<1>2. PICK X \in Below : \A Y \in Below : ~ (<<Y, X>> \in R)
  <2>1. IsWellFoundedOn(R, FiniteSubsetsOf(Nat))
    BY FS_StrictSubsetOrderingWellFounded
  <2> HIDE DEF R, Below
  <2> QED BY <1>1, <2>1, WFMin
<1>3. PICK x \in T : X = 1 .. x
  BY <1>2
<1>4. ASSUME NEW y \in T, y < x PROVE FALSE
  <2>1. 1 .. y \in Below /\ 1 .. y \subseteq 1 .. x /\ 1 .. y # 1 .. x
    <3>1. x \in 1 .. x /\ x \notin 1 .. y
      BY <1>4
    <3> QED BY <1>4, <3>1
  <2>2. <<1 .. y, X>> \in R
    BY <1>1, <1>2, <1>3, <2>1 DEF StrictSubsetOrdering
  <2> QED BY <1>2, <2>1, <2>2
<1> QED BY <1>4

\* In a graph that topoLayers accepts, every set of commands has one that no
\* other of them waits for, as it has one that waits for no other.
LEMMA HasLast ==
    ASSUME NEW U, U \subseteq Commands, U # {}, ValidateDAG(after)
    PROVE  \E m \in U : Dependents(m) \cap U = {}
<1> DEFINE Layers == {S \in SUBSET U : S # U /\ \A c \in S : Deps(c) \cap U \subseteq S}
           Left == {Cardinality(U \ S) : S \in Layers}
<1>1. IsFiniteSet(U)
  BY FS_Subset, CommandsAssumption
<1>2. \A S \in SUBSET U : IsFiniteSet(U \ S) /\ Cardinality(U \ S) \in Nat
  BY <1>1, FS_Subset, FS_CardinalityType
<1>3. {} \in Layers
  OBVIOUS
<1>4. PICK n \in Left : \A k \in Left : n <= k
  <2>1. Left \subseteq Nat /\ Left # {}
    BY <1>2, <1>3
  <2> QED BY <2>1, LeastNumber
<1>5. PICK S \in Layers : n = Cardinality(U \ S)
  BY <1>4
<1>6. PICK m \in U \ S : \A p \in U \ S : after[m][p] = "none"
  BY <1>5 DEF ValidateDAG
<1>7. S \cup {m} = U
  <2>1. SUFFICES ASSUME S \cup {m} # U PROVE FALSE
    OBVIOUS
  <2>2. S \cup {m} \in Layers
    BY <1>5, <1>6, <2>1 DEF Deps
  <2>3. Cardinality(U \ (S \cup {m})) = Cardinality(U \ S) - 1
    <3>1. U \ (S \cup {m}) = (U \ S) \ {m}
      OBVIOUS
    <3>2. IsFiniteSet(U \ S) /\ m \in U \ S
      BY <1>2, <1>5, <1>6
    <3>3. Cardinality((U \ S) \ {m}) = Cardinality(U \ S) - 1
      BY <3>2, FS_RemoveElement
    <3> QED BY <3>1, <3>3
  <2>4. Cardinality(U \ (S \cup {m})) \in Left
    BY <2>2
  <2>5. n <= n - 1 /\ n \in Nat
    BY <1>2, <1>4, <1>5, <2>3, <2>4
  <2> QED BY <2>5
<1>8. Dependents(m) \cap U = {}
  BY <1>5, <1>6, <1>7 DEF Dependents, Deps
<1> QED BY <1>6, <1>8

\* A replica is of one command.
LEMMA CoveredOf ==
    ASSUME NEW c, NEW r \in Covered(c)
    PROVE  r[1] = c
BY DEF Covered

LEMMA ReplicaIndex ==
    ASSUME NEW r \in Replicas
    PROVE  r[1] \in Commands /\ r[2] \in Nat
BY ScaleAssumption DEF Replicas

\* The replica an action starts next is one it has still to start.
LEMMA NextOfTodo ==
    ASSUME TypeOK, NEW w \in Workers, wtodo[w] # {}
    PROVE  NextReplica(w) \in wtodo[w]
<1> DEFINE T == {r[2] : r \in wtodo[w]}
<1>1. T \subseteq Nat /\ T # {}
  BY ReplicaIndex DEF TypeOK
<1>2. PICK n \in T : \A y \in T : n <= y
  BY <1>1, LeastNumber
<1>3. PICK r \in wtodo[w] : n = r[2]
  BY <1>2
<1>4. \A q \in wtodo[w] : r[2] <= q[2]
  BY <1>2, <1>3
<1> QED BY <1>3, <1>4 DEF NextReplica

LEMMA AggregateTyped ==
    ASSUME NEW S
    PROVE  AggregateInstances(S) \in ResultStates
BY DEF AggregateInstances, ResultStates, States, Terminal

LEMMA AggregateEnds ==
    ASSUME NEW S, S # {}, S \subseteq Terminal
    PROVE  /\ AggregateInstances(S) \in Terminal
           /\ AggregateInstances(S) = "exit0" => S = {"exit0"}
BY DEF AggregateInstances, Terminal

\* An edge lets a command through for a dependency that was acted on without
\* a failure and has come to what the condition asks.
LEMMA EdgeSatisfied ==
    ASSUME NEW p \in closure, NEW cond \in Conditions, EvalDownEdge(p, cond) = "satisfied"
    PROVE  /\ p \in consumed \ failed
           /\ cond # "running" => result[p] \in Terminal
           /\ cond = "success" => result[p] = "exit0"
BY DEF EvalDownEdge, Conditions, IsTerminalState, Terminal

LEMMA EdgePending ==
    ASSUME NEW p \in closure, NEW cond \in Conditions, EvalDownEdge(p, cond) = "pending"
    PROVE  p \notin consumed \/ (p \notin failed /\ cond # "running" /\ result[p] \notin Terminal)
BY DEF EvalDownEdge, Conditions, IsTerminalState, Terminal

LEMMA EdgeBlocked ==
    ASSUME NEW p \in closure, NEW cond \in Conditions, EvalDownEdge(p, cond) = "blocked"
    PROVE  p \in blocked \cup failed
           \/ (p \in consumed /\ cond = "success" /\ result[p] \in {"exit1", "failed"})
BY DEF EvalDownEdge, Conditions, IsTerminalState, Terminal

LEMMA EdgeValues ==
    ASSUME NEW p, NEW cond
    PROVE  EvalDownEdge(p, cond) \in {"satisfied", "pending", "blocked"}
BY DEF EvalDownEdge

-----------------------------------------------------------------------------
(* The types.                                                              *)

\* A walk changes neither the graph nor what it acts on.
LEMMA GraphStays == [Next]_vars => UNCHANGED graphVars
<1>1. ASSUME NEW w \in Workers, WorkerStep(w) PROVE UNCHANGED graphVars
  <2>1. ASSUME NEW state, NEW bad, Complete(w, state, bad) PROVE UNCHANGED graphVars
    BY <2>1 DEF Complete
  <2> QED BY <1>1, <2>1 DEF WorkerStep, Claim, Send, Finalize, CarryOn, Leave, SkipHeld,
             SkipActive, StartReplica, StartFails, StartDone, AwaitCompletion, Completed,
             WaitCancelled, AcquireStop, AcquireCancelled, StopReturns, StopDone
<1> QED BY <1>1 DEF Next, vars, ReplicaEnds, Cancel, Rest

\* The end of an action keeps the sets and the workers in their domains.
LEMMA CompleteTyped ==
    ASSUME TypeOK, NEW w \in Workers, wcmd[w] \in closure, NEW state \in ResultStates,
           NEW bad \in BOOLEAN, Complete(w, state, bad)
    PROVE  /\ queued' \subseteq closure' /\ inProgress' \subseteq closure' /\ consumed' \subseteq closure'
           /\ blocked' \subseteq consumed' /\ failed' \subseteq consumed'
           /\ result' \in [Commands -> ResultStates] /\ work' \in [Commands -> Nat]
           /\ wpc' \in [Workers -> {"idle", "act", "wait", "send", "check", "exit"}]
           /\ wcmd' \in [Workers -> Commands \cup {Nothing}] /\ wtodo' \in [Workers -> SUBSET Replicas]
           /\ wbad' \in [Workers -> BOOLEAN] /\ wsend' \in [Workers -> SUBSET closure']
           /\ over' \in BOOLEAN /\ cancelled' \in BOOLEAN
<1>1. Frontier(wcmd[w]) \subseteq closure
  BY DEF Frontier
<1> QED BY <1>1 DEF TypeOK, Complete, graphVars

\* TypeOK without what no step changes and without what Complete leaves alone.
WorldTyped ==
    /\ store \in [Replicas -> States] /\ stopping \subseteq Replicas
    /\ begun \subseteq Replicas /\ ended \subseteq Replicas

LEMMA TypeStep ==
    ASSUME TypeOK, HoldsInv, [Next]_vars
    PROVE  TypeOK'
<1>0. UNCHANGED graphVars
  BY GraphStays
<1>1. \A c \in Commands : (Covered(c) \subseteq Replicas)'
  BY <1>0 DEF TypeOK, graphVars, Covered
<1> USE <1>0, <1>1
<1>2. ASSUME NEW w \in Workers, NEW c \in Commands, Claim(w, c) PROVE TypeOK'
  <2>1. ActiveInstances(c) \subseteq Replicas /\ Covered(c) \subseteq Replicas
    BY DEF TypeOK, ActiveInstances
  <2>2. CASE ClaimReady(w, c)
    BY <1>2, <2>1, <2>2 DEF TypeOK, Claim, ClaimReady, Claimable, graphVars, worldVars
  <2>3. CASE ClaimPending(w, c)
    BY <1>2, <2>3 DEF TypeOK, Claim, ClaimPending, graphVars, worldVars
  <2>4. CASE ClaimBlocked(w, c)
    BY <1>2, <2>4 DEF TypeOK, Claim, ClaimBlocked, Claimable, graphVars, worldVars
  <2> QED BY <1>2, <2>2, <2>3, <2>4 DEF Claim
<1>3. ASSUME NEW w \in Workers, NEW c \in Commands, Send(w, c) PROVE TypeOK'
  BY <1>3 DEF TypeOK, Send, graphVars, schedVars, worldVars
<1>4. ASSUME NEW w \in Workers, Finalize(w) PROVE TypeOK'
  BY <1>4 DEF TypeOK, Finalize, graphVars, worldVars
<1>5. ASSUME NEW w \in Workers, CarryOn(w) \/ Leave(w) \/ AwaitCompletion(w) PROVE TypeOK'
  BY <1>5 DEF TypeOK, CarryOn, Leave, AwaitCompletion, graphVars, schedVars, worldVars
<1>6. ASSUME NEW w \in Workers, SkipHeld(w) \/ SkipActive(w) \/ StartReplica(w) PROVE TypeOK'
  <2>1. NextReplica(w) \in Replicas
    BY <1>6, NextOfTodo DEF TypeOK, SkipHeld, SkipActive, StartReplica, ToStart, Acting
  <2>2. CASE SkipHeld(w) \/ SkipActive(w)
    BY <2>1, <2>2 DEF TypeOK, SkipHeld, SkipActive, graphVars, schedVars, worldVars
  <2>3. CASE StartReplica(w)
    BY <2>1, <2>3 DEF TypeOK, StartReplica, graphVars, schedVars, States
  <2> QED BY <1>6, <2>2, <2>3
<1>7. ASSUME NEW w \in Workers, Busy(w), NEW state \in ResultStates, NEW bad \in BOOLEAN,
             Complete(w, state, bad), WorldTyped'
      PROVE  TypeOK'
  <2>1. wcmd[w] \in closure
    BY <1>7 DEF HoldsInv, TypeOK
  <2> QED BY <1>7, <2>1, CompleteTyped DEF TypeOK, WorldTyped, graphVars
<1>8. ASSUME NEW w \in Workers, StartFails(w) PROVE TypeOK'
  <2>1. SnapshotState(wcmd[w]) \in ResultStates /\ Busy(w)
    BY <1>8, AggregateTyped DEF SnapshotState, StartFails, ToStart, Acting, Busy
  <2>2. NextReplica(w) \in Replicas
    BY <1>8, NextOfTodo DEF TypeOK, StartFails, ToStart, Acting
  <2>3. WorldTyped'
    BY <1>8, <2>2 DEF TypeOK, WorldTyped, StartFails, States
  <2> QED BY <1>7, <1>8, <2>1, <2>3 DEF StartFails
<1>9. ASSUME NEW w \in Workers, StartDone(w) \/ Completed(w) \/ WaitCancelled(w) \/ StopDone(w)
      PROVE  TypeOK'
  <2>1. WorldTyped' /\ Busy(w)
    BY <1>9 DEF TypeOK, WorldTyped, worldVars, StartDone, AllStarted, Completed, WaitCancelled,
                StopDone, Busy
  <2>2. \E state \in ResultStates, bad \in BOOLEAN : Complete(w, state, bad)
    <3>1. "running" \in ResultStates /\ "exited" \in ResultStates /\ wbad[w] \in BOOLEAN
      BY DEF ResultStates, States, TypeOK
    <3>2. SnapshotState(wcmd[w]) \in ResultStates
      BY AggregateTyped DEF SnapshotState
    <3>3. AggregateInstances({store[r] : r \in Covered(wcmd[w])}) \in ResultStates
      BY AggregateTyped
    <3>4. CASE StartDone(w)
      BY <3>1, <3>2, <3>4 DEF StartDone
    <3>5. CASE Completed(w)
      BY <3>3, <3>5 DEF Completed
    <3>6. CASE WaitCancelled(w)
      BY <3>1, <3>6 DEF WaitCancelled
    <3>7. CASE StopDone(w)
      BY <3>1, <3>2, <3>7 DEF StopDone
    <3> QED BY <1>9, <3>4, <3>5, <3>6, <3>7
  <2> QED BY <1>7, <2>1, <2>2
<1>10. ASSUME NEW w \in Workers, NEW r \in Replicas,
              AcquireStop(w, r) \/ AcquireCancelled(w, r) \/ StopReturns(w, r)
       PROVE  TypeOK'
  <2>1. CASE AcquireStop(w, r) \/ AcquireCancelled(w, r)
    BY <2>1 DEF TypeOK, AcquireStop, AcquireCancelled, graphVars, schedVars, worldVars
  <2>2. CASE StopReturns(w, r)
    <3>1. wbad' \in [Workers -> BOOLEAN] /\ store' \in [Replicas -> States] /\ ended' \subseteq Replicas
      BY <2>2 DEF TypeOK, StopReturns, States, Terminal
    <3> QED BY <2>2, <3>1 DEF TypeOK, StopReturns, graphVars, schedVars
  <2> QED BY <1>10, <2>1, <2>2
<1>11. ASSUME NEW r \in Replicas, ReplicaEnds(r) PROVE TypeOK'
  BY <1>11, FoundAssumption DEF TypeOK, ReplicaEnds, graphVars, schedVars, workerVars, States, Terminal
<1>12. CASE Cancel \/ UNCHANGED vars
  BY <1>12 DEF TypeOK, Cancel, vars, graphVars, schedVars, workerVars, worldVars
<1> QED BY <1>2, <1>3, <1>4, <1>5, <1>6, <1>8, <1>9, <1>10, <1>11, <1>12
        DEF Next, WorkerStep, Rest

-----------------------------------------------------------------------------
(* The channel, the claims and the wake-ups.                               *)

\* The steps of a worker that claim, queue and complete nothing.
Quiet(w) ==
    /\ UNCHANGED <<schedVars, work, wcmd, wsend>>
    /\ \A v \in Workers : Busy(v)' => Busy(v) /\ wtodo'[v] \subseteq wtodo[v]

\* The end of an action, whatever it was.
Finishes(w) == Busy(w) /\ \E state, bad : Complete(w, state, bad)

LEMMA KindsOfStep ==
    ASSUME TypeOK, NEW w \in Workers, WorkerStep(w)
    PROVE  \/ \E c \in Commands : Claim(w, c) \/ Send(w, c)
           \/ Finalize(w) \/ Quiet(w) \/ Finishes(w)
<1>1. CASE CarryOn(w) \/ Leave(w) \/ AwaitCompletion(w)
  BY <1>1 DEF TypeOK, Quiet, Busy, CarryOn, Leave, AwaitCompletion, AllStarted
<1>2. CASE SkipHeld(w) \/ SkipActive(w) \/ StartReplica(w)
  BY <1>2 DEF TypeOK, Quiet, Busy, SkipHeld, SkipActive, StartReplica
<1>3. ASSUME NEW r \in Replicas, AcquireStop(w, r) \/ AcquireCancelled(w, r) \/ StopReturns(w, r)
      PROVE  Quiet(w)
  BY <1>3 DEF TypeOK, Quiet, Busy, AcquireStop, AcquireCancelled, StopReturns
<1>4. CASE StartFails(w) \/ StartDone(w) \/ Completed(w) \/ WaitCancelled(w) \/ StopDone(w)
  <2>1. Busy(w)
    BY <1>4 DEF Busy, StartFails, ToStart, Acting, StartDone, AllStarted, Completed, WaitCancelled,
                StopDone
  <2>2. \E state, bad : Complete(w, state, bad)
    BY <1>4 DEF StartFails, StartDone, Completed, WaitCancelled, StopDone
  <2> QED BY <2>1, <2>2 DEF Finishes
<1> QED BY <1>1, <1>2, <1>3, <1>4 DEF WorkerStep

LEMMA OtherSteps ==
    ASSUME TypeOK, (\E r \in Replicas : ReplicaEnds(r)) \/ Cancel \/ UNCHANGED vars, NEW w \in Workers
    PROVE  Quiet(w)
BY DEF TypeOK, Quiet, Busy, ReplicaEnds, Cancel, vars, workerVars

\* A step does one of these five things to the scheduling state.
LEMMA Scheduling ==
    ASSUME TypeOK, [Next]_vars
    PROVE  \E w \in Workers :
              \/ \E c \in Commands : Claim(w, c) \/ Send(w, c)
              \/ Finalize(w) \/ Quiet(w) \/ Finishes(w)
BY KindsOfStep, OtherSteps, LimitAssumption DEF Next, Rest

\* What finalize finds: nothing is queued, and nobody acts.
LEMMA DoneMeansIdle ==
    ASSUME TypeOK, HoldsInv, Done
    PROVE  queued = {} /\ inProgress = {} /\ \A w \in Workers : ~Busy(w)
BY DEF TypeOK, HoldsInv, Done

LEMMA QueueStep ==
    ASSUME TypeOK, QueueInv, HoldsInv, [Next]_vars
    PROVE  QueueInv'
<1>0. PICK w \in Workers :
          \/ \E c \in Commands : Claim(w, c) \/ Send(w, c)
          \/ Finalize(w) \/ Quiet(w) \/ Finishes(w)
  BY Scheduling
<1>1. ASSUME NEW c \in Commands, Claim(w, c) PROVE QueueInv'
  <2>1. work[c] = 1 /\ c \in queued /\ \A v \in Workers : c \notin wsend[v]
    BY <1>1 DEF TypeOK, QueueInv, ChannelFits, Claim
  <2>2. /\ work' = [work EXCEPT ![c] = 0] /\ queued' = queued \ {c} /\ wsend' = wsend
        /\ inProgress' \cup consumed' \subseteq inProgress \cup consumed \cup {c}
        /\ inProgress' \cap consumed' = {}
    BY <1>1, <2>1 DEF TypeOK, QueueInv, Claim, ClaimReady, ClaimPending, ClaimBlocked, Claimable
  <2> QED BY <2>1, <2>2 DEF TypeOK, QueueInv, ChannelFits
<1>2. ASSUME NEW c \in Commands, Send(w, c) PROVE QueueInv'
  <2>0. c \in wsend[w] /\ c \in queued /\ work[c] \in Nat /\ work[c] <= 1 /\ work[c] # 1
    BY <1>2 DEF TypeOK, QueueInv, ChannelFits, Send
  <2>1. work[c] = 0
    BY <2>0
  <2> QED BY <1>2, <2>0, <2>1 DEF TypeOK, QueueInv, ChannelFits, Send, schedVars
<1>3. CASE Finalize(w)
  BY <1>3, DoneMeansIdle DEF TypeOK, QueueInv, ChannelFits, Finalize
<1>4. CASE Quiet(w)
  BY <1>4 DEF QueueInv, ChannelFits, Quiet, schedVars
<1>5. CASE Finishes(w)
  <2>1. PICK state, bad : Complete(w, state, bad)
    BY <1>5 DEF Finishes
  <2> DEFINE cmd == wcmd[w]
             F == Frontier(cmd)
  <2>2. /\ cmd \in inProgress
        /\ F \cap (consumed \cup inProgress \cup queued) = {}
    BY <1>5 DEF Finishes, HoldsInv, Frontier
  <2>3. /\ inProgress' = inProgress \ {cmd} /\ consumed' = consumed \cup {cmd}
        /\ queued' = queued \cup F /\ wsend' = [wsend EXCEPT ![w] = F] /\ work' = work
    BY <2>1 DEF Complete
  <2>4. F \subseteq Commands
    BY DEF Frontier, TypeOK
  <2> HIDE DEF F, cmd
  <2> QED BY <2>2, <2>3, <2>4 DEF TypeOK, QueueInv, ChannelFits
<1> QED BY <1>0, <1>1, <1>2, <1>3, <1>4, <1>5

LEMMA HoldsStep ==
    ASSUME TypeOK, QueueInv, HoldsInv, [Next]_vars
    PROVE  HoldsInv'
<1>0. PICK w \in Workers :
          \/ \E c \in Commands : Claim(w, c) \/ Send(w, c)
          \/ Finalize(w) \/ Quiet(w) \/ Finishes(w)
  BY Scheduling
<1>a. \A c : Covered(c)' = Covered(c)
  BY GraphStays DEF Covered, graphVars
<1>1. ASSUME NEW c \in Commands, Claim(w, c) PROVE HoldsInv'
  <2>1. CASE ClaimReady(w, c)
    <3>1. ActiveInstances(c) \subseteq Covered(c)
      BY DEF ActiveInstances
    <3>2. c \notin inProgress /\ inProgress' = inProgress \cup {c} /\ wpc[w] = "idle"
      BY <1>1, <2>1 DEF ClaimReady, Claimable, Claim
    <3>3. /\ wpc' = [wpc EXCEPT ![w] = "act"] /\ wcmd' = [wcmd EXCEPT ![w] = c]
          /\ \E T : T \subseteq Covered(c) /\ wtodo' = [wtodo EXCEPT ![w] = T]
      BY <2>1, <3>1 DEF ClaimReady
    <3> QED BY <1>a, <3>2, <3>3 DEF TypeOK, HoldsInv, Busy
  <2>2. CASE ClaimPending(w, c) \/ ClaimBlocked(w, c)
    BY <1>a, <1>1, <2>2 DEF TypeOK, HoldsInv, Busy, Claim, ClaimPending, ClaimBlocked
  <2> QED BY <1>1, <2>1, <2>2 DEF Claim
<1>2. ASSUME NEW c \in Commands, Send(w, c) PROVE HoldsInv'
  BY <1>a, <1>2 DEF TypeOK, HoldsInv, Busy, Send, schedVars
<1>3. CASE Finalize(w)
  BY <1>a, <1>3, DoneMeansIdle DEF TypeOK, HoldsInv, Busy, Finalize
<1>4. CASE Quiet(w)
  BY <1>a, <1>4 DEF TypeOK, HoldsInv, Quiet, schedVars
<1>5. CASE Finishes(w)
  <2>1. PICK state, bad : Complete(w, state, bad)
    BY <1>5 DEF Finishes
  <2>2. \E x \in {"check", "send"} : wpc' = [wpc EXCEPT ![w] = x]
    BY <2>1 DEF Complete
  <2>3. /\ inProgress' = inProgress \ {wcmd[w]} /\ wcmd' = [wcmd EXCEPT ![w] = Nothing]
        /\ wtodo' = [wtodo EXCEPT ![w] = {}]
    BY <2>1 DEF Complete
  <2> QED BY <1>a, <1>5, <2>2, <2>3 DEF TypeOK, HoldsInv, Busy, Finishes
<1> QED BY <1>0, <1>1, <1>2, <1>3, <1>4, <1>5

\* A command that is claimed too early waits for one that is not consumed.
LEMMA PendingAwaits ==
    ASSUME TypeOK, GraphInv, ResultsInv, NEW c \in closure, Readiness(c) = "pending"
    PROVE  \E p \in Awaited(c) \cap closure : p \notin consumed
<1>1. CASE dir = "stop"
  BY <1>1 DEF Readiness, Awaited
<1>2. CASE dir = "start"
  <2>1. PICK p \in Deps(c) : EvalDownEdge(p, after[c][p]) = "pending"
    BY <1>2 DEF Readiness
  <2>2. p \in closure /\ p \in Commands /\ c \in Commands /\ after[c][p] \in Conditions
    BY <1>2, <2>1 DEF GraphInv, TypeOK, Deps
  <2>3. CASE p \notin consumed
    BY <1>2, <2>2, <2>3 DEF Awaited
  <2>4. CASE p \in consumed
    <3>1. p \notin failed /\ after[c][p] # "running" /\ result[p] \notin Terminal
      BY <2>1, <2>2, <2>4, EdgePending
    <3>2. AnyDependentNeedsCompletion(p)
      BY <2>2, <3>1 DEF AnyDependentNeedsCompletion, Dependents, Conditions
    <3> QED BY <1>2, <2>4, <3>1, <3>2 DEF ResultsInv
  <2> QED BY <2>3, <2>4
<1> QED BY <1>1, <1>2 DEF TypeOK

LEMMA WakeStep ==
    ASSUME TypeOK, GraphInv, QueueInv, HoldsInv, ResultsInv, WakeInv, [Next]_vars
    PROVE  WakeInv'
<1>0. PICK w \in Workers :
          \/ \E c \in Commands : Claim(w, c) \/ Send(w, c)
          \/ Finalize(w) \/ Quiet(w) \/ Finishes(w)
  BY Scheduling
<1>a. closure' = closure /\ \A c : Awaited(c)' = Awaited(c)
  BY GraphStays DEF Awaited, Deps, Dependents, graphVars
<1>1. ASSUME NEW c \in Commands, Claim(w, c) PROVE WakeInv'
  <2>1. CASE ClaimReady(w, c)
    BY <1>a, <2>1 DEF WakeInv, ClaimReady
  <2>2. CASE ClaimPending(w, c)
    <3>1. c \in closure /\ \E p \in Awaited(c) \cap closure : p \notin consumed
      BY <2>2, PendingAwaits DEF ClaimPending, Claimable
    <3> QED BY <1>a, <2>2, <3>1 DEF WakeInv, ClaimPending
  <2>3. CASE ClaimBlocked(w, c)
    BY <1>a, <2>3 DEF WakeInv, ClaimBlocked
  <2> QED BY <1>1, <2>1, <2>2, <2>3 DEF Claim
<1>2. ASSUME NEW c \in Commands, Send(w, c) PROVE WakeInv'
  BY <1>a, <1>2 DEF WakeInv, Send, schedVars
<1>3. CASE Finalize(w)
  BY <1>a, <1>3 DEF WakeInv, Finalize
<1>4. CASE Quiet(w)
  BY <1>a, <1>4 DEF WakeInv, Quiet, schedVars
<1>5. CASE Finishes(w)
  <2>1. PICK state, bad : Complete(w, state, bad)
    BY <1>5 DEF Finishes
  <2> DEFINE cmd == wcmd[w]
  <2>2. cmd \in inProgress /\ cmd \in closure
    BY <1>5 DEF Finishes, HoldsInv, TypeOK
  <2>3. /\ consumed' = consumed \cup {cmd} /\ inProgress' = inProgress \ {cmd}
        /\ queued' = queued \cup Frontier(cmd) /\ blocked' = blocked
    BY <2>1 DEF Complete
  <2>4. SUFFICES ASSUME NEW c \in closure, c \notin consumed' \cup queued' \cup inProgress'
                 PROVE  \E p \in Awaited(c) \cap closure : p \notin consumed' \/ p \in blocked'
    BY <1>a DEF WakeInv
  <2>5. c \notin consumed \cup queued \cup inProgress /\ c \in Commands /\ cmd \in Commands
    BY <2>2, <2>3, <2>4 DEF TypeOK
  <2>6. cmd \notin Awaited(c)
    <3>1. c \notin Frontier(cmd)
      BY <2>3, <2>4
    <3> HIDE DEF cmd
    <3> QED BY <2>5, <3>1 DEF Frontier, Awaited, Deps, Dependents
  <2> QED BY <2>3, <2>5, <2>6 DEF WakeInv
<1> QED BY <1>0, <1>1, <1>2, <1>3, <1>4, <1>5

\* At the end of a stop walk every command has been acted on.
LEMMA StopConsumesAll ==
    ASSUME TypeOK, GraphInv, HoldsInv, WakeInv, CauseInv, dir = "stop", Done
    PROVE  consumed = closure
<1> DEFINE U == closure \ consumed
<1>1. SUFFICES ASSUME U # {} PROVE FALSE
  BY DEF TypeOK
<1>2. PICK m \in U : Dependents(m) \cap U = {}
  BY <1>1, HasLast DEF GraphInv, TypeOK
<1>3. m \in closure \ (consumed \cup queued \cup inProgress)
  BY <1>2, DoneMeansIdle
<1>4. PICK p \in Dependents(m) \cap closure : p \notin consumed \/ p \in blocked
  BY <1>3 DEF WakeInv, Awaited
<1> QED BY <1>2, <1>4 DEF CauseInv

LEMMA CauseStep ==
    ASSUME TypeOK, GraphInv, QueueInv, HoldsInv, WakeInv, CauseInv, [Next]_vars
    PROVE  CauseInv'
<1>0. PICK w \in Workers :
          \/ \E c \in Commands : Claim(w, c) \/ Send(w, c)
          \/ Finalize(w) \/ Quiet(w) \/ Finishes(w)
  BY Scheduling
<1>a. after' = after /\ dir' = dir /\ \A c : Deps(c)' = Deps(c)
  BY GraphStays DEF Deps, graphVars
<1>1. ASSUME NEW c \in Commands, Claim(w, c) PROVE CauseInv'
  <2>1. CASE ClaimReady(w, c) \/ ClaimPending(w, c)
    BY <1>a, <2>1 DEF CauseInv, ClaimReady, ClaimPending
  <2>2. CASE ClaimBlocked(w, c)
    <3>1. dir = "start"
      BY <2>2 DEF ClaimBlocked, Readiness, TypeOK
    <3>2. PICK p \in Deps(c) : EvalDownEdge(p, after[c][p]) = "blocked"
      BY <2>2, <3>1 DEF ClaimBlocked, Readiness
    <3>3. p \in closure /\ after[c][p] \in Conditions
      BY <1>1, <2>2, <3>1, <3>2 DEF GraphInv, TypeOK, Deps, ClaimBlocked, Claimable
    <3>4. p \in failed \/ (p \in consumed /\ after[c][p] = "success" /\ result[p] \in {"exit1", "failed"})
      BY <3>2, <3>3, EdgeBlocked DEF CauseInv
    <3> QED BY <1>a, <2>2, <3>1, <3>2, <3>4 DEF CauseInv, ClaimBlocked
  <2> QED BY <1>1, <2>1, <2>2 DEF Claim
<1>2. ASSUME NEW c \in Commands, Send(w, c) PROVE CauseInv'
  BY <1>a, <1>2 DEF CauseInv, Send, schedVars
<1>3. CASE Finalize(w)
  <2>1. CASE dir = "stop"
    BY <1>a, <1>3, <2>1, StopConsumesAll DEF CauseInv, Finalize
  <2>2. CASE dir = "start"
    <3>1. ASSUME NEW c \in closure \ consumed PROVE \E p \in Deps(c) : p \in failed'
      <4>1. c \in closure \ (consumed \cup queued \cup inProgress)
        BY <1>3, <3>1, DoneMeansIdle DEF Finalize
      <4>2. PICK p \in Deps(c) \cap closure : p \notin consumed \/ p \in blocked
        BY <2>2, <4>1 DEF WakeInv, Awaited
      <4> QED BY <1>3, <4>2 DEF Finalize, CauseInv
    <3> QED BY <1>a, <1>3, <2>2, <3>1 DEF CauseInv, Finalize
  <2> QED BY <2>1, <2>2 DEF TypeOK
<1>4. CASE Quiet(w)
  BY <1>a, <1>4 DEF CauseInv, Quiet, schedVars
<1>5. CASE Finishes(w)
  <2>1. PICK state, bad : Complete(w, state, bad)
    BY <1>5 DEF Finishes
  <2>2. wcmd[w] \notin consumed
    BY <1>5 DEF Finishes, HoldsInv, QueueInv
  <2>3. /\ consumed \subseteq consumed' /\ failed \subseteq failed' /\ blocked' = blocked
        /\ \A p \in consumed : result'[p] = result[p]
    BY <2>1, <2>2 DEF Complete, TypeOK
  <2> QED BY <1>a, <2>3 DEF CauseInv
<1> QED BY <1>0, <1>1, <1>2, <1>3, <1>4, <1>5

LEMMA GraphStep ==
    ASSUME GraphInv, [Next]_vars
    PROVE  GraphInv'
BY GraphStays DEF GraphInv, ValidateDAG, Deps, Covered, graphVars

\* A step takes one permit at most, and only when one is free.
LEMMA PermitsStep ==
    ASSUME TypeOK, PermitsInv, [Next]_vars
    PROVE  PermitsInv'
<1>1. ASSUME NEW w \in Workers, NEW r \in Replicas, AcquireStop(w, r) PROVE PermitsInv'
  <2>1. stopping' = stopping \cup {r} /\ (StopLimit = 0 \/ Cardinality(stopping) < StopLimit)
    BY <1>1 DEF AcquireStop
  <2>2. IsFiniteSet(stopping') /\ Cardinality(stopping) \in Nat
        /\ Cardinality(stopping') <= Cardinality(stopping) + 1
    <3>1. IsFiniteSet(stopping) /\ Cardinality(stopping) \in Nat
      BY FS_CardinalityType DEF PermitsInv
    <3>2. /\ IsFiniteSet(stopping \cup {r})
          /\ Cardinality(stopping \cup {r})
             = IF r \in stopping THEN Cardinality(stopping) ELSE Cardinality(stopping) + 1
      BY <3>1, FS_AddElement
    <3> QED BY <2>1, <3>1, <3>2
  <2>3. Cardinality(stopping') \in Nat
    BY <2>2, FS_CardinalityType
  <2> QED BY <2>1, <2>2, <2>3, LimitAssumption DEF PermitsInv, StopsWithinLimit
<1>2. ASSUME NEW w \in Workers, NEW r \in Replicas, StopReturns(w, r) PROVE PermitsInv'
  <2>1. stopping' = stopping \ {r} /\ r \in stopping
    BY <1>2 DEF StopReturns, Stopping
  <2>2. /\ IsFiniteSet(stopping') /\ Cardinality(stopping') = Cardinality(stopping) - 1
        /\ Cardinality(stopping) \in Nat
    BY <2>1, FS_RemoveElement, FS_CardinalityType DEF PermitsInv
  <2> QED BY <2>2, LimitAssumption DEF PermitsInv, StopsWithinLimit
<1>3. CASE stopping' = stopping
  BY <1>3 DEF PermitsInv, StopsWithinLimit
<1>4. ASSUME NEW w \in Workers, WorkerStep(w), \A r \in Replicas : ~AcquireStop(w, r) /\ ~StopReturns(w, r)
      PROVE  stopping' = stopping
  BY <1>4 DEF WorkerStep, worldVars, Claim, Send, Finalize, CarryOn, Leave, SkipHeld,
              SkipActive, StartReplica, StartFails, StartDone, AwaitCompletion, Completed,
              WaitCancelled, AcquireCancelled, StopDone
<1>5. ASSUME (\E r \in Replicas : ReplicaEnds(r)) \/ Cancel \/ Rest \/ UNCHANGED vars
      PROVE  stopping' = stopping
  BY <1>5 DEF ReplicaEnds, Cancel, Rest, vars, worldVars
<1> QED BY <1>1, <1>2, <1>3, <1>4, <1>5 DEF Next

-----------------------------------------------------------------------------
(* The replicas of a start walk.                                           *)

\* In a start walk a replica is started by the worker that has it to start, or
\* ends by itself; nothing else happens to it.
LEMMA ReplicasMove ==
    ASSUME TypeOK, dir = "start", [Next]_vars
    PROVE  \/ UNCHANGED <<store, begun, ended>>
           \/ \E w \in Workers : StartReplica(w) \/ StartFails(w)
           \/ \E r \in Replicas : ReplicaEnds(r)
<1>1. ASSUME NEW w \in Workers, WorkerStep(w), ~StartReplica(w), ~StartFails(w)
      PROVE  UNCHANGED <<store, begun, ended>>
  BY <1>1 DEF WorkerStep, worldVars, Claim, Send, Finalize, CarryOn, Leave, SkipHeld,
              SkipActive, StartDone, AwaitCompletion, Completed,
              WaitCancelled, AcquireCancelled, AcquireStop, StopReturns, StopDone
<1>2. CASE Cancel \/ Rest \/ UNCHANGED vars
  BY <1>2 DEF Cancel, Rest, vars, worldVars
<1> QED BY <1>1, <1>2 DEF Next

LEMMA ReplicaMoves ==
    ASSUME TypeOK, dir = "start", [Next]_vars
    PROVE  /\ begun \subseteq begun' /\ ended \subseteq ended'
           /\ \A r \in Replicas :
                \/ store'[r] = store[r] /\ (r \in begun' => r \in begun)
                \/ store[r] = "running" /\ store'[r] \in Terminal /\ r \in ended'
                \/ store'[r] = "running" /\ \E w \in Workers : Busy(w) /\ r \in wtodo[w]
<1>1. CASE UNCHANGED <<store, begun, ended>>
  BY <1>1
<1>2. ASSUME NEW w \in Workers, StartReplica(w) \/ StartFails(w)
      PROVE  /\ Busy(w) /\ NextReplica(w) \in wtodo[w] /\ NextReplica(w) \in Replicas
             /\ ended' = ended
             /\ \/ store' = [store EXCEPT ![NextReplica(w)] = "running"]
                   /\ begun' \in {begun, begun \cup {NextReplica(w)}}
                \/ store' = store /\ begun' = begun
  <2>1. Acting(w)
    BY <1>2 DEF StartReplica, StartFails, ToStart
  <2>2. Busy(w) /\ NextReplica(w) \in wtodo[w] /\ NextReplica(w) \in Replicas
    BY <2>1, NextOfTodo DEF Acting, Busy, TypeOK
  <2> QED BY <1>2, <2>2 DEF StartReplica, StartFails
<1>3. ASSUME NEW r \in Replicas, ReplicaEnds(r)
      PROVE  /\ store[r] = "running" /\ begun' = begun /\ ended' = ended \cup {r}
             /\ \E end \in Terminal : store' = [store EXCEPT ![r] = end]
  BY <1>3, FoundAssumption DEF ReplicaEnds, Terminal
<1>4. ASSUME NEW w \in Workers, StartReplica(w) \/ StartFails(w), NEW r \in Replicas
      PROVE  \/ store'[r] = store[r] /\ (r \in begun' => r \in begun)
             \/ store'[r] = "running" /\ Busy(w) /\ r \in wtodo[w]
  <2>1. CASE r = NextReplica(w)
    BY <1>2, <1>4, <2>1 DEF TypeOK
  <2>2. CASE r # NextReplica(w)
    BY <1>2, <1>4, <2>2 DEF TypeOK
  <2> QED BY <2>1, <2>2
<1>5. CASE \E w \in Workers : StartReplica(w) \/ StartFails(w)
  BY <1>2, <1>4, <1>5
<1>6. CASE \E r \in Replicas : ReplicaEnds(r)
  BY <1>3, <1>6 DEF TypeOK
<1> QED BY <1>1, <1>5, <1>6, ReplicasMove

LEMMA BegunStep ==
    ASSUME TypeOK, BegunInv, [Next]_vars
    PROVE  BegunInv'
<1>1. SUFFICES ASSUME dir = "start" PROVE BegunInv'
  BY GraphStays DEF BegunInv, graphVars
<1>2. snap' = snap /\ begun \subseteq begun' /\ ended \subseteq ended'
  BY <1>1, GraphStays, ReplicaMoves DEF graphVars
<1>3. ASSUME NEW r \in Replicas, r \in begun'
      PROVE  store'[r] \in Terminal \cup {"running"} /\ (store'[r] \in Terminal => r \in ended')
  <2>1. "running" \notin Terminal
    BY DEF Terminal
  <2> QED BY <1>1, <1>2, <1>3, <2>1, ReplicaMoves DEF BegunInv
<1>4. begun' \subseteq Replicas
  <2>1. ASSUME NEW w \in Workers, StartReplica(w) \/ StartFails(w) PROVE begun' \subseteq Replicas
    <3>1. NextReplica(w) \in Replicas
      BY <2>1, NextOfTodo DEF TypeOK, StartReplica, StartFails, ToStart, Acting
    <3> QED BY <2>1, <3>1 DEF TypeOK, StartReplica, StartFails
  <2> QED BY <1>1, <2>1, ReplicasMove DEF TypeOK, ReplicaEnds
<1> QED BY <1>1, <1>2, <1>3, <1>4 DEF BegunInv

\* A replica of a command nobody acts on stays as it ended.
LEMMA EndStays ==
    ASSUME TypeOK, HoldsInv, dir = "start", [Next]_vars,
           NEW p \in Commands, p \notin inProgress, NEW r \in Covered(p), store[r] \in Terminal
    PROVE  store'[r] = store[r]
<1>1. \A w \in Workers : Busy(w) => r \notin wtodo[w]
  BY CoveredOf DEF HoldsInv
<1>2. store[r] # "running" /\ r \in Replicas
  BY DEF Terminal, TypeOK
<1> QED BY <1>1, <1>2, ReplicaMoves

-----------------------------------------------------------------------------
(* What an action has done when it ends.                                   *)

\* A step of one worker leaves the others alone.
LEMMA OthersStay ==
    ASSUME TypeOK, NEW w \in Workers, WorkerStep(w), NEW v \in Workers, v # w
    PROVE  wpc'[v] = wpc[v] /\ wcmd'[v] = wcmd[v] /\ wtodo'[v] = wtodo[v] /\ wbad'[v] = wbad[v]
<1>1. ASSUME NEW state, NEW bad, Complete(w, state, bad)
      PROVE  wpc'[v] = wpc[v] /\ wcmd'[v] = wcmd[v] /\ wtodo'[v] = wtodo[v] /\ wbad'[v] = wbad[v]
  BY <1>1 DEF TypeOK, Complete
<1>2. CASE StartFails(w) \/ StartDone(w) \/ Completed(w) \/ WaitCancelled(w) \/ StopDone(w)
  BY <1>1, <1>2 DEF StartFails, StartDone, Completed, WaitCancelled, StopDone
<1>3. ASSUME NEW c \in Commands, Claim(w, c) \/ Send(w, c)
      PROVE  wpc'[v] = wpc[v] /\ wcmd'[v] = wcmd[v] /\ wtodo'[v] = wtodo[v] /\ wbad'[v] = wbad[v]
  BY <1>3 DEF TypeOK, Claim, ClaimReady, ClaimPending, ClaimBlocked, Send
<1>4. ASSUME NEW r \in Replicas, AcquireStop(w, r) \/ AcquireCancelled(w, r) \/ StopReturns(w, r)
      PROVE  wpc'[v] = wpc[v] /\ wcmd'[v] = wcmd[v] /\ wtodo'[v] = wtodo[v] /\ wbad'[v] = wbad[v]
  BY <1>4 DEF TypeOK, AcquireStop, AcquireCancelled, StopReturns
<1>5. CASE Finalize(w) \/ CarryOn(w) \/ Leave(w) \/ AwaitCompletion(w)
  BY <1>5 DEF TypeOK, Finalize, CarryOn, Leave, AwaitCompletion
<1>6. CASE SkipHeld(w) \/ SkipActive(w) \/ StartReplica(w)
  BY <1>6 DEF TypeOK, SkipHeld, SkipActive, StartReplica
<1> QED BY <1>2, <1>3, <1>4, <1>5, <1>6 DEF WorkerStep

\* A worker is busy after a step of its own when it has claimed a command, or
\* goes on with the one it had.
LEMMA BusyAfter ==
    ASSUME TypeOK, NEW w \in Workers, WorkerStep(w), Busy(w)'
    PROVE  \/ \E c \in Commands : Claim(w, c) /\ ClaimReady(w, c)
           \/ SkipHeld(w) \/ SkipActive(w) \/ StartReplica(w) \/ AwaitCompletion(w)
           \/ \E r \in Replicas : AcquireStop(w, r) \/ AcquireCancelled(w, r) \/ StopReturns(w, r)
<1>1. ASSUME NEW state, NEW bad, Complete(w, state, bad) PROVE ~Busy(w)'
  BY <1>1 DEF TypeOK, Complete, Busy
<1>2. CASE StartFails(w) \/ StartDone(w) \/ Completed(w) \/ WaitCancelled(w) \/ StopDone(w)
  BY <1>1, <1>2 DEF StartFails, StartDone, Completed, WaitCancelled, StopDone
<1>3. ASSUME NEW c \in Commands, Claim(w, c), ~ClaimReady(w, c) PROVE ~Busy(w)'
  BY <1>3 DEF TypeOK, Busy, Claim, ClaimPending, ClaimBlocked
<1>4. ASSUME NEW c \in Commands, Send(w, c) PROVE ~Busy(w)'
  BY <1>4 DEF TypeOK, Busy, Send
<1>5. CASE Finalize(w) \/ CarryOn(w) \/ Leave(w)
  BY <1>5 DEF TypeOK, Busy, Finalize, CarryOn, Leave
<1> QED BY <1>2, <1>3, <1>4, <1>5 DEF WorkerStep

LEMMA StartsStep ==
    ASSUME TypeOK, BegunInv, StartsInv, [Next]_vars
    PROVE  StartsInv'
<1>1. SUFFICES ASSUME dir = "start" PROVE StartsInv'
  BY GraphStays DEF StartsInv, graphVars
<1>a. begun \subseteq begun' /\ \A c : Covered(c)' = Covered(c)
  BY <1>1, GraphStays, ReplicaMoves DEF graphVars, Covered
<1>2. ASSUME UNCHANGED workerVars PROVE StartsInv'
  BY <1>a, <1>1, <1>2 DEF StartsInv, workerVars, Busy
<1>3. ASSUME NEW w \in Workers, WorkerStep(w) PROVE StartsInv'
  <2> DEFINE Good(v) == /\ ~wbad[v] => Covered(wcmd[v]) \ wtodo[v] \subseteq begun
                        /\ wpc[v] = "wait" => ~wbad[v] /\ wtodo[v] = {}
  <2>1. ASSUME NEW v \in Workers, v # w, Busy(v)' PROVE Good(v)'
    <3>1. Busy(v) /\ wpc'[v] = wpc[v] /\ wcmd'[v] = wcmd[v] /\ wtodo'[v] = wtodo[v] /\ wbad'[v] = wbad[v]
      BY <1>3, <2>1, OthersStay DEF Busy
    <3> QED BY <1>1, <1>a, <3>1 DEF StartsInv
  <2>2. ASSUME Busy(w)' PROVE Good(w)'
    <3>1. ASSUME NEW c \in Commands, ClaimReady(w, c) PROVE Good(w)'
      BY <1>1, <1>a, <3>1 DEF TypeOK, ClaimReady
    <3>2. CASE SkipHeld(w)
      BY <3>2 DEF TypeOK, SkipHeld, Acting
    <3>3. CASE SkipActive(w)
      <4>1. NextReplica(w) \in begun /\ Busy(w) /\ wpc[w] = "act"
        BY <1>1, <3>3, NextOfTodo DEF TypeOK, SkipActive, Acting, BegunInv, Busy
      <4> QED BY <1>1, <1>a, <3>3, <4>1 DEF TypeOK, SkipActive, StartsInv
    <3>4. CASE StartReplica(w)
      <4>1. Busy(w) /\ wpc[w] = "act"
        BY <3>4 DEF StartReplica, ToStart, Acting, Busy
      <4> QED BY <1>1, <1>a, <3>4, <4>1 DEF TypeOK, StartReplica, StartsInv
    <3>5. CASE AwaitCompletion(w)
      <4>1. Busy(w) /\ ~wbad[w] /\ wtodo[w] = {}
        BY <3>5 DEF AwaitCompletion, AllStarted, Busy
      <4> QED BY <1>1, <1>a, <3>5, <4>1 DEF TypeOK, AwaitCompletion, StartsInv
    <3>6. ASSUME NEW r \in Replicas,
                 AcquireStop(w, r) \/ AcquireCancelled(w, r) \/ StopReturns(w, r)
          PROVE  FALSE
      BY <1>1, <3>6 DEF AcquireStop, AcquireCancelled, StopReturns
    <3> QED BY <1>3, <2>2, <3>1, <3>2, <3>3, <3>4, <3>5, <3>6, BusyAfter
  <2> QED BY <2>1, <2>2 DEF StartsInv
<1> QED BY <1>2, <1>3 DEF Next, ReplicaEnds, Cancel, Rest, vars

\* The scheduling state moves on: what is consumed stays so with its result and
\* its verdict, and what is acted on anew is ready.
LEMMA SchedulingMoves ==
    ASSUME TypeOK, QueueInv, HoldsInv, [Next]_vars
    PROVE  /\ consumed \subseteq consumed' /\ consumed \ failed \subseteq consumed' \ failed'
           /\ \A p \in consumed : result'[p] = result[p]
           /\ \A c \in Acted' : c \in Acted \/ (c \in closure /\ Readiness(c) = "satisfied")
<1>0. PICK w \in Workers :
          \/ \E c \in Commands : Claim(w, c) \/ Send(w, c)
          \/ Finalize(w) \/ Quiet(w) \/ Finishes(w)
  BY Scheduling
<1>1. ASSUME NEW c \in Commands, Claim(w, c), ClaimReady(w, c)
      PROVE  /\ UNCHANGED <<consumed, failed, blocked, result>> /\ inProgress' = inProgress \cup {c}
             /\ c \in closure /\ Readiness(c) = "satisfied"
  BY <1>1 DEF ClaimReady, Claimable
<1>2. ASSUME NEW c \in Commands, Claim(w, c), ClaimPending(w, c)
      PROVE  UNCHANGED <<consumed, failed, blocked, result, inProgress>>
  BY <1>2 DEF ClaimPending
<1>3. ASSUME NEW c \in Commands, Claim(w, c), ClaimBlocked(w, c)
      PROVE  /\ UNCHANGED <<result, inProgress>> /\ c \notin consumed /\ consumed' = consumed \cup {c}
             /\ blocked' = blocked \cup {c} /\ failed' = failed \cup {c}
  BY <1>3 DEF ClaimBlocked, Claimable
<1>4. ASSUME (\E c \in Commands : Send(w, c)) \/ Quiet(w)
      PROVE  UNCHANGED <<consumed, failed, blocked, result, inProgress>>
  BY <1>4 DEF Send, Quiet, schedVars
<1>5. ASSUME Finalize(w)
      PROVE  /\ UNCHANGED <<result, inProgress>> /\ consumed' = consumed \cup closure
             /\ blocked' = blocked \cup (closure \ consumed) /\ failed' = failed \cup (closure \ consumed)
  BY <1>5 DEF Finalize
<1>6. ASSUME Finishes(w)
      PROVE  /\ wcmd[w] \notin consumed /\ wcmd[w] \in inProgress
             /\ inProgress' = inProgress \ {wcmd[w]} /\ consumed' = consumed \cup {wcmd[w]}
             /\ blocked' = blocked /\ failed' \in {failed, failed \cup {wcmd[w]}}
             /\ \A p \in consumed : result'[p] = result[p]
  <2>1. PICK state, bad : Complete(w, state, bad)
    BY <1>6 DEF Finishes
  <2>2. wcmd[w] \notin consumed /\ wcmd[w] \in inProgress
    BY <1>6 DEF Finishes, HoldsInv, QueueInv
  <2> QED BY <2>1, <2>2 DEF Complete, TypeOK
<1>7. CASE Finishes(w)
  BY <1>6, <1>7 DEF Acted, TypeOK
<1>8. CASE Finalize(w)
  BY <1>5, <1>8 DEF Acted, TypeOK
<1> QED BY <1>0, <1>1, <1>2, <1>3, <1>4, <1>7, <1>8 DEF Acted, Claim

\* A command is consumed without a failure only by an action that went well.
LEMMA GoodEnds ==
    ASSUME TypeOK, QueueInv, HoldsInv, [Next]_vars, NEW p, p \in consumed' \ failed', p \notin consumed \ failed
    PROVE  \E w \in Workers :
              /\ Busy(w) /\ p = wcmd[w] /\ UNCHANGED <<worldVars, graphVars>>
              /\ \/ Completed(w)
                 \/ AllStarted(w) /\ ~wbad[w] /\ ~AnyDependentNeedsCompletion(p) /\ result'[p] = "running"
                 \/ StopDone(w) /\ ~wbad[w]
<1>1. ASSUME NEW v \in Workers, NEW state, NEW bad, Busy(v), Complete(v, state, bad), bad \in BOOLEAN
      PROVE  p = wcmd[v] /\ ~bad /\ result'[p] = state /\ UNCHANGED graphVars
  <2>1. wcmd[v] \in Commands
    BY <1>1 DEF HoldsInv, TypeOK
  <2> QED BY <1>1, <2>1 DEF Complete, TypeOK
<1>2. UNCHANGED <<consumed, failed>> => FALSE
  OBVIOUS
<1>3. ASSUME NEW v \in Workers, WorkerStep(v)
      PROVE  StartFails(v) \/ StartDone(v) \/ Completed(v) \/ WaitCancelled(v) \/ StopDone(v)
  <2>1. ASSUME NEW c \in Commands, Claim(v, c) \/ Send(v, c) PROVE FALSE
    BY <1>2, <2>1 DEF Claim, ClaimReady, ClaimPending, ClaimBlocked, Send, schedVars
  <2>2. CASE Finalize(v)
    BY <2>2 DEF Finalize, TypeOK
  <2>3. CASE CarryOn(v) \/ Leave(v) \/ AwaitCompletion(v) \/ SkipHeld(v) \/ SkipActive(v) \/ StartReplica(v)
    BY <1>2, <2>3 DEF CarryOn, Leave, AwaitCompletion, SkipHeld, SkipActive, StartReplica, schedVars
  <2>4. ASSUME NEW r \in Replicas, AcquireStop(v, r) \/ AcquireCancelled(v, r) \/ StopReturns(v, r)
        PROVE  FALSE
    BY <1>2, <2>4 DEF AcquireStop, AcquireCancelled, StopReturns, schedVars
  <2> QED BY <1>3, <2>1, <2>2, <2>3, <2>4 DEF WorkerStep
<1>4. PICK v \in Workers : WorkerStep(v)
  BY <1>2 DEF Next, ReplicaEnds, Cancel, Rest, vars, schedVars
<1>5. Busy(v)
  BY <1>3, <1>4 DEF Busy, StartFails, ToStart, Acting, StartDone, AllStarted, Completed, WaitCancelled, StopDone
<1>6. CASE StartFails(v) \/ WaitCancelled(v)
  BY <1>1, <1>5, <1>6 DEF StartFails, WaitCancelled
<1>7. CASE Completed(v)
  BY <1>1, <1>5, <1>7 DEF Completed
<1>8. CASE StartDone(v)
  BY <1>1, <1>5, <1>8 DEF StartDone
<1>9. CASE StopDone(v)
  <2>1. wbad[v] \in BOOLEAN
    BY DEF TypeOK
  <2> QED BY <1>1, <1>5, <1>9, <2>1 DEF StopDone
<1> QED BY <1>3, <1>4, <1>6, <1>7, <1>8, <1>9

LEMMA ResultsStep ==
    ASSUME TypeOK, GraphInv, QueueInv, HoldsInv, BegunInv, StartsInv, ResultsInv, [Next]_vars
    PROVE  ResultsInv'
<1>1. SUFFICES ASSUME dir = "start", NEW p \in consumed' \ failed'
               PROVE  /\ Covered(p) \subseteq begun'
                      /\ result'[p] \in Terminal => \A r \in Covered(p) : r \in ended' /\ store'[r] \in Terminal
                      /\ result'[p] = "exit0" => \A r \in Covered(p) : store'[r] = "exit0"
                      /\ AnyDependentNeedsCompletion(p) => result'[p] \in Terminal
  BY GraphStays DEF ResultsInv, Covered, AnyDependentNeedsCompletion, Dependents, graphVars
<1>2. CASE p \in consumed \ failed
  <2>1. result'[p] = result[p] /\ begun \subseteq begun' /\ ended \subseteq ended'
    BY <1>1, <1>2, SchedulingMoves, ReplicaMoves
  <2>2. p \in Commands /\ p \notin inProgress
    BY <1>2 DEF TypeOK, QueueInv
  <2>3. \A r \in Covered(p) : store[r] \in Terminal => store'[r] = store[r]
    BY <1>1, <2>2, EndStays
  <2>4. "exit0" \in Terminal
    BY DEF Terminal
  <2> QED BY <1>1, <1>2, <2>1, <2>3, <2>4 DEF ResultsInv
<1>3. CASE p \notin consumed \ failed
  <2>1. PICK w \in Workers :
              /\ Busy(w) /\ p = wcmd[w] /\ UNCHANGED <<worldVars, graphVars>>
              /\ \/ Completed(w)
                 \/ AllStarted(w) /\ ~wbad[w] /\ ~AnyDependentNeedsCompletion(p) /\ result'[p] = "running"
                 \/ StopDone(w) /\ ~wbad[w]
    BY <1>1, <1>3, GoodEnds
  <2>2. p \in Commands
    BY <2>1 DEF HoldsInv, TypeOK
  <2>3. UNCHANGED <<store, begun, ended>>
    BY <2>1 DEF worldVars
  <2>4. CASE Completed(w)
    <3> DEFINE S == {store[r] : r \in Covered(p)}
    <3>1. S # {} /\ S \subseteq Terminal /\ Covered(p) \subseteq begun
      BY <1>1, <2>1, <2>2, <2>4 DEF Completed, GraphInv, StartsInv
    <3>2. result'[p] = AggregateInstances(S)
      BY <2>1, <2>2, <2>4 DEF Completed, Complete, TypeOK
    <3>3. AggregateInstances(S) \in Terminal /\ (AggregateInstances(S) = "exit0" => S = {"exit0"})
      BY <3>1, AggregateEnds
    <3>4. \A r \in Covered(p) : r \in ended /\ store[r] \in Terminal
      BY <1>1, <3>1 DEF BegunInv
    <3> QED BY <2>3, <3>1, <3>2, <3>3, <3>4
  <2>5. CASE AllStarted(w) /\ ~wbad[w] /\ ~AnyDependentNeedsCompletion(p) /\ result'[p] = "running"
    <3>1. Covered(p) \subseteq begun
      BY <1>1, <2>1, <2>5 DEF AllStarted, StartsInv
    <3> QED BY <2>3, <2>5, <3>1 DEF Terminal
  <2>6. CASE StopDone(w)
    BY <1>1, <2>6 DEF StopDone
  <2> QED BY <2>1, <2>4, <2>5, <2>6
<1> QED BY <1>2, <1>3

\* A ready command's dependencies have done what it asks.
LEMMA ReadyMeans ==
    ASSUME TypeOK, GraphInv, dir = "start", NEW c \in closure, Readiness(c) = "satisfied", NEW p \in Deps(c)
    PROVE  /\ p \in consumed \ failed
           /\ after[c][p] # "running" => result[p] \in Terminal
           /\ after[c][p] = "success" => result[p] = "exit0"
<1>1. p \in closure /\ after[c][p] \in Conditions
  BY DEF GraphInv, TypeOK, Deps
<1>2. EvalDownEdge(p, after[c][p]) = "satisfied"
  BY EdgeValues DEF Readiness
<1> QED BY <1>1, <1>2, EdgeSatisfied

LEMMA ReadyStep ==
    ASSUME TypeOK, GraphInv, QueueInv, HoldsInv, ReadyInv, [Next]_vars
    PROVE  ReadyInv'
<1>1. SUFFICES ASSUME dir = "start", NEW c \in Acted', NEW p \in Deps(c)
               PROVE  /\ p \in consumed' \ failed'
                      /\ after[c][p] # "running" => result'[p] \in Terminal
                      /\ after[c][p] = "success" => result'[p] = "exit0"
  BY GraphStays DEF ReadyInv, Deps, graphVars
<1>2. /\ p \in consumed \ failed
      /\ after[c][p] # "running" => result[p] \in Terminal
      /\ after[c][p] = "success" => result[p] = "exit0"
  BY <1>1, SchedulingMoves, ReadyMeans DEF ReadyInv
<1> QED BY <1>2, SchedulingMoves

LEMMA DependentsStep ==
    ASSUME TypeOK, QueueInv, HoldsInv, DependentsFirst, [Next]_vars
    PROVE  DependentsFirst'
<1>1. SUFFICES ASSUME dir = "stop", NEW c \in Acted' PROVE Dependents(c) \cap closure \subseteq consumed'
  BY GraphStays DEF DependentsFirst, Dependents, graphVars
<1>2. Dependents(c) \cap closure \subseteq consumed
  BY <1>1, SchedulingMoves DEF DependentsFirst, Readiness
<1> QED BY <1>2, SchedulingMoves

LEMMA StopsStep ==
    ASSUME TypeOK, QueueInv, HoldsInv, StopsInv, [Next]_vars
    PROVE  StopsInv'
<1>1. SUFFICES ASSUME dir = "stop" PROVE StopsInv'
  BY GraphStays DEF StopsInv, graphVars
<1>a. \A c : ActiveInstances(c)' = ActiveInstances(c)
  BY GraphStays DEF graphVars, ActiveInstances, Covered
<1>b. \A c : \A r \in ActiveInstances(c) : r[1] = c
  BY CoveredOf DEF ActiveInstances
<1>c. ended \subseteq ended'
  <2>1. ASSUME NEW w \in Workers, WorkerStep(w) PROVE ended \subseteq ended'
    BY <2>1 DEF WorkerStep, worldVars, Claim, Send, Finalize, CarryOn, Leave, SkipHeld, StartReplica,
              StartFails, SkipActive, StartDone, AwaitCompletion, Completed,
              WaitCancelled, AcquireCancelled, AcquireStop, StopReturns, StopDone
  <2> QED BY <2>1 DEF Next, ReplicaEnds, Cancel, Rest, vars, worldVars
<1>2. ASSUME NEW c \in consumed' \ failed' PROVE ActiveInstances(c) \subseteq ended'
  <2>1. CASE c \in consumed \ failed
    BY <1>1, <1>c, <2>1 DEF StopsInv
  <2>2. CASE c \notin consumed \ failed
    <3>1. PICK w \in Workers :
              /\ Busy(w) /\ c = wcmd[w] /\ UNCHANGED <<worldVars, graphVars>>
              /\ \/ Completed(w)
                 \/ AllStarted(w) /\ ~wbad[w] /\ ~AnyDependentNeedsCompletion(c) /\ result'[c] = "running"
                 \/ StopDone(w) /\ ~wbad[w]
      BY <1>2, <2>2, GoodEnds
    <3>2. wpc[w] = "act" /\ ~AllStarted(w)
      BY <1>1, <3>1 DEF StopsInv, AllStarted
    <3>3. StopDone(w) /\ ~wbad[w]
      BY <3>1, <3>2 DEF Completed
    <3>4. wtodo[w] = {} /\ Stopping(w) = {}
      BY <3>3 DEF StopDone
    <3>5. ActiveInstances(c) \ (wtodo[w] \cup stopping) \subseteq ended
      BY <1>1, <3>1, <3>3 DEF StopsInv
    <3>6. ActiveInstances(c) \cap stopping = {}
      BY <1>b, <3>1, <3>4 DEF Stopping
    <3> QED BY <1>c, <3>4, <3>5, <3>6
  <2> QED BY <2>1, <2>2
<1> DEFINE Good(v) == /\ wpc[v] = "act"
                      /\ ~wbad[v] => ActiveInstances(wcmd[v]) \ (wtodo[v] \cup stopping) \subseteq ended
<1>3. ASSUME UNCHANGED <<workerVars, stopping>>, NEW v \in Workers, Busy(v)' PROVE Good(v)'
  BY <1>1, <1>a, <1>c, <1>3 DEF StopsInv, workerVars, Busy
<1>4. ASSUME NEW w \in Workers, WorkerStep(w), NEW v \in Workers, v # w, Busy(v)' PROVE Good(v)'
  <2>1. Busy(v) /\ wpc'[v] = wpc[v] /\ wcmd'[v] = wcmd[v] /\ wtodo'[v] = wtodo[v] /\ wbad'[v] = wbad[v]
    BY <1>4, OthersStay DEF Busy
  <2>2. Good(v)
    BY <1>1, <2>1 DEF StopsInv
  <2>3. ActiveInstances(wcmd[v]) \cap stopping \subseteq stopping'
    <3>1. ASSUME NEW r \in Replicas, StopReturns(w, r) PROVE r \notin ActiveInstances(wcmd[v])
      <4>1. Busy(w) /\ r[1] = wcmd[w]
        BY <3>1 DEF StopReturns, Stopping, Busy
      <4> QED BY <1>b, <1>4, <2>1, <4>1 DEF HoldsInv
    <3>2. ASSUME \A r \in Replicas : ~StopReturns(w, r) PROVE stopping \subseteq stopping'
      BY <1>4, <3>2 DEF WorkerStep, worldVars, Claim, Send, Finalize, CarryOn, Leave, SkipHeld, StartReplica,
              StartFails, SkipActive, StartDone, AwaitCompletion, Completed,
              WaitCancelled, AcquireCancelled, AcquireStop, StopDone
    <3> QED BY <3>1, <3>2 DEF StopReturns
  <2> QED BY <1>a, <1>c, <2>1, <2>2, <2>3
<1>5. ASSUME NEW w \in Workers, WorkerStep(w), Busy(w)' PROVE Good(w)'
  <2>1. ASSUME NEW c \in Commands, Claim(w, c), ClaimReady(w, c) PROVE Good(w)'
    <3>1. wpc'[w] = "act" /\ wcmd'[w] = c /\ wtodo'[w] = ActiveInstances(c)
      BY <1>1, <2>1 DEF TypeOK, ClaimReady
    <3> QED BY <1>a, <3>1
  <2>2. CASE SkipHeld(w) \/ SkipActive(w) \/ StartReplica(w) \/ AwaitCompletion(w)
    BY <1>1, <2>2 DEF SkipHeld, SkipActive, StartReplica, ToStart, Acting, AwaitCompletion, AllStarted
  <2>3. ASSUME NEW r \in Replicas, AcquireStop(w, r) PROVE Good(w)'
    <3>1. Good(w)
      BY <1>1, <2>3 DEF StopsInv, Busy, AcquireStop
    <3>2. /\ wpc' = wpc /\ wcmd' = wcmd /\ wbad' = wbad /\ wtodo'[w] = wtodo[w] \ {r}
          /\ stopping' = stopping \cup {r}
      BY <2>3 DEF AcquireStop, TypeOK
    <3> QED BY <1>a, <1>c, <3>1, <3>2
  <2>4. ASSUME NEW r \in Replicas, AcquireCancelled(w, r) PROVE Good(w)'
    BY <2>4 DEF AcquireCancelled, TypeOK
  <2>5. ASSUME NEW r \in Replicas, StopReturns(w, r) PROVE Good(w)'
    <3>1. Good(w)
      BY <1>1, <2>5 DEF StopsInv, Busy, StopReturns
    <3>2. wpc' = wpc /\ wcmd' = wcmd /\ wtodo' = wtodo /\ stopping' = stopping \ {r}
      BY <2>5 DEF StopReturns
    <3>3. CASE wbad' = [wbad EXCEPT ![w] = TRUE]
      BY <3>1, <3>2, <3>3 DEF TypeOK
    <3>4. CASE wbad' = wbad /\ ended' = ended \cup {r}
      BY <1>a, <3>1, <3>2, <3>4
    <3> QED BY <2>5, <3>3, <3>4 DEF StopReturns
  <2> QED BY <1>5, <2>1, <2>2, <2>3, <2>4, <2>5, BusyAfter
<1>6. \A v \in Workers : Busy(v)' => Good(v)'
  BY <1>3, <1>4, <1>5 DEF Next, ReplicaEnds, Cancel, Rest, vars, worldVars
<1> QED BY <1>a, <1>2, <1>6 DEF StopsInv

LEMMA EndStep ==
    ASSUME TypeOK, EndInv, TypeOK', [Next]_vars, QueueInv, HoldsInv
    PROVE  EndInv'
<1>1. consumed \subseteq consumed' /\ closure' = closure /\ consumed' \subseteq closure
  BY SchedulingMoves, GraphStays DEF graphVars, TypeOK
<1>2. ASSUME NEW w \in Workers, WorkerStep(w)
      PROVE  \/ over' /\ consumed' = closure /\ cancelled' = cancelled
             \/ over' = over /\ cancelled' = cancelled /\ (wpc'[w] # "exit" \/ over)
  <2>1. ASSUME NEW c \in Commands, Claim(w, c) PROVE over' = over /\ cancelled' = cancelled /\ wpc'[w] # "exit"
    BY <2>1 DEF Claim, ClaimReady, ClaimPending, ClaimBlocked, TypeOK
  <2>2. ASSUME NEW c \in Commands, Send(w, c) PROVE over' = over /\ cancelled' = cancelled /\ wpc'[w] # "exit"
    BY <2>2 DEF Send, TypeOK
  <2>3. CASE Finalize(w)
    BY <1>1, <2>3 DEF Finalize
  <2>4. CASE CarryOn(w) \/ Leave(w) \/ AwaitCompletion(w)
    BY <2>4 DEF CarryOn, Leave, AwaitCompletion, TypeOK
  <2>5. CASE SkipHeld(w) \/ SkipActive(w) \/ StartReplica(w)
    BY <2>5 DEF SkipHeld, SkipActive, StartReplica, ToStart, Acting, TypeOK
  <2>6. ASSUME NEW r \in Replicas, AcquireStop(w, r) \/ AcquireCancelled(w, r) \/ StopReturns(w, r)
        PROVE  over' = over /\ cancelled' = cancelled /\ wpc'[w] # "exit"
    BY <2>6 DEF AcquireStop, AcquireCancelled, StopReturns
  <2>7. ASSUME NEW state, NEW bad, Complete(w, state, bad)
        PROVE  over' = over /\ cancelled' = cancelled /\ wpc'[w] # "exit"
    BY <2>7 DEF Complete, TypeOK
  <2>8. CASE StartFails(w) \/ StartDone(w) \/ Completed(w) \/ WaitCancelled(w) \/ StopDone(w)
    BY <2>7, <2>8 DEF StartFails, StartDone, Completed, WaitCancelled, StopDone
  <2> QED BY <1>2, <2>1, <2>2, <2>3, <2>4, <2>5, <2>6, <2>8 DEF WorkerStep
<1>3. ASSUME NEW w \in Workers, WorkerStep(w) PROVE EndInv'
  <2>1. CASE over' /\ consumed' = closure /\ cancelled' = cancelled
    BY <1>1, <2>1 DEF EndInv
  <2>2. CASE over' = over /\ cancelled' = cancelled /\ over
    BY <1>1, <2>2 DEF EndInv
  <2>3. CASE over' = over /\ cancelled' = cancelled /\ wpc'[w] # "exit"
    BY <1>1, <2>3 DEF EndInv, WalkOver
  <2> QED BY <1>2, <1>3, <2>1, <2>2, <2>3
<1>4. CASE Cancel
  BY <1>4 DEF EndInv, Cancel
<1>5. CASE (\E r \in Replicas : ReplicaEnds(r)) \/ Rest \/ UNCHANGED vars
  <2>1. UNCHANGED <<consumed, over, cancelled, wpc>>
    BY <1>5 DEF ReplicaEnds, Rest, vars, workerVars, schedVars
  <2> QED BY <1>1, <2>1 DEF EndInv, WalkOver
<1> QED BY <1>3, <1>4, <1>5 DEF Next

-----------------------------------------------------------------------------
(* The start.                                                              *)

\* What is reached from some commands holds the neighbours of what it holds.
LEMMA ReachedClosed ==
    ASSUME NEW names, NEW neighbours, NEW c \in Reached(names, neighbours),
           neighbours[c] \subseteq Commands
    PROVE  neighbours[c] \subseteq Reached(names, neighbours)
<1>1. SUFFICES ASSUME NEW n \in neighbours[c], NEW S \in SUBSET Commands, names \subseteq S,
                      \A x \in S : neighbours[x] \subseteq S
               PROVE  n \in S
  BY DEF Reached
<1>2. c \in S
  BY <1>1 DEF Reached
<1> QED BY <1>1, <1>2

LEMMA ReachedHolds ==
    ASSUME NEW names \in SUBSET Commands, NEW neighbours
    PROVE  names \subseteq Reached(names, neighbours) /\ Reached(names, neighbours) \subseteq Commands
BY DEF Reached

LEMMA InitGraph ==
    ASSUME Init
    PROVE  /\ closure \subseteq Commands /\ closure # {}
           /\ dir = "start" => \A c \in closure : Deps(c) \subseteq closure
<1>1. PICK names \in SUBSET Commands :
          closure = IF dir = "start" THEN ResolveTargetCommands(names) ELSE ResolveStopTargetCommands(names)
  BY DEF Init
<1>2. CASE names = {}
  BY <1>1, <1>2, CommandsAssumption DEF ResolveTargetCommands, ResolveStopTargetCommands, Deps
<1>3. CASE names # {}
  <2> DEFINE deps == [c \in Commands |-> Deps(c)]
             dependents == [c \in Commands |-> Dependents(c)]
  <2>1. closure = IF dir = "start" THEN Reached(names, deps) ELSE Reached(names, dependents)
    BY <1>1, <1>3 DEF ResolveTargetCommands, ResolveStopTargetCommands
  <2>2. closure \subseteq Commands /\ closure # {}
    <3> HIDE DEF deps, dependents
    <3> QED BY <1>3, <2>1, ReachedHolds
  <2>3. ASSUME dir = "start", NEW c \in closure PROVE Deps(c) \subseteq closure
    <3>1. deps[c] = Deps(c) /\ deps[c] \subseteq Commands /\ c \in Reached(names, deps)
      BY <2>1, <2>2, <2>3 DEF Deps
    <3> HIDE DEF deps
    <3> QED BY <2>1, <2>3, <3>1, ReachedClosed
  <2> QED BY <2>2, <2>3
<1> QED BY <1>2, <1>3

LEMMA InitType ==
    ASSUME Init
    PROVE  TypeOK /\ \A c \in Commands : Covered(c) # {}
<1>1. closure \subseteq Commands
  BY InitGraph
<1>2. /\ covered \in [Commands -> SUBSET Nat]
      /\ \A c \in Commands : Covered(c) \subseteq Replicas /\ Covered(c) # {}
  <2>1. /\ \A c \in Commands : covered[c] \subseteq 1 .. Scale[c] /\ covered[c] # {}
        /\ covered \in [Commands -> SUBSET UNION {1 .. Scale[c] : c \in Commands}]
    BY DEF Init
  <2>2. UNION {1 .. Scale[c] : c \in Commands} \subseteq Nat
    BY ScaleAssumption
  <2>3. covered \in [Commands -> SUBSET Nat]
    <3> DEFINE Indices == UNION {1 .. Scale[c] : c \in Commands}
    <3>1. covered \in [Commands -> SUBSET Indices] /\ Indices \subseteq Nat
      BY <2>1, <2>2
    <3> HIDE DEF Indices
    <3> QED BY <3>1
  <2>4. ASSUME NEW c \in Commands PROVE Covered(c) \subseteq Replicas /\ Covered(c) # {}
    <3>1. {<<c, i>> : i \in 1 .. Scale[c]} \subseteq Replicas
      BY DEF Replicas
    <3>2. Covered(c) \subseteq {<<c, i>> : i \in 1 .. Scale[c]}
      BY <2>1 DEF Covered
    <3>3. Covered(c) # {}
      BY <2>1 DEF Covered
    <3> QED BY <3>1, <3>2, <3>3
  <2> QED BY <2>3, <2>4
<1>3. /\ after \in [Commands -> [Commands -> Conditions \cup {"none"}]] /\ dir \in {"start", "stop"}
  BY GraphsAssumption, DirectionAssumption DEF Init, Conditions
<1>4. held \subseteq Replicas
  BY DEF Init
<1>5. snap \in [Replicas -> States] /\ store \in [Replicas -> States]
  BY FoundAssumption DEF Init, States, Terminal
<1>6. result \in [Commands -> ResultStates]
  BY AggregateTyped DEF Init, SnapshotState
<1>7. queued \subseteq closure /\ work \in [Commands -> Nat]
  BY DEF Init, Seed
<1>8. /\ inProgress = {} /\ consumed = {} /\ blocked = {} /\ failed = {}
      /\ wpc \in [Workers -> {"idle", "act", "wait", "send", "check", "exit"}]
      /\ wcmd \in [Workers -> Commands \cup {Nothing}] /\ wtodo \in [Workers -> SUBSET Replicas]
      /\ wbad \in [Workers -> BOOLEAN] /\ wsend \in [Workers -> SUBSET closure]
      /\ stopping = {} /\ over \in BOOLEAN /\ cancelled \in BOOLEAN
      /\ begun \subseteq Replicas /\ ended = {}
  BY DEF Init
<1> QED BY <1>1, <1>2, <1>3, <1>4, <1>5, <1>6, <1>7, <1>8 DEF TypeOK

LEMMA InitWorkers ==
    ASSUME Init
    PROVE  /\ \A w \in Workers : ~Busy(w)
           /\ ~WalkOver
<1>1. PICK some \in SUBSET Workers :
          /\ some = Workers \/ Cardinality(some) = Cardinality(closure)
          /\ wpc = [w \in Workers |-> IF w \in some THEN "idle" ELSE "exit"]
  BY DEF Init
<1>2. some # {}
  <2>1. Cardinality(closure) # 0
    <3>1. IsFiniteSet(closure) /\ closure # {}
      BY InitGraph, FS_Subset, CommandsAssumption
    <3> QED BY <3>1, FS_EmptySet
  <2> QED BY <1>1, <2>1, LimitAssumption, FS_EmptySet
<1> QED BY <1>1, <1>2 DEF Busy, WalkOver

LEMMA InitInv == Init => WalkInv
<1> SUFFICES ASSUME Init PROVE WalkInv
  OBVIOUS
<1>1. TypeOK /\ GraphInv
  BY InitType, InitGraph DEF GraphInv, Init
<1>2. /\ inProgress = {} /\ consumed = {} /\ blocked = {} /\ failed = {} /\ over = FALSE
      /\ stopping = {} /\ queued = Seed(dir, closure) /\ wsend = [w \in Workers |-> {}]
      /\ work = [c \in Commands |-> IF c \in Seed(dir, closure) THEN 1 ELSE 0]
  BY DEF Init
<1>3. QueueInv
  BY <1>2 DEF QueueInv, ChannelFits
<1>4. HoldsInv /\ StartsInv /\ StopsInv
  BY <1>2, InitWorkers DEF HoldsInv, StartsInv, StopsInv
<1>5. PermitsInv
  <2>1. IsFiniteSet(stopping) /\ Cardinality(stopping) = 0
    BY <1>2, FS_EmptySet
  <2> QED BY <2>1, LimitAssumption DEF PermitsInv, StopsWithinLimit
<1>6. BegunInv
  <2>1. begun = {r \in Replicas : snap[r] = "running"} /\ store = snap
    BY DEF Init
  <2> QED BY <2>1 DEF BegunInv, Terminal
<1>7. ResultsInv /\ ReadyInv /\ DependentsFirst /\ CauseInv
  BY <1>2 DEF ResultsInv, ReadyInv, DependentsFirst, CauseInv, Acted
<1>8. WakeInv
  <2>1. SUFFICES ASSUME NEW c \in closure, c \notin queued PROVE \E p \in Awaited(c) \cap closure : p \notin consumed
    BY DEF WakeInv
  <2>2. Awaited(c) \cap closure # {}
    BY <1>2, <2>1 DEF Seed, Awaited
  <2> QED BY <1>2, <2>2
<1>9. EndInv
  BY <1>2, InitWorkers DEF EndInv
<1> QED BY <1>1, <1>3, <1>4, <1>5, <1>6, <1>7, <1>8, <1>9 DEF WalkInv

-----------------------------------------------------------------------------
(* The theorems.                                                           *)

\* The inductive invariant of the walk: its queue, its claims, the permits, what
\* the actions have done and why commands wait or are blocked (reconcileGraph's
\* claim, complete and finalize with upStartAction and stopAction).
THEOREM WalkInvariant == Spec => []WalkInv
<1>1. WalkInv /\ [Next]_vars => WalkInv'
  <2> SUFFICES ASSUME WalkInv, [Next]_vars PROVE WalkInv'
    OBVIOUS
  <2> USE DEF WalkInv
  <2>1. TypeOK' /\ GraphInv' /\ QueueInv' /\ HoldsInv' /\ PermitsInv'
    BY TypeStep, GraphStep, QueueStep, HoldsStep, PermitsStep
  <2>2. BegunInv' /\ StartsInv' /\ ResultsInv' /\ ReadyInv'
    BY BegunStep, StartsStep, ResultsStep, ReadyStep
  <2>3. StopsInv' /\ DependentsFirst' /\ WakeInv' /\ CauseInv'
    BY StopsStep, DependentsStep, WakeStep, CauseStep
  <2>4. EndInv'
    BY <2>1, EndStep
  <2> QED BY <2>1, <2>2, <2>3, <2>4
<1> QED BY <1>1, InitInv, PTL DEF Spec

\* No command is queued twice, the stops stay within the permits, and no command
\* is acted on before what it waits for has done what its condition asks, in
\* this walk: for any acyclic graph, any targets, any scales, any interleaving
\* of the workers, failing starts, ends of replicas and the cancellation.
THEOREM WalkSafe == Spec => []WalkSafety
<1>1. WalkInv => WalkSafety
  <2> SUFFICES ASSUME WalkInv PROVE ConditionsMet
    BY DEF WalkInv, WalkSafety, QueueInv, PermitsInv
  <2>1. SUFFICES ASSUME dir = "start", NEW c \in Acted, NEW p \in Deps(c), NEW r \in Covered(p)
                 PROVE  CASE after[c][p] = "running" -> r \in begun
                          [] after[c][p] = "completed" -> r \in ended /\ store[r] \in Terminal
                          [] OTHER -> r \in ended /\ store[r] = "exit0"
    BY DEF ConditionsMet
  <2>2. after[c][p] \in Conditions
    BY <2>1 DEF WalkInv, TypeOK, Acted, Deps
  <2>3. /\ p \in consumed \ failed
        /\ after[c][p] # "running" => result[p] \in Terminal
        /\ after[c][p] = "success" => result[p] = "exit0"
    BY <2>1 DEF WalkInv, ReadyInv
  <2>4. /\ r \in begun
        /\ result[p] \in Terminal => r \in ended /\ store[r] \in Terminal
        /\ result[p] = "exit0" => store[r] = "exit0"
    BY <2>1, <2>3 DEF WalkInv, ResultsInv
  <2> QED BY <2>2, <2>3, <2>4 DEF Conditions
<1> QED BY <1>1, WalkInvariant, PTL

\* When a walk that was not cancelled is over, every command of the closure is
\* accounted for, one that is blocked has a dependency that failed or did not
\* exit with code 0, and one that counts as a success was started, or stopped,
\* replica for replica (finalize, startOutcomes and stopOutcomes).
THEOREM VerdictsHold == Spec => []VerdictsTrue
<1>1. WalkInv => VerdictsTrue
  <2> SUFFICES ASSUME WalkInv, WalkOver, ~cancelled PROVE VerdictsTrue
    BY DEF VerdictsTrue, BlockedForCause, OutcomesTrue
  <2>1. consumed = closure
    BY DEF WalkInv, EndInv
  <2>2. dir \in {"start", "stop"}
    BY DEF WalkInv, TypeOK
  <2>3. BlockedForCause
    BY <2>1, <2>2 DEF BlockedForCause, WalkInv, CauseInv
  <2>4. OutcomesTrue
    BY <2>1, <2>2 DEF OutcomesTrue, WalkInv, ResultsInv, StopsInv, ActiveInstances
  <2> QED BY <2>3, <2>4 DEF VerdictsTrue
<1> QED BY <1>1, WalkInvariant, PTL
=============================================================================
