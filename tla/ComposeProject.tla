--------------------------- MODULE ComposeProject ---------------------------
(***************************************************************************)
(* A compose project as a whole: the plan that reconciles a compose file   *)
(* with the stored replicas (plan.go, graph.go), the targets of a verb     *)
(* (target.go), the graph rebuilt from stored labels                       *)
(* (reconstruct_project.go), and restart, which stops the selected         *)
(* replicas layer by layer from the dependents down and starts them again  *)
(* in the opposite order, the replicas of a layer side by side             *)
(* (service_restart.go).                                                   *)
(*                                                                         *)
(* A stored replica is its command, its scale index, its config hash and   *)
(* its state.  The hash stands for everything Hash reads, the dependencies *)
(* among it; the after label of a replica is thus part of its hash.  What  *)
(* happens inside one replica's create, stop and start, the hooks among    *)
(* it, is ComposeReplica's; here each works or fails as a whole.           *)
(***************************************************************************)
EXTENDS Integers, Sequences, FiniteSets

CONSTANTS
    Services,     \* the compose command names
    Yamls,        \* the compose files the user may have
    MaxScale,     \* the largest scale index
    Permits,      \* the parallel limit of stops
    MaxVerbs,     \* how many verbs run
    MaxTurns      \* how often a replica changes state or is removed from outside

\* What normalisation leaves of a file: a scale is at least 1, and a file has
\* its path and, for each command, its own configuration and what it comes after.
Files == [names : SUBSET Services, file : STRING, deps : [Services -> SUBSET Services],
          scale : [Services -> Nat \ {0}], ver : [Services -> Nat]]

ASSUME ServicesAssumption == IsFiniteSet(Services)
ASSUME MaxScaleAssumption == MaxScale \in Nat \ {0}
ASSUME YamlsAssumption == Yamls \subseteq Files

VARIABLES
    yaml,         \* the compose file at hand
    stock,        \* the stored replicas, by command and scale index
    restart,      \* the restart under way, or the last one, with what it has done
    verbs, turns, \* bounds
    settled       \* what the last create converged to, if nothing came after

projectVars == <<yaml, stock, restart, verbs, turns, settled>>

Indices == 1 .. MaxScale
Instances == Services \X Indices
None == [hash |-> "none"]
NoYaml == [names |-> {}]
Unsettled == [spec |-> NoYaml, of |-> {}]

\* What Hash reads of a command: its own configuration and its dependencies,
\* neither the scale nor the file.
Hash(y, c) == [ver |-> y.ver[c], after |-> y.deps[c]]

Stored == {k \in Instances : stock[k] # None}
IsLive(e) == e.state = "running"

-----------------------------------------------------------------------------
(* The dependency graph: the commands, and what each comes after.          *)

\* Kahn's algorithm: Peeled[n] is what the first n layers hold.
TopoLayers(names, deps) ==
    LET Peeled[n \in 0 .. Cardinality(names)] ==
            IF n = 0 THEN {}
            ELSE Peeled[n - 1] \cup {c \in names : deps[c] \subseteq Peeled[n - 1]}
        height == CHOOSE n \in 0 .. Cardinality(names) :
            /\ Peeled[n] = Peeled[Cardinality(names)]
            /\ \A m \in 0 .. n - 1 : Peeled[m] # Peeled[n]
    IN  IF Peeled[height] # names THEN <<{}>>
        ELSE [n \in 1 .. height |-> Peeled[n] \ Peeled[n - 1]]

\* A cycle, or a dependency that is no command, leaves a layer empty.
ValidateDAG(names, deps) ==
    (\A c \in names : deps[c] \subseteq names) /\ TopoLayers(names, deps) # <<{}>>

\* The commands a create takes with its targets: all they come after.
Closure(y, names) ==
    IF names = {} THEN y.names
    ELSE LET Reach[n \in 0 .. Cardinality(y.names)] ==
                 IF n = 0 THEN names
                 ELSE Reach[n - 1] \cup UNION {y.deps[c] : c \in Reach[n - 1]}
         IN  Reach[Cardinality(y.names)]

-----------------------------------------------------------------------------
(* Targets: pairs of a command and a scale index, 0 for all of its         *)
(* replicas.                                                               *)

DeclaredReplicas(y) == [c \in y.names |-> y.scale[c]]

Highest(c) ==
    LET ks == {i \in Indices : <<c, i>> \in Stored} IN
    IF ks = {} THEN 0 ELSE CHOOSE i \in ks : \A j \in ks : j <= i

\* The highest stored index of the commands that are known: the file's when
\* there is one, the stored ones otherwise.
StoredReplicas(y) ==
    [c \in IF y = NoYaml THEN {k[1] : k \in Stored} ELSE y.names |-> Highest(c)]

TargetsValid(ts, replicas) ==
    \A t \in ts : t[1] \in DOMAIN replicas /\ t[2] \in 0 .. replicas[t[1]]

\* The targets of one command merge, and a 0 among them selects every replica.
Covers(ts, k) ==
    LET own == {t[2] : t \in {u \in ts : u[1] = k[1]}} IN own = {} \/ 0 \in own \/ k[2] \in own
ReplicaScoped(ts) == \E t \in ts : t[2] # 0 /\ <<t[1], 0>> \notin ts
Filter(ts, ks) ==
    IF ts = {} THEN ks ELSE {k \in ks : (\E t \in ts : t[1] = k[1]) /\ Covers(ts, k)}

-----------------------------------------------------------------------------
(* The plan.                                                               *)

\* A project of the directory that another file made is not taken over.
Collides(y) == \E k \in Stored : stock[k].file # y.file
Plannable(y) == ValidateDAG(y.names, y.deps) /\ ~Collides(y)

\* The desired replicas, layer by layer, and what becomes of each.
ActionOf(y, k) ==
    IF k \notin Stored THEN "create"
    ELSE IF stock[k].hash = Hash(y, k[1]) THEN "unchanged" ELSE "recreate"
PlanActions(y) ==
    [k \in {i \in Instances : i[1] \in y.names /\ i[2] <= y.scale[i[1]]} |-> ActionOf(y, k)]
PlanOrphans(y) == {k \in Stored : k[1] \notin y.names}
PlanExcess(y) == {k \in Stored : k[1] \in y.names} \ DOMAIN PlanActions(y)

Fresh(y, c) == [hash |-> Hash(y, c), state |-> "created", file |-> y.file]

\* create (and up, which then starts what it covers): the orphans, if asked and
\* of a whole project only, the surplus replicas of the closure, unless a target
\* is about replicas of its own, then the actions.  Each may fail (bad), and what
\* failed is left as it was, or is gone if a recreate removed it (lost).
Creates(y, ts, prune, up, bad, lost) ==
    LET closure == Closure(y, {t[1] : t \in ts})
        orphans == IF ts = {} /\ prune THEN {k \in PlanOrphans(y) : ~IsLive(stock[k])} ELSE {}
        excess  == IF ReplicaScoped(ts) THEN {} ELSE {k \in PlanExcess(y) : k[1] \in closure}
        acts    == {k \in DOMAIN PlanActions(y) : k[1] \in closure /\ Covers(ts, k)}
        gone    == ((orphans \cup excess) \ bad) \cup lost
        made    == {k \in acts \ bad : PlanActions(y)[k] # "unchanged"}
    IN  /\ bad \subseteq orphans \cup excess \cup acts
        /\ lost \subseteq {k \in bad \cap acts : PlanActions(y)[k] = "recreate"}
        /\ stock' = [k \in Instances |->
                IF k \in gone THEN None
                ELSE IF k \in made THEN [Fresh(y, k[1]) EXCEPT !.state = IF up THEN "running" ELSE "created"]
                ELSE IF k \in acts \ bad /\ up THEN [stock[k] EXCEPT !.state = "running"]
                ELSE stock[k]]
        /\ settled' = IF ReplicaScoped(ts) \/ bad # {} THEN Unsettled ELSE [spec |-> y, of |-> closure]

Resting == ~restart.on
Failures == {{}} \cup {{k} : k \in Instances}
TargetSets == {{}} \cup {{t} : t \in Services \X (0 .. MaxScale)}
              \cup {{<<c, 0>>, t} : c \in Services, t \in Services \X {0, 1}}

Create ==
    /\ Resting /\ verbs < MaxVerbs /\ yaml # NoYaml
    /\ Plannable(yaml)
    /\ \E ts \in TargetSets :
        /\ TargetsValid(ts, DeclaredReplicas(yaml))
        /\ \E prune, up \in BOOLEAN, bad \in Failures : \E lost \in {{}, bad} :
              Creates(yaml, ts, prune, up, bad, lost)
    /\ verbs' = verbs + 1
    /\ UNCHANGED <<yaml, restart, turns>>

\* scale: an up of the named command with a replica count that only this up knows.
Scale ==
    /\ Resting /\ verbs < MaxVerbs /\ yaml # NoYaml
    /\ Plannable(yaml)
    /\ \E c \in yaml.names, n \in Indices, bad \in Failures : \E lost \in {{}, bad} :
          Creates([yaml EXCEPT !.scale[c] = n], {<<c, 0>>}, FALSE, TRUE, bad, lost)
    /\ verbs' = verbs + 1
    /\ UNCHANGED <<yaml, restart, turns>>

\* Some of the replicas that run end.
End(ks) ==
    /\ \E ended \in SUBSET {k \in ks : IsLive(stock[k])} :
          /\ ended # {}
          /\ stock' = [k \in Instances |-> IF k \in ended THEN [stock[k] EXCEPT !.state = "exited"] ELSE stock[k]]
    /\ verbs' = verbs + 1 /\ settled' = Unsettled
    /\ UNCHANGED <<yaml, restart, turns>>

\* signal and send-keys: every selected replica is attempted, whatever becomes
\* of the others, and any of them may end of it.
Signal ==
    /\ Resting /\ verbs < MaxVerbs
    /\ \E ts \in TargetSets : TargetsValid(ts, StoredReplicas(yaml)) /\ End(Filter(ts, Stored))
SendKeys == Signal

\* The replica an attach means: by its place among the stored ones, the only
\* one if no index is given.
ResolveCommandID(c, i) ==
    LET ks == {j \in Indices : <<c, j>> \in Stored} IN
    IF i = 0 THEN (IF Cardinality(ks) = 1 THEN CHOOSE j \in ks : TRUE ELSE 0)
    ELSE IF i > Cardinality(ks) THEN 0
    ELSE CHOOSE j \in ks : Cardinality({m \in ks : m <= j}) = i

-----------------------------------------------------------------------------
(* Restart.                                                                *)

\* The project that the labels of the stored replicas describe.  A command has
\* the dependencies of whichever of its replicas is listed first.
Reconstruct(first) ==
    [names |-> {k[1] : k \in Stored},
     deps |-> [c \in Services |-> IF first[c] = 0 THEN {} ELSE stock[<<c, first[c]>>].hash.after]]
Firsts ==
    LET highest == [c \in Services |-> Highest(c)] IN
    {f \in [Services -> 0 .. MaxScale] : \A c \in Services :
        IF highest[c] = 0 THEN f[c] = 0 ELSE <<c, f[c]>> \in Stored}

\* What a verb that needs the graph works from.
SpecOf(f) == IF yaml = NoYaml THEN Reconstruct(f) ELSE yaml

\* The commands a stop takes with its targets: all that come after them.
Dependents(spec, names) ==
    IF names = {} THEN spec.names
    ELSE LET Reach[n \in 0 .. Cardinality(spec.names)] ==
                 IF n = 0 THEN names
                 ELSE Reach[n - 1] \cup {c \in spec.names : spec.deps[c] \cap Reach[n - 1] # {}}
         IN  Reach[Cardinality(spec.names)]

\* stop: the walk of its closure is ReconcileWalk's.
Stop ==
    /\ Resting /\ verbs < MaxVerbs
    /\ \E ts \in TargetSets, f \in Firsts :
        LET spec == SpecOf(f) IN
        /\ TargetsValid(ts, StoredReplicas(yaml)) /\ ValidateDAG(spec.names, spec.deps)
        /\ End({k \in Stored : k[1] \in Dependents(spec, {t[1] : t \in ts}) /\ Covers(ts, k)})

NoRestart == [on |-> FALSE, phase |-> "none", layers |-> <<>>, at |-> 0, deps |-> [c \in Services |-> {}],
              chosen |-> {}, live |-> {}, busy |-> {}, over |-> {}, held |-> {},
              stopped |-> {}, started |-> {}, stopErr |-> {}, startErr |-> {}, cancelled |-> FALSE,
              hooked |-> {}, since |-> 0, nth |-> 0]

\* An orphan has no layer: it is listed and left alone.
RestartBegins ==
    /\ Resting /\ verbs < MaxVerbs /\ Stored # {}
    /\ \E ts \in TargetSets, f \in Firsts :
        LET spec == SpecOf(f)
            ks == {k \in Filter(ts, Stored) : k[1] \in spec.names}
        IN  /\ TargetsValid(ts, StoredReplicas(yaml))
            /\ ValidateDAG(spec.names, spec.deps)
            /\ restart' = [NoRestart EXCEPT
                   !.on = TRUE, !.phase = "stop", !.deps = spec.deps,
                   !.layers = TopoLayers(spec.names, spec.deps),
                   !.at = Len(TopoLayers(spec.names, spec.deps)),
                   !.chosen = ks, !.live = {k \in ks : IsLive(stock[k])}, !.since = turns, !.nth = verbs + 1]
    /\ verbs' = verbs + 1 /\ settled' = Unsettled
    /\ UNCHANGED <<yaml, stock, turns>>

\* The replicas of the layer that the goroutines of its errgroup have yet to see to.
LayerOf(n) == {k \in restart.chosen : k[1] \in restart.layers[n]}
Untouched(k) == k \in LayerOf(restart.at) \ (restart.busy \cup restart.over)
Phase(p) == restart.on /\ restart.phase = p

\* restartStop: a replica that was not live when the project was listed counts
\* as stopped; any other waits for a permit.
StopBegins(k) ==
    /\ Phase("stop") /\ Untouched(k)
    /\ IF k \in restart.live
       THEN /\ Cardinality(restart.busy) < Permits
            /\ restart' = [restart EXCEPT !.busy = @ \cup {k}]
       ELSE restart' = [restart EXCEPT !.over = @ \cup {k}]
    /\ UNCHANGED <<yaml, stock, verbs, turns, settled>>

\* The wait for the permit ends with the context: the start is tried all the same.
PermitFails(k) ==
    /\ Phase("stop") /\ Untouched(k) /\ k \in restart.live /\ restart.cancelled
    /\ restart' = [restart EXCEPT !.over = @ \cup {k}, !.stopErr = @ \cup {k}]
    /\ UNCHANGED <<yaml, stock, verbs, turns, settled>>

\* Mutant of Startable: a hook that failed counts as a stop that failed.
StartableAnyway(res) == TRUE

\* A failed stop hook takes the replica out of the start phase, a failed stop
\* does not.  A stop_post that fails comes after a stop that worked.
Startable(res) == res \notin {"pre", "post"}
StopReturns(k) ==
    /\ Phase("stop") /\ k \in restart.busy
    /\ \E res \in {"ok", "failed", "pre", "post"} :
        /\ restart' = [restart EXCEPT !.busy = @ \ {k}, !.over = @ \cup {k},
                           !.stopped = @ \cup {k},
                           !.stopErr = IF res = "ok" THEN @ ELSE @ \cup {k},
                           !.hooked = IF res \in {"pre", "post"} THEN @ \cup {k} ELSE @,
                           !.held = IF Startable(res) THEN @ ELSE @ \cup {k}]
        /\ stock' = IF res \in {"ok", "post"} /\ stock[k] # None
                    THEN [stock EXCEPT ![k].state = "exited"] ELSE stock
    /\ UNCHANGED <<yaml, verbs, turns, settled>>

\* The group of a layer has returned: the next layer, the start phase after the
\* last, the outcomes after that.
LayerEnds ==
    /\ restart.on /\ restart.busy = {}
    /\ LayerOf(restart.at) \ (IF restart.phase = "start" THEN restart.held ELSE {}) \subseteq restart.over
    /\ restart' = CASE restart.phase = "stop" /\ restart.at > 1 -> [restart EXCEPT !.at = @ - 1]
                    [] restart.phase = "stop" /\ restart.at = 1 -> [restart EXCEPT !.phase = "start", !.over = {}]
                    [] restart.phase = "start" /\ restart.at < Len(restart.layers) -> [restart EXCEPT !.at = @ + 1]
                    [] OTHER -> [restart EXCEPT !.on = FALSE, !.phase = "done"]
    /\ UNCHANGED <<yaml, stock, verbs, turns, settled>>

StartBegins(k) ==
    /\ Phase("start") /\ Untouched(k) /\ k \notin restart.held
    /\ restart' = [restart EXCEPT !.busy = @ \cup {k}]
    /\ UNCHANGED <<yaml, stock, verbs, turns, settled>>

\* A start works on a replica that is there and does not run.
StartReturns(k) ==
    /\ Phase("start") /\ k \in restart.busy
    /\ \E ok \in BOOLEAN :
        /\ ok => stock[k] # None /\ ~IsLive(stock[k])
        /\ restart' = [restart EXCEPT !.busy = @ \ {k}, !.over = @ \cup {k},
                           !.started = @ \cup {k},
                           !.startErr = IF ok THEN @ ELSE @ \cup {k}]
        /\ stock' = IF ok THEN [stock EXCEPT ![k].state = "running"] ELSE stock
    /\ UNCHANGED <<yaml, verbs, turns, settled>>

CancelRestart ==
    /\ Phase("stop") /\ ~restart.cancelled /\ turns < MaxTurns
    /\ restart' = [restart EXCEPT !.cancelled = TRUE]
    /\ turns' = turns + 1
    /\ UNCHANGED <<yaml, stock, verbs, settled>>

-----------------------------------------------------------------------------
(* What others do meanwhile: the file is edited or the directory left, a   *)
(* replica ends, is started or is removed.                                 *)

\* Nothing reads the file while a restart is under way.
EditYaml ==
    /\ Resting /\ turns < MaxTurns
    /\ yaml' \in (Yamls \cup {NoYaml}) \ {yaml}
    /\ turns' = turns + 1
    /\ UNCHANGED <<stock, restart, verbs, settled>>

Turns(k) ==
    /\ turns < MaxTurns /\ k \in Stored
    /\ \E e \in {None, [stock[k] EXCEPT !.state = IF IsLive(stock[k]) THEN "exited" ELSE "running"]} :
        stock' = [stock EXCEPT ![k] = e]
    /\ turns' = turns + 1
    /\ settled' = Unsettled
    /\ UNCHANGED <<yaml, restart, verbs>>

ProjectInit ==
    /\ yaml \in Yamls
    /\ stock = [k \in Instances |-> None]
    /\ restart = NoRestart
    /\ verbs = 0 /\ turns = 0 /\ settled = Unsettled

ProjectNext ==
    \/ Create \/ Scale \/ Signal \/ SendKeys \/ Stop \/ RestartBegins \/ LayerEnds \/ CancelRestart \/ EditYaml
    \/ \E k \in Instances :
        StopBegins(k) \/ PermitFails(k) \/ StopReturns(k) \/ StartBegins(k) \/ StartReturns(k) \/ Turns(k)

ProjectSpec == ProjectInit /\ [][ProjectNext]_projectVars
-----------------------------------------------------------------------------
(* Properties                                                              *)

\* Replicas, goroutines and outcomes are among those there are.
ProjectTypeOK ==
    /\ yaml \in Yamls \cup {NoYaml} /\ settled.of \subseteq settled.spec.names
    /\ \A k \in Stored : stock[k].state \in {"created", "running", "exited"}
    /\ restart.busy \cup restart.over \cup restart.held \subseteq restart.chosen
    /\ restart.busy \cap restart.over = {} /\ restart.chosen \subseteq Instances

\* The reference for the graph: what a command comes after, however far.
Needs(names, deps) ==
    LET Far[n \in 0 .. Cardinality(names)] ==
            IF n = 0 THEN deps
            ELSE [c \in Services |-> Far[n - 1][c] \cup UNION {Far[n - 1][d] : d \in Far[n - 1][c]}]
    IN  Far[Cardinality(names)]

\* topoLayers, over every graph of the commands: a graph is refused just when a
\* command comes after itself, and a command is in the layer that the longest
\* chain below it makes it wait for.
LayersRight ==
    verbs = 0 /\ turns = 0 => \A deps \in [Services -> SUBSET Services] :
        LET needs == Needs(Services, deps) layers == TopoLayers(Services, deps) IN
        /\ ValidateDAG(Services, deps) = (\A c \in Services : c \notin needs[c])
        /\ ValidateDAG(Services, deps) =>
            /\ \A c \in Services : Cardinality({n \in DOMAIN layers : c \in layers[n]}) = 1
            /\ \A n \in DOMAIN layers : \A c \in layers[n] :
                /\ \A m \in n .. Len(layers) : needs[c] \cap layers[m] = {}
                /\ n = 1 \/ deps[c] \cap layers[n - 1] # {}

\* A create, up or scale that reports no failure has converged: planned again,
\* every replica of the commands it took is unchanged and none is too many.
Converged ==
    \A k \in Instances : k[1] \in settled.of =>
        IF k[2] <= settled.spec.scale[k[1]] THEN ActionOf(settled.spec, k) = "unchanged"
        ELSE k \notin Stored

\* The labels a create leaves say what the file said: without the file a verb
\* walks the same commands in the same order.
StoredGraphAgrees ==
    LET y == settled.spec IN
    y # NoYaml /\ settled.of = y.names /\ PlanOrphans(y) = {} =>
        \A f \in Firsts : LET spec == Reconstruct(f) IN
            /\ spec.names = y.names
            /\ TopoLayers(spec.names, spec.deps) = TopoLayers(y.names, y.deps)

\* Restart stops no replica before everything selected that comes after it has
\* been stopped, starts none before all of that is over, and none before
\* everything selected that it comes after has been started, however many
\* commands in between are not selected.
RestartOrder ==
    LET needs == Needs(Services, restart.deps) IN
    /\ Phase("stop") => \A k \in restart.busy \cup restart.stopped : \A j \in restart.chosen :
          k[1] \in needs[j[1]] => j \in restart.over
    /\ Phase("start") =>
          /\ restart.live \subseteq restart.stopped \cup restart.stopErr
          /\ \A k \in restart.busy \cup restart.started : \A j \in restart.chosen \ restart.hooked :
                j[1] \in needs[k[1]] => j \in restart.started

\* What restart reports is so: a replica it names no error for runs, one whose
\* stop hook failed was not started, and every other one was tried.
RestartTrue ==
    restart.phase = "done" =>
        /\ restart.started = restart.chosen \ restart.hooked
        /\ verbs = restart.nth /\ turns = restart.since =>
              \A k \in restart.chosen \ (restart.stopErr \cup restart.startErr) :
                  k \in Stored /\ IsLive(stock[k])

\* An attach gets the replica it names, as long as no lower one is missing.
AttachesAsked ==
    \A c \in Services : (\A i \in 1 .. Highest(c) : <<c, i>> \in Stored) =>
        \A i \in Indices : ResolveCommandID(c, i) = IF <<c, i>> \in Stored THEN i ELSE 0

\* The plan, the targets and restart.
ProjectSafety ==
    /\ ProjectTypeOK /\ LayersRight /\ Converged /\ StoredGraphAgrees
    /\ RestartOrder /\ RestartTrue /\ AttachesAsked
=============================================================================
