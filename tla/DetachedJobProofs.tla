-------------------------- MODULE DetachedJobProofs --------------------------
(***************************************************************************)
(* Theorems about DetachedJob, for any number of invocations, records,     *)
(* seconds and faults.                                                     *)
(***************************************************************************)
EXTENDS DetachedJob, TLAPS

-----------------------------------------------------------------------------
(* The inductive invariant, part by part.                                  *)

RecStates == {"none", "half", "created", "starting", "running", "exited", "failed"}
MonStates == {"none", "spawned", "locked", "starting", "running", "over", "removing", "leaving",
              "left", "dead"}
\* Where the job's lock file is held, in a launch or a probe of a down job.
Launching == {"look", "hold", "remove", "create", "conflict", "insert", "start", "await", "reread",
              "cleanup", "cleanupRemove", "probeHold", "probeRelease"}
Muxing == {"idle", "insert", "start", "await", "cleanup", "inspect", "muxRead", "muxRemove",
           "create", "follow", "gone", "done"}
\* Where an invocation has a record of its own, and where it has seen one.
Owning == {"insert", "start", "await", "reread", "cleanup", "cleanupRemove", "follow", "gone",
           "probe", "probeHold", "probeRelease"}
Seeing == {"hold", "remove", "muxRead", "muxRemove"}
Pcs == Launching \cup Muxing \cup {"lock", "probe"}

RecType == [id : 0 .. MaxIds, state : RecStates, made : Nat, started : Nat \cup {-1}]
ProcType == [pc : Pcs, id : 0 .. MaxIds, seen : 0 .. MaxIds, req : Nat,
             got : {"none", "exited", "failed", "notstarted", "lost"}]

Typed ==
    /\ kind \in {"down", "muxop"} /\ ids \in 0 .. MaxIds /\ tick \in Nat
    /\ rec \in RecType
    /\ rec.id <= ids /\ (rec.id = 0 <=> rec.state = "none")
    /\ mon \in [Ids -> MonStates] /\ pidLock \in [Ids -> Procs \cup {Nobody, "mon"}]
    /\ jobLock \in Procs \cup {Nobody}
    /\ events \subseteq Ids \X {"exited", "failed"} /\ ended \in [Ids -> {"none", "exited", "failed"}]
    /\ proc \in [Procs -> ProcType]
    /\ slow \in BOOLEAN /\ never \subseteq Ids

\* An invocation is where its kind takes it, with the record it needs there.
ProcOf(p) ==
    /\ kind = "down" => proc[p].pc \notin {"inspect", "muxRead", "muxRemove"}
    /\ kind = "muxop" => proc[p].pc \in Muxing
    /\ proc[p].pc \in Owning => proc[p].id \in 1 .. ids
    /\ proc[p].pc \in Seeing => proc[p].seen \in 1 .. ids
    /\ proc[p].req <= tick
ProcInv == \A p \in Procs : ProcOf(p)

\* The lock file is held all through a launch, the PID lock by who is about to
\* let go of it, and by a monitor from its first step to its last.
HoldsFile(p) == kind = "down" /\ proc[p].pc \in Launching => jobLock = p
HoldsPid(p) ==
    /\ proc[p].pc = "remove" => pidLock[proc[p].seen] = p
    /\ proc[p].pc \in {"cleanupRemove", "probeRelease"} => pidLock[proc[p].id] = p
LetsPid(p) == \A i \in Ids : pidLock[i] = p => proc[p].pc \in {"remove", "cleanupRemove", "probeRelease"}
MonHolds(i) == mon[i] \in {"locked", "starting", "running", "over", "removing", "leaving"} <=> pidLock[i] = "mon"
LockInv ==
    /\ \A p \in Procs : HoldsFile(p) /\ HoldsPid(p) /\ LetsPid(p)
    /\ \A i \in Ids : MonHolds(i)

\* What a launch has found or made stays as it is while it holds its lock.
MadeRec(p) ==
    /\ proc[p].pc = "insert" => rec.id = proc[p].id /\ rec.state = "half"
    /\ proc[p].pc = "start" => rec.id = proc[p].id /\ rec.state = "created"
    /\ kind = "muxop" /\ proc[p].pc \in {"insert", "start"} => rec.made = tick
HeldRec(p) ==
    kind = "down" =>
        /\ proc[p].pc \in {"hold", "remove"} => rec.id = proc[p].seen
        /\ proc[p].pc \in {"create", "conflict"} => rec.state \in {"none", "half"}
        /\ proc[p].pc \in {"insert", "start", "await", "reread", "cleanup", "cleanupRemove"} =>
              rec.id = proc[p].id /\ rec.made >= proc[p].req
        /\ proc[p].pc = "reread" => rec.state \in {"running", "exited", "failed"}
RecInv == \A p \in Procs : MadeRec(p) /\ HeldRec(p)

\* One invocation at a time makes the record, and it is not one that another
\* took for a leftover.
Apart(p, q) ==
    proc[q].pc \in {"insert", "start"} =>
        /\ proc[p].pc \in {"insert", "start"} => p = q
        /\ proc[p].pc \in {"muxRead", "muxRemove"} => proc[q].id # proc[p].seen
OneMaker == \A p, q \in Procs : Apart(p, q)

\* The record says where its monitor is.
RecMon ==
    /\ mon[rec.id] \in {"none", "spawned", "locked"} => rec.state \in {"half", "created"}
    /\ mon[rec.id] \in {"starting", "running"} => rec.state = mon[rec.id]
    /\ mon[rec.id] = "over" => rec.state \in Active
    /\ mon[rec.id] \in {"removing", "leaving"} => rec.state = ended[rec.id]
    /\ mon[rec.id] = "left" => rec.state \notin Active
    /\ rec.state = "half" => mon[rec.id] = "none"
    /\ rec.state = "exited" => ended[rec.id] = "exited"
    /\ rec.state = "failed" => ended[rec.id] = "failed" \/ mon[rec.id] = "dead"
NoMonYet(p) == proc[p].pc \in {"insert", "start"} => mon[proc[p].id] = "none"
Unused(i) == i > ids => mon[i] = "none"
MonInv ==
    /\ \A i \in Ids : Unused(i)
    /\ \A p \in Procs : NoMonYet(p)
    /\ rec.id # 0 => RecMon

\* A run has one end, and the event tells it.
EndOf(i) ==
    /\ mon[i] \in {"none", "spawned", "locked", "starting", "running"} => ended[i] = "none"
    /\ mon[i] \in {"over", "removing", "leaving"} => ended[i] # "none"
    /\ mon[i] = "removing" => kind = "muxop"
    /\ \A c \in {"exited", "failed"} : <<i, c>> \in events <=> ended[i] = c
EndsInv == \A i \in Ids : EndOf(i)

\* A job that is at work has the name.
HasName(i) == Supervised(i) /\ ~(kind = "muxop" /\ slow) => rec.id = i
WorkInv == \A i \in Ids : HasName(i)

\* A mux record that is taken for a leftover has no monitor that could still
\* come up.
YoungRec ==
    kind = "muxop" /\ ~slow /\ rec.id # 0 /\ rec.made # tick =>
        mon[rec.id] \notin {"spawned", "locked", "starting"}
Leftover(p) ==
    kind = "muxop" /\ ~slow /\ proc[p].pc \in {"muxRead", "muxRemove"} =>
        mon[proc[p].seen] \notin {"spawned", "locked", "starting", "running"}
MuxInv == YoungRec /\ \A p \in Procs : Leftover(p)

\* A record that was said never to have run has no launch that could run it.
NeverOf(i) ==
    /\ i <= ids
    /\ ~slow => /\ mon[i] \in {"none", "spawned", "left", "dead"}
                /\ \A q \in Procs : proc[q].pc \in {"insert", "start", "await"} => proc[q].id # i
NeverInv == \A i \in never : NeverOf(i)

TimeInv == rec.made <= tick /\ (rec.started = -1 \/ (rec.made <= rec.started /\ rec.started <= tick))

JobInv ==
    Typed /\ ProcInv /\ LockInv /\ RecInv /\ OneMaker /\ MonInv /\ EndsInv /\ WorkInv /\ MuxInv
    /\ NeverInv /\ TimeInv

-----------------------------------------------------------------------------
(* What the steps do, field by field.                                      *)

\* p goes to s with record i of its own, having seen n, for a request of time t.
To(p, s, i, n, t) ==
    /\ proc' \in [Procs -> ProcType]
    /\ \A q \in Procs : q # p => proc'[q] = proc[q]
    /\ proc'[p].pc = s /\ proc'[p].id = i /\ proc'[p].seen = n /\ proc'[p].req = t

\* The record becomes one with these fields.
RecIs(i, s, m, t) ==
    rec' \in RecType /\ rec'.id = i /\ rec'.state = s /\ rec'.made = m /\ rec'.started = t

\* A listing settles the record of a monitor that died.
Settles ==
    \/ rec' = rec /\ (rec.state \in Active => pidLock[rec.id] # Nobody)
    \/ /\ rec.state \in Active /\ pidLock[rec.id] = Nobody
       /\ \/ kind = "muxop" /\ RecIs(0, "none", 0, -1)
          \/ kind = "down" /\ RecIs(rec.id, "failed", rec.made, rec.started)

\* The monitor of i gets to s.
MonIs(i, s) ==
    /\ mon' \in [Ids -> MonStates]
    /\ mon'[i] = s /\ \A j \in Ids : j # i => mon'[j] = mon[j]

\* A lock somebody takes, and the locks one lets go of.
Taken(i, o) ==
    /\ pidLock' \in [Ids -> Procs \cup {Nobody, "mon"}]
    /\ pidLock'[i] = o /\ \A j \in Ids : j # i => pidLock'[j] = pidLock[j]
Let(p) ==
    /\ pidLock' \in [Ids -> Procs \cup {Nobody, "mon"}]
    /\ \A j \in Ids : pidLock'[j] = IF pidLock[j] = p THEN Nobody ELSE pidLock[j]
Unlocks(p) == jobLock' = IF jobLock = p THEN Nobody ELSE jobLock

LEMMA BoundNat == MaxIds \in Nat /\ 0 \in 0 .. MaxIds
<1>1. MaxIds \in Nat
  BY DetachedJobAssumption
<1> QED BY <1>1

LEMMA Fields ==
    ASSUME Typed
    PROVE  /\ ids \in Nat /\ ids <= MaxIds /\ tick \in Nat
           /\ rec.id \in Nat /\ rec.made \in Nat /\ rec.started \in Int /\ rec.started >= -1
           /\ rec.state \in RecStates
           /\ rec.id # 0 => rec.id \in Ids
           /\ rec.id = 0 <=> rec.state = "none"
           /\ kind \in {"down", "muxop"}
           /\ \A p \in Procs : proc[p].id \in Nat /\ proc[p].seen \in Nat /\ proc[p].req \in Nat
BY BoundNat DEF Typed, RecType, ProcType, Ids

LEMMA TakesLock ==
    ASSUME Typed, NEW i \in Ids, NEW o \in Procs \cup {Nobody, "mon"}, pidLock' = [pidLock EXCEPT ![i] = o]
    PROVE  Taken(i, o)
BY DEF Typed, Taken

LEMMA LetsGo ==
    ASSUME Typed, NEW p \in Procs, pidLock' = Release(p)
    PROVE  Let(p)
BY DEF Typed, Let, Release

LEMMA MonGoes ==
    ASSUME Typed, NEW i \in Ids, NEW s \in MonStates, MonTo(i, s)
    PROVE  MonIs(i, s)
BY DEF Typed, MonIs, MonTo

LEMMA GoesTo ==
    ASSUME Typed, NEW p \in Procs, NEW s \in Pcs, Goes(p, s)
    PROVE  To(p, s, proc[p].id, proc[p].seen, proc[p].req)
BY DEF Typed, Goes, To, ProcType

LEMMA FreshTyped == Fresh \in ProcType /\ Fresh.pc = "idle" /\ Fresh.id = 0 /\ Fresh.seen = 0 /\ Fresh.req = 0
BY BoundNat DEF Fresh, ProcType, Pcs, Muxing

LEMMA FreshTo ==
    ASSUME Typed, NEW p \in Procs, proc' = [proc EXCEPT ![p] = Fresh]
    PROVE  To(p, "idle", 0, 0, 0)
BY FreshTyped DEF Typed, To

LEMMA AnswersTo ==
    ASSUME Typed, NEW p \in Procs, NEW i \in 0 .. MaxIds, Answers(p, i)
    PROVE  To(p, "follow", i, 0, 0) /\ jobLock' = Nobody
BY FreshTyped DEF Typed, To, Answers, ProcType, Pcs, Muxing

LEMMA VerdictTo ==
    ASSUME Typed, NEW p \in Procs, NEW got \in {"exited", "failed", "notstarted", "lost"}, Verdict(p, got)
    PROVE  To(p, "done", 0, 0, 0) /\ proc'[p].got = got
BY FreshTyped DEF Typed, To, Verdict, ProcType, Pcs, Muxing

LEMMA SeesTo ==
    ASSUME Typed, NEW p \in Procs, NEW s \in Pcs, NEW n \in 0 .. MaxIds,
           proc' = [proc EXCEPT ![p].pc = s, ![p].seen = n]
    PROVE  To(p, s, proc[p].id, n, proc[p].req)
BY DEF Typed, To, ProcType

LEMMA OwnsTo ==
    ASSUME Typed, NEW p \in Procs, NEW s \in Pcs, NEW n \in 0 .. MaxIds,
           proc' = [proc EXCEPT ![p].pc = s, ![p].id = n]
    PROVE  To(p, s, n, proc[p].seen, proc[p].req)
BY DEF Typed, To, ProcType

LEMMA NoRecIs ==
    ASSUME rec' = NoRec
    PROVE  RecIs(0, "none", 0, -1)
BY BoundNat DEF NoRec, RecIs, RecType, RecStates

LEMMA StateIs ==
    ASSUME Typed, NEW s \in RecStates, rec' = [rec EXCEPT !.state = s]
    PROVE  RecIs(rec.id, s, rec.made, rec.started)
BY DEF Typed, RecIs, RecType

LEMMA SettledIs ==
    ASSUME Typed, rec' = Settled
    PROVE  Settles
<1>1. CASE rec.state \in Active /\ pidLock[rec.id] = Nobody /\ kind = "muxop"
  BY <1>1, NoRecIs DEF Settled, Settles
<1>2. CASE rec.state \in Active /\ pidLock[rec.id] = Nobody /\ kind # "muxop"
  <2>1. rec' = [rec EXCEPT !.state = "failed"] /\ kind = "down"
    BY <1>2 DEF Settled, Typed
  <2>2. RecIs(rec.id, "failed", rec.made, rec.started)
    BY <2>1, StateIs DEF RecStates
  <2> QED BY <1>2, <2>1, <2>2 DEF Settles
<1>3. CASE ~(rec.state \in Active /\ pidLock[rec.id] = Nobody)
  BY <1>3 DEF Settled, Settles
<1> QED BY <1>1, <1>2, <1>3

LEMMA CreatesRecord ==
    ASSUME Typed, NEW p \in Procs, NEW conflict \in Pcs, CreateConfig(p, "insert", conflict)
    PROVE  \/ rec.id # 0 /\ UNCHANGED <<rec, ids>> /\ To(p, conflict, proc[p].id, proc[p].seen, proc[p].req)
           \/ /\ rec.id = 0 /\ ids' = ids + 1 /\ ids + 1 \in Ids
              /\ RecIs(ids + 1, "half", tick, -1)
              /\ To(p, "insert", ids + 1, proc[p].seen, proc[p].req)
<1>1. CASE rec.id # 0
  BY <1>1, GoesTo DEF CreateConfig
<1>2. CASE rec.id = 0
  <2>1. ids' = ids + 1 /\ ids + 1 \in Ids
    BY <1>2, BoundNat DEF CreateConfig, Typed, Ids
  <2>2. RecIs(ids + 1, "half", tick, -1)
    <3>1. rec' = [id |-> ids + 1, state |-> "half", made |-> tick, started |-> -1]
      BY <1>2 DEF CreateConfig, NoRec
    <3> QED BY <2>1, <3>1, BoundNat DEF RecIs, RecType, RecStates, Typed, Ids
  <2>3. To(p, "insert", ids + 1, proc[p].seen, proc[p].req)
    <3>1. proc' = [proc EXCEPT ![p].pc = "insert", ![p].id = ids + 1] /\ ids + 1 \in 0 .. MaxIds
      BY <1>2, <2>1, BoundNat DEF CreateConfig, Ids
    <3> QED BY <3>1, OwnsTo DEF Pcs, Muxing
  <2> QED BY <1>2, <2>1, <2>2, <2>3
<1> QED BY <1>1, <1>2

\* What a follower says when no record tells it.
Said(p) ==
    \/ proc'[p].got = "notstarted"
    \/ proc'[p].got \in Reported(p)
    \/ proc'[p].got = "lost" /\ Reported(p) = {}

\* The steps of an invocation that touch neither a record nor a monitor.
Walking(p) ==
    /\ UNCHANGED <<kind, tick, slow, never, cmdVars>>
    /\ \/ UNCHANGED jobLock /\ proc[p].pc # "lock"
          /\ \/ proc[p].pc = "muxRead" /\ To(p, "idle", 0, 0, 0)
             \/ proc[p].pc \in {"follow", "gone"} /\ To(p, "done", 0, 0, 0) /\ Said(p)
             \/ kind = "down" /\ proc[p].pc = "idle" /\ To(p, "lock", 0, 0, tick)
             \/ /\ proc[p].pc = "await" /\ kind = "down" /\ Up(p)
                /\ To(p, "reread", proc[p].id, proc[p].seen, proc[p].req)
             \/ /\ proc[p].pc = "await" /\ kind = "muxop"
                /\ To(p, "follow", proc[p].id, proc[p].seen, proc[p].req)
             \/ /\ proc[p].pc = "await"
                /\ To(p, "cleanup", proc[p].id, proc[p].seen, proc[p].req)
             \/ /\ proc[p].pc = "muxRead"
                /\ To(p, "muxRemove", proc[p].id, proc[p].seen, proc[p].req)
             \/ /\ proc[p].pc \in {"gone", "probe"}
                /\ To(p, "follow", proc[p].id, proc[p].seen, proc[p].req)
       \/ /\ proc[p].pc = "lock"
          /\ \/ jobLock = Nobody /\ jobLock' = p /\ To(p, "look", proc[p].id, proc[p].seen, proc[p].req)
             \/ UNCHANGED jobLock /\ To(p, "idle", 0, 0, 0)
       \/ /\ proc[p].pc = "probe" /\ jobLock = Nobody /\ jobLock' = p
          /\ rec.id = proc[p].id /\ rec.state = "created"
          /\ To(p, "probeHold", proc[p].id, proc[p].seen, proc[p].req)

LEMMA WalksOn ==
    ASSUME Typed, NEW p \in Procs,
           TakeLock(p) \/ StartReturns(p) \/ StartTimesOut(p) \/ MuxRemoveReads(p) \/ FollowEvent(p)
             \/ StartWaitEnds(p) \/ GraceEnds(p) \/ ProbeBegins(p) \/ Request(p)
    PROVE  Walking(p)
<1> USE DEF Walking
<1> USE DEF At, Rest
<1>1. CASE TakeLock(p)
  BY <1>1, GoesTo, FreshTo DEF TakeLock, Pcs, Launching
<1>2. CASE StartReturns(p)
  BY <1>2, GoesTo DEF StartReturns, Pcs, Launching, Muxing, Typed
<1>3. CASE StartTimesOut(p)
  BY <1>3, GoesTo DEF StartTimesOut, Pcs, Launching
<1>4. CASE MuxRemoveReads(p)
  BY <1>4, GoesTo, FreshTo DEF MuxRemoveReads, Pcs, Muxing
<1>5. CASE FollowEvent(p)
  BY <1>5, VerdictTo DEF FollowEvent, Reported, Said
<1>6. CASE StartWaitEnds(p)
  BY <1>6, VerdictTo DEF StartWaitEnds, Said
<1>7. CASE GraceEnds(p)
  BY <1>7, VerdictTo, GoesTo DEF GraceEnds, Pcs, Muxing, Said
<1>8. CASE ProbeBegins(p)
  BY <1>8, GoesTo DEF ProbeBegins, Pcs, Launching, Muxing
<1>9. CASE Request(p)
  <2>1. To(p, "lock", 0, 0, tick)
    BY <1>9, FreshTyped DEF Request, To, Typed, ProcType, Pcs
  <2> QED BY <1>9, <2>1 DEF Request
<1> QED BY <1>1, <1>2, <1>3, <1>4, <1>5, <1>6, <1>7, <1>8, <1>9

\* The steps that list the records.
Listing(p) ==
    /\ UNCHANGED <<kind, tick, slow, never, ids, mon, pidLock, events, ended>> /\ Settles
    /\ \/ /\ proc[p].pc = "look" /\ UNCHANGED jobLock
          /\ rec'.state \in {"none", "half"} /\ To(p, "create", proc[p].id, proc[p].seen, proc[p].req)
       \/ /\ proc[p].pc = "look" /\ jobLock' = Nobody
          /\ rec'.state \in Active \/ (rec'.state \in Terminal /\ RanSince(rec', proc[p].req))
          /\ To(p, "follow", rec'.id, 0, 0)
       \/ /\ proc[p].pc = "look" /\ UNCHANGED jobLock
          /\ rec'.state \in Terminal \cup {"created"}
          /\ To(p, "hold", proc[p].id, rec'.id, proc[p].req)
       \/ /\ proc[p].pc = "reread" /\ jobLock' = Nobody
          /\ rec'.id = proc[p].id /\ To(p, "follow", proc[p].id, 0, 0)
       \/ /\ proc[p].pc = "reread" /\ jobLock' = (IF jobLock = p THEN Nobody ELSE jobLock)
          /\ To(p, "idle", 0, 0, 0)
       \/ /\ proc[p].pc = "inspect" /\ UNCHANGED jobLock
          /\ \/ To(p, "create", proc[p].id, proc[p].seen, proc[p].req)
             \/ To(p, "idle", 0, 0, 0)
             \/ /\ rec'.state \notin {"none", "half"} /\ ~LiveRecord(rec')
                /\ To(p, "muxRead", proc[p].id, rec'.id, proc[p].req)
       \/ /\ proc[p].pc = "follow" /\ UNCHANGED jobLock
          /\ \/ To(p, "gone", proc[p].id, proc[p].seen, proc[p].req)
             \/ /\ rec'.id = proc[p].id /\ rec'.state \in Terminal
                /\ To(p, "done", 0, 0, 0) /\ proc'[p].got = rec'.state
             \/ kind = "down" /\ To(p, "probe", proc[p].id, proc[p].seen, proc[p].req)
             \/ To(p, "follow", proc[p].id, proc[p].seen, proc[p].req)
       \/ /\ proc[p].pc = "idle" /\ UNCHANGED jobLock /\ rec'.id # 0
          /\ To(p, "follow", rec'.id, 0, 0)

LEMMA Lists ==
    ASSUME Typed, ProcInv, NEW p \in Procs,
           LookUp(p) \/ Reread(p) \/ Inspect(p) \/ FollowRecord(p) \/ Find(p)
    PROVE  Listing(p)
<1> USE DEF Listing
<1> USE DEF At, Rest, MonVars
<1>0. rec' = Settled
  BY DEF LookUp, Reread, Inspect, FollowRecord, Find
<1>1. /\ Settles /\ rec' \in RecType /\ rec'.id \in 0 .. MaxIds
      /\ (rec'.id = 0 <=> rec'.state = "none")
  <2>1. Settles
    BY <1>0, SettledIs
  <2>2. rec' \in RecType /\ (rec'.id = 0 <=> rec'.state = "none")
    BY <2>1 DEF Settles, RecIs, Typed, Active
  <2>3. rec'.id \in 0 .. MaxIds
    BY <2>2 DEF RecType
  <2> QED BY <2>1, <2>2, <2>3
<1>2. Listed = IF rec'.state = "half" THEN NoRec ELSE rec'
  BY <1>0 DEF Listed
<1>3. NoRec.id = 0 /\ NoRec.state = "none"
  BY DEF NoRec
<1>4. CASE LookUp(p)
  <2>0. UNCHANGED <<kind, tick, slow, never, ids, mon, pidLock, events, ended>> /\ proc[p].pc = "look"
    BY <1>4 DEF LookUp
  <2>1. CASE Listed.id = 0 /\ Goes(p, "create") /\ UNCHANGED jobLock
    BY <1>1, <1>2, <1>3, <2>0, <2>1, GoesTo DEF Pcs, Launching
  <2>2. CASE Listed.state \in Active /\ Answers(p, Listed.id)
    <3>1. Listed = rec'
      BY <1>2, <1>3, <2>2 DEF Active
    <3> QED BY <1>1, <2>0, <2>2, <3>1, AnswersTo
  <2>3. CASE Listed.state \in Terminal /\ RanSince(Listed, proc[p].req) /\ Answers(p, Listed.id)
    <3>1. Listed = rec'
      BY <1>2, <1>3, <2>3 DEF Terminal
    <3> QED BY <1>1, <2>0, <2>3, <3>1, AnswersTo
  <2>4. CASE /\ Listed.state = "created" \/ (Listed.state \in Terminal /\ ~RanSince(Listed, proc[p].req))
             /\ proc' = [proc EXCEPT ![p].pc = "hold", ![p].seen = Listed.id] /\ UNCHANGED jobLock
    <3>1. Listed = rec' /\ rec'.state \in Terminal \cup {"created"}
      BY <1>2, <1>3, <2>4 DEF Terminal
    <3>2. To(p, "hold", proc[p].id, rec'.id, proc[p].req)
      BY <1>1, <2>4, <3>1, SeesTo DEF Pcs, Launching
    <3> QED BY <1>1, <2>0, <2>4, <3>1, <3>2
  <2> QED BY <1>4, <2>1, <2>2, <2>3, <2>4 DEF LookUp
<1>5. CASE Reread(p)
  <2>1. proc[p].id \in 0 .. MaxIds
    BY DEF Typed, ProcType
  <2> QED BY <1>0, <1>1, <1>5, <2>1, AnswersTo, FreshTo DEF Reread, Fails
<1>6. CASE Inspect(p)
  <2>0. UNCHANGED <<kind, tick, slow, never, ids, mon, pidLock, events, ended, jobLock>> /\ proc[p].pc = "inspect"
    BY <1>6 DEF Inspect
  <2>1. CASE Listed.id = 0 /\ Goes(p, "create")
    BY <1>1, <2>0, <2>1, GoesTo DEF Pcs, Launching
  <2>2. CASE proc' = [proc EXCEPT ![p] = Fresh]
    BY <1>1, <2>0, <2>2, FreshTo
  <2>3. CASE /\ Listed.id # 0 /\ ~LiveRecord(Listed)
             /\ proc' = [proc EXCEPT ![p].pc = "muxRead", ![p].seen = Listed.id]
    <3>1. Listed = rec' /\ rec'.state \notin {"none", "half"}
      BY <1>1, <1>2, <1>3, <2>3
    <3>2. To(p, "muxRead", proc[p].id, rec'.id, proc[p].req)
      BY <1>1, <2>3, <3>1, SeesTo DEF Pcs, Muxing
    <3> QED BY <1>1, <2>0, <2>3, <3>1, <3>2
  <2> QED BY <1>6, <2>1, <2>2, <2>3 DEF Inspect
<1>7. CASE FollowRecord(p)
  <2>0. UNCHANGED <<kind, tick, slow, never, ids, mon, pidLock, events, ended, jobLock>> /\ proc[p].pc = "follow"
    BY <1>7 DEF FollowRecord
  <2>1. CASE Goes(p, "gone") \/ (kind = "down" /\ Goes(p, "probe"))
    BY <1>1, <2>0, <2>1, GoesTo DEF Pcs, Muxing
  <2>2. CASE Listed.id = proc[p].id /\ Listed.state \in Terminal /\ Verdict(p, Listed.state)
    <3>1. Listed = rec'
      BY <1>2, <1>3, <2>2 DEF Terminal
    <3> QED BY <1>1, <2>0, <2>2, <3>1, VerdictTo DEF Terminal
  <2>3. CASE UNCHANGED proc
    <3>1. To(p, "follow", proc[p].id, proc[p].seen, proc[p].req)
      BY <2>0, <2>3 DEF To, Typed
    <3> QED BY <1>1, <2>0, <3>1
  <2> QED BY <1>7, <2>1, <2>2, <2>3 DEF FollowRecord
<1>8. CASE Find(p)
  <2>1. Listed = rec' /\ rec'.id # 0
    BY <1>2, <1>3, <1>8 DEF Find
  <2>2. To(p, "follow", rec'.id, 0, 0)
    BY <1>1, <1>8, <2>1, FreshTyped DEF Find, To, Typed, ProcType, Pcs, Muxing
  <2> QED BY <1>1, <1>8, <2>1, <2>2 DEF Find
<1> QED BY <1>4, <1>5, <1>6, <1>7, <1>8

\* The steps that make a record.
Registers(p) ==
    /\ UNCHANGED <<kind, tick, slow, never, mon, pidLock, events, ended, jobLock>>
    /\ rec.id = 0 /\ ids' = ids + 1 /\ ids + 1 \in Ids /\ RecIs(ids + 1, "half", tick, -1)
    /\ To(p, "insert", ids + 1, proc[p].seen, proc[p].req)
    /\ kind = "down" => proc[p].pc = "create"
NameTaken(p) ==
    /\ UNCHANGED <<kind, tick, slow, never, mon, pidLock, events, ended, jobLock, ids>>
    /\ \/ /\ rec.id # 0 /\ UNCHANGED rec /\ kind = "down" /\ proc[p].pc = "create"
          /\ To(p, "conflict", proc[p].id, proc[p].seen, proc[p].req)
       \/ /\ kind = "down" /\ proc[p].pc = "conflict" /\ RecIs(0, "none", 0, -1)
          /\ To(p, "create", proc[p].id, proc[p].seen, proc[p].req)
       \/ /\ kind = "muxop" /\ UNCHANGED rec
          /\ \/ To(p, "idle", 0, 0, 0)
             \/ To(p, "inspect", proc[p].id, proc[p].seen, proc[p].req)
Making(p) == Registers(p) \/ NameTaken(p)

LEMMA Makes ==
    ASSUME Typed, ProcInv, NEW p \in Procs, CreateDownJob(p) \/ MuxBegin(p) \/ MuxCreatesAgain(p)
    PROVE  Making(p)
<1> USE DEF Making, Registers, NameTaken
<1> USE DEF At, Rest, MonVars
<1>0. UNCHANGED <<kind, tick, slow, never, mon, pidLock, events, ended, jobLock>>
  BY DEF CreateDownJob, MuxBegin, MuxCreatesAgain
<1>1. CASE CreateDownJob(p)
  <2>1. CASE proc[p].pc = "create" /\ CreateConfig(p, "insert", "conflict")
    BY <1>0, <1>1, <2>1, CreatesRecord DEF CreateDownJob, Pcs, Launching
  <2>2. CASE proc[p].pc = "conflict" /\ rec' = NoRec /\ Goes(p, "create") /\ UNCHANGED ids
    BY <1>0, <1>1, <2>2, NoRecIs, GoesTo DEF CreateDownJob, Pcs, Launching
  <2> QED BY <1>1, <2>1, <2>2 DEF CreateDownJob
<1>2. CASE MuxBegin(p)
  BY <1>0, <1>2, CreatesRecord DEF MuxBegin, Pcs, Muxing
<1>3. CASE MuxCreatesAgain(p)
  <2>1. CASE rec.id # 0
    BY <1>0, <1>3, <2>1, FreshTo DEF MuxCreatesAgain
  <2>2. CASE rec.id = 0
    BY <1>0, <1>3, <2>2, CreatesRecord DEF MuxCreatesAgain, Pcs, Muxing
  <2> QED BY <2>1, <2>2
<1> QED BY <1>1, <1>2, <1>3

\* The steps that hold a PID lock, let go of it, or remove a record.
Locks(p) ==
    /\ UNCHANGED <<kind, tick, slow, ids, mon, events, ended, rec, never, jobLock>>
    /\ \/ /\ proc[p].pc = "hold" /\ pidLock[proc[p].seen] = Nobody /\ Taken(proc[p].seen, p)
          /\ To(p, "remove", proc[p].id, proc[p].seen, proc[p].req)
       \/ /\ pidLock[proc[p].id] = Nobody /\ Taken(proc[p].id, p)
          /\ \/ /\ proc[p].pc = "cleanup" /\ kind = "down"
                /\ To(p, "cleanupRemove", proc[p].id, proc[p].seen, proc[p].req)
             \/ /\ proc[p].pc = "probeHold"
                /\ To(p, "probeRelease", proc[p].id, proc[p].seen, proc[p].req)
Yields(p) ==
    /\ UNCHANGED <<kind, tick, slow, ids, mon, events, ended, rec, never, pidLock>>
    /\ \/ /\ proc[p].pc = "hold" /\ pidLock[proc[p].seen] # Nobody /\ jobLock' = Nobody
          /\ To(p, "follow", proc[p].seen, 0, 0)
       \/ proc[p].pc = "cleanup" /\ Unlocks(p) /\ To(p, "idle", 0, 0, 0)
       \/ /\ proc[p].pc = "probeHold" /\ Unlocks(p)
          /\ To(p, "follow", proc[p].id, proc[p].seen, proc[p].req)
\* The record i has no name any more.
Drops(i) == (rec.id = i /\ RecIs(0, "none", 0, -1)) \/ (rec.id # i /\ rec' = rec)
Removes(p) ==
    /\ UNCHANGED <<kind, tick, slow, ids, mon, events, ended, never>>
    /\ \/ /\ proc[p].pc = "remove" /\ Let(p) /\ UNCHANGED jobLock /\ Drops(proc[p].seen)
          /\ To(p, "create", proc[p].id, 0, proc[p].req)
       \/ /\ proc[p].pc = "cleanupRemove" /\ Let(p) /\ Unlocks(p) /\ Drops(proc[p].id)
          /\ To(p, "idle", 0, 0, 0)
       \/ /\ proc[p].pc = "muxRemove" /\ UNCHANGED <<jobLock, pidLock>> /\ Drops(proc[p].seen)
          /\ To(p, "create", proc[p].id, 0, proc[p].req)
Releases(p) ==
    /\ UNCHANGED <<kind, tick, slow, ids, mon, events, ended, rec>> /\ Let(p) /\ Unlocks(p)
    /\ \/ /\ proc[p].pc = "probeRelease" /\ never' = never \cup {proc[p].id}
          /\ To(p, "done", 0, 0, 0) /\ proc'[p].got = "notstarted"
       \/ UNCHANGED never /\ To(p, "idle", 0, 0, 0)
Holding(p) == Locks(p) \/ Yields(p) \/ Removes(p) \/ Releases(p)

LEMMA Holds ==
    ASSUME Typed, ProcInv, NEW p \in Procs,
           HoldOrReuse(p) \/ Cleanup(p) \/ ProbeHolds(p) \/ RemoveRecord(p) \/ CleanupRemoves(p)
             \/ ProbeReleases(p) \/ MuxRemoves(p) \/ Dies(p)
    PROVE  Holding(p)
<1> USE DEF Holding, Locks, Yields, Removes, Releases
<1> USE DEF At, Rest, MonVars
<1>0. proc[p].id \in 0 .. MaxIds /\ proc[p].seen \in 0 .. MaxIds
  BY DEF Typed, ProcType
<1>b. /\ proc[p].pc \in Seeing => proc[p].seen \in Ids
      /\ proc[p].pc \in Owning => proc[p].id \in Ids
      /\ "hold" \in Seeing /\ "cleanup" \in Owning /\ "probeHold" \in Owning
  BY Fields, BoundNat DEF ProcInv, ProcOf, Ids, Seeing, Owning
<1>1. CASE HoldOrReuse(p)
  <2>1. CASE pidLock[proc[p].seen] = Nobody
    BY <1>1, <2>1, <1>b, GoesTo, TakesLock DEF HoldOrReuse, Pcs, Launching
  <2>2. CASE pidLock[proc[p].seen] # Nobody
    BY <1>0, <1>1, <2>2, AnswersTo DEF HoldOrReuse
  <2> QED BY <2>1, <2>2
<1>2. CASE Cleanup(p)
  <2>1. CASE kind = "down" /\ pidLock[proc[p].id] = Nobody
    BY <1>2, <2>1, <1>b, GoesTo, TakesLock DEF Cleanup, Pcs, Launching
  <2>2. CASE ~(kind = "down" /\ pidLock[proc[p].id] = Nobody)
    BY <1>2, <2>2, FreshTo DEF Cleanup, Fails, Unlocks
  <2> QED BY <2>1, <2>2
<1>3. CASE ProbeHolds(p)
  <2>1. CASE pidLock[proc[p].id] = Nobody
    BY <1>3, <2>1, <1>b, GoesTo, TakesLock DEF ProbeHolds, Pcs, Launching
  <2>2. CASE pidLock[proc[p].id] # Nobody
    BY <1>3, <2>2, GoesTo DEF ProbeHolds, Pcs, Muxing, Unlocks, Unlocked
  <2> QED BY <2>1, <2>2
<1>a. ASSUME NEW i, rec' = Deleted(i)
      PROVE  Drops(i)
  BY <1>a, NoRecIs DEF Deleted, Drops
<1>4. CASE RemoveRecord(p)
  <2>1. To(p, "create", proc[p].id, 0, proc[p].req)
    BY <1>4, SeesTo, BoundNat DEF RemoveRecord, Pcs, Launching
  <2> QED BY <1>4, <1>a, <2>1, LetsGo DEF RemoveRecord
<1>5. CASE CleanupRemoves(p)
  BY <1>5, <1>a, FreshTo, LetsGo DEF CleanupRemoves, Fails, Unlocks
<1>6. CASE ProbeReleases(p)
  BY <1>6, VerdictTo, LetsGo DEF ProbeReleases, Unlocks, Unlocked
<1>7. CASE MuxRemoves(p)
  <2>1. To(p, "create", proc[p].id, 0, proc[p].req)
    BY <1>7, SeesTo, BoundNat DEF MuxRemoves, Pcs, Launching
  <2> QED BY <1>7, <1>a, <2>1 DEF MuxRemoves
<1>8. CASE Dies(p)
  BY <1>8, FreshTo, LetsGo DEF Dies, Unlocks
<1> QED BY <1>1, <1>2, <1>3, <1>4, <1>5, <1>6, <1>7, <1>8

\* The two steps of Start, and the state row before them.
Inserts(p) ==
    /\ UNCHANGED <<kind, tick, slow, never, ids, pidLock, events, ended, mon>> /\ proc[p].pc = "insert"
    /\ \/ /\ UNCHANGED jobLock
          /\ \/ rec.id = proc[p].id /\ RecIs(rec.id, "created", rec.made, rec.started)
             \/ rec.id # proc[p].id /\ rec' = rec
          /\ To(p, "start", proc[p].id, proc[p].seen, proc[p].req)
       \/ /\ UNCHANGED rec /\ (Unlocks(p) \/ UNCHANGED jobLock)
          /\ To(p, "idle", 0, 0, 0)
Spawns(p) ==
    /\ UNCHANGED <<kind, tick, slow, never, ids, pidLock, events, ended, rec, jobLock>>
    /\ proc[p].pc = "start" /\ MonIs(proc[p].id, "spawned")
    /\ To(p, "await", proc[p].id, proc[p].seen, proc[p].req)
Starting(p) == Inserts(p) \/ Spawns(p)

LEMMA Starts ==
    ASSUME Typed, ProcInv, NEW p \in Procs, CreateState(p) \/ StartSpawns(p)
    PROVE  Starting(p)
<1> USE DEF Starting, Inserts, Spawns
<1> USE DEF At, Rest, MonVars
<1>1. CASE CreateState(p)
  <2>1. CASE Recorded(proc[p].id, "created") /\ Goes(p, "start") /\ UNCHANGED faults
    <3>1. \/ rec.id = proc[p].id /\ RecIs(rec.id, "created", rec.made, rec.started)
          \/ rec.id # proc[p].id /\ rec' = rec
      BY <2>1, StateIs DEF Recorded, RecStates
    <3> QED BY <1>1, <2>1, <3>1, GoesTo DEF CreateState, Pcs, Launching
  <2>2. CASE /\ faults < MaxFaults /\ faults' = faults + 1 /\ UNCHANGED rec
             /\ proc' = [proc EXCEPT ![p] = Fresh]
    <3>1. Unlocks(p) \/ UNCHANGED jobLock
      BY <1>1 DEF CreateState, Unlocks
    <3> QED BY <1>1, <2>2, <3>1, FreshTo DEF CreateState
  <2> QED BY <1>1, <2>1, <2>2 DEF CreateState
<1>2. CASE StartSpawns(p)
  <2>1. proc[p].id \in Ids
    BY <1>2, Fields, BoundNat DEF StartSpawns, ProcInv, ProcOf, Owning, Ids
  <2> QED BY <1>2, <2>1, GoesTo, MonGoes DEF StartSpawns, Pcs, Launching, MonStates
<1> QED BY <1>1, <1>2

\* The steps of a monitor.
Comes(i) ==
    /\ UNCHANGED <<kind, ids, jobLock, tick, proc, never, rec, events, ended>>
    /\ mon[i] = "spawned" /\ slow' = (slow \/ ~Awaited(i))
    /\ \/ pidLock[i] = Nobody /\ MonIs(i, "locked") /\ Taken(i, "mon")
       \/ MonIs(i, "left") /\ UNCHANGED pidLock
Claims(i) ==
    /\ UNCHANGED <<kind, ids, jobLock, tick, proc, never, events, ended, slow, pidLock>>
    /\ \/ /\ mon[i] = "locked" /\ rec.id = i /\ MonIs(i, "starting")
          /\ RecIs(i, "starting", rec.made, rec.started)
       \/ /\ mon[i] = "starting" /\ MonIs(i, "running")
          /\ (rec.id = i /\ RecIs(i, "running", rec.made, tick)) \/ (rec.id # i /\ rec' = rec)
Ends(i) ==
    /\ UNCHANGED <<kind, ids, jobLock, tick, proc, never, rec, pidLock, slow>>
    /\ mon[i] \in {"starting", "running"} /\ MonIs(i, "over")
    /\ ended' \in [Ids -> {"none", "exited", "failed"}] /\ \A j \in Ids : j # i => ended'[j] = ended[j]
    /\ \E c \in {"exited", "failed"} : ended'[i] = c /\ events' = events \cup {<<i, c>>}
Records(i) ==
    /\ UNCHANGED <<kind, ids, jobLock, tick, proc, never, pidLock, events, ended, slow>>
    /\ \/ /\ mon[i] = "over"
          /\ (kind = "muxop" /\ MonIs(i, "removing")) \/ MonIs(i, "leaving")
          /\ (rec.id = i /\ RecIs(i, ended[i], rec.made, rec.started)) \/ (rec.id # i /\ rec' = rec)
       \/ mon[i] = "removing" /\ MonIs(i, "leaving") /\ Drops(i)
Leaves(i) ==
    /\ UNCHANGED <<kind, ids, jobLock, tick, proc, never, rec, events, ended, slow>>
    /\ \/ mon[i] = "locked" /\ rec.id # i /\ MonIs(i, "left") /\ Taken(i, Nobody)
       \/ mon[i] = "leaving" /\ MonIs(i, "left") /\ Taken(i, Nobody)
       \/ /\ mon[i] \notin {"none", "left", "dead"} /\ MonIs(i, "dead")
          /\ Taken(i, IF pidLock[i] = "mon" THEN Nobody ELSE pidLock[i])
Monitoring(i) == Comes(i) \/ Claims(i) \/ Ends(i) \/ Records(i) \/ Leaves(i)

LEMMA Monitors ==
    ASSUME Typed, NEW i \in Ids, Monitor(i) \/ MonKilled(i)
    PROVE  Monitoring(i)
<1> USE DEF Monitoring
<1> USE MonGoes, TakesLock DEF Others, MonStates
<1>1. CASE MonLocks(i)
  <2>1. Comes(i)
    BY <1>1 DEF MonLocks, Comes
  <2> QED BY <2>1
<1>2. CASE MonClaims(i)
  <2>1. CASE rec.id # i
    BY <1>2, <2>1 DEF MonClaims, Leaves
  <2>2. CASE rec.id = i
    BY <1>2, <2>2, StateIs DEF MonClaims, Claims, RecStates
  <2> QED BY <2>1, <2>2
<1>3. CASE MonRuns(i)
  <2>1. CASE rec.id = i
    <3>1. RecIs(i, "running", rec.made, tick)
      BY <1>3, <2>1 DEF MonRuns, Typed, RecIs, RecType, RecStates
    <3> QED BY <1>3, <2>1, <3>1 DEF MonRuns, Claims
  <2>2. CASE rec.id # i
    BY <1>3, <2>2 DEF MonRuns, Claims
  <2> QED BY <2>1, <2>2
<1>4. ASSUME NEW c \in {"exited", "failed"}, MonEnds(i, c) PROVE Monitoring(i)
  <2>1. /\ ended' \in [Ids -> {"none", "exited", "failed"}] /\ ended'[i] = c
        /\ \A j \in Ids : j # i => ended'[j] = ended[j]
    BY <1>4 DEF MonEnds, Typed
  <2> QED BY <1>4, <2>1 DEF MonEnds, Ends
<1>5. CASE MonRecords(i)
  <2>1. ended[i] \in RecStates
    BY DEF Typed, RecStates
  <2>2. (rec.id = i /\ RecIs(i, ended[i], rec.made, rec.started)) \/ (rec.id # i /\ rec' = rec)
    BY <1>5, <2>1, StateIs DEF MonRecords, Recorded
  <2>3. (kind = "muxop" /\ MonIs(i, "removing")) \/ MonIs(i, "leaving")
    BY <1>5 DEF MonRecords
  <2> QED BY <1>5, <2>2, <2>3 DEF MonRecords, Records
<1>6. CASE MonRemoves(i)
  BY <1>6, NoRecIs DEF MonRemoves, Records, Drops
<1>7. CASE MonLeaves(i)
  BY <1>7 DEF MonLeaves, Leaves
<1>8. CASE MonKilled(i)
  <2>1. pidLock[i] \in Procs \cup {Nobody, "mon"}
    BY DEF Typed
  <2>2. Taken(i, IF pidLock[i] = "mon" THEN Nobody ELSE pidLock[i])
    BY <1>8, <2>1 DEF MonKilled
  <2> QED BY <1>8, <2>2 DEF MonKilled, Leaves
<1> QED BY <1>1, <1>2, <1>3, <1>4, <1>5, <1>6, <1>7, <1>8 DEF Monitor

-----------------------------------------------------------------------------
(* The invariant, as a step from one state uses it: what is known of an    *)
(* invocation, of a monitor and of the record.                             *)

KnowsProc(p) ==
    /\ proc[p].id \in Nat /\ proc[p].seen \in Nat /\ proc[p].req \in Nat
    /\ ProcOf(p) /\ HoldsFile(p) /\ HoldsPid(p) /\ LetsPid(p) /\ MadeRec(p) /\ HeldRec(p)
    /\ NoMonYet(p) /\ Leftover(p)
KnowsMon(i) ==
    /\ mon[i] \in MonStates /\ ended[i] \in {"none", "exited", "failed"}
    /\ MonHolds(i) /\ Unused(i) /\ EndOf(i) /\ HasName(i)
KnowsRec ==
    /\ ids \in Nat /\ ids <= MaxIds /\ MaxIds \in Nat /\ tick \in Nat
    /\ rec.id \in Nat /\ rec.id <= ids /\ rec.made \in Nat /\ rec.started \in Int
    /\ rec.state \in RecStates /\ (rec.id = 0 <=> rec.state = "none") /\ kind \in {"down", "muxop"}
    /\ slow \in BOOLEAN
    /\ rec.id # 0 => rec.id \in Ids /\ RecMon /\ KnowsMon(rec.id)
    /\ YoungRec /\ TimeInv /\ (ids + 1 \in Ids => Unused(ids + 1))
    /\ Nobody \notin Procs /\ "mon" \notin Procs \cup {Nobody}

LEMMA Known ==
    ASSUME JobInv
    PROVE  KnowsRec /\ (\A p \in Procs : KnowsProc(p)) /\ (\A i \in Ids : KnowsMon(i))
<1>0. Typed
  BY DEF JobInv
<1>1. ASSUME NEW i \in Ids PROVE KnowsMon(i)
  <2>1. mon[i] \in MonStates /\ ended[i] \in {"none", "exited", "failed"}
    BY <1>0 DEF Typed
  <2> QED BY <2>1 DEF KnowsMon, JobInv, LockInv, MonInv, EndsInv, WorkInv
<1>2. ASSUME NEW p \in Procs PROVE KnowsProc(p)
  <2>1. proc[p].id \in Nat /\ proc[p].seen \in Nat /\ proc[p].req \in Nat
    BY <1>0, Fields
  <2> QED BY <2>1 DEF KnowsProc, JobInv, ProcInv, LockInv, RecInv, MonInv, MuxInv
<1>3. KnowsRec
  <2>1. rec.id <= ids /\ slow \in BOOLEAN
    BY <1>0 DEF Typed
  <2>2. rec.id # 0 => RecMon
    BY DEF JobInv, MonInv
  <2>3. ids + 1 \in Ids => Unused(ids + 1)
    BY DEF JobInv, MonInv
  <2> QED BY <1>0, <1>1, <2>1, <2>2, <2>3, Fields, BoundNat, DetachedJobAssumption DEF KnowsRec, JobInv, MuxInv
<1> QED BY <1>1, <1>2, <1>3

\* Nothing the invariant speaks of changes: an orphan ends, or nothing at all does.
Still == UNCHANGED <<kind, cmdVars, jobLock, tick, proc, slow, never>>

\* A step is one of these.
LEMMA Steps ==
    ASSUME Typed, ProcInv, [Next]_vars
    PROVE  \/ \E p \in Procs : Walking(p) \/ Listing(p) \/ Making(p) \/ Holding(p) \/ Starting(p)
           \/ \E i \in Ids : Monitoring(i)
           \/ Tick \/ Still
<1>1. ASSUME NEW p \in Procs, Invoke(p) \/ Launch(p) \/ Follow(p) \/ Dies(p)
      PROVE  Walking(p) \/ Listing(p) \/ Making(p) \/ Holding(p) \/ Starting(p)
  BY <1>1, WalksOn, Lists, Makes, Holds, Starts DEF Invoke, Launch, Follow
<1>2. ASSUME UNCHANGED vars \/ \E i \in Ids : OrphanEnds(i) PROVE Still
  BY <1>2 DEF Still, vars, OrphanEnds
<1> QED BY <1>1, <1>2, Monitors DEF Next

-----------------------------------------------------------------------------
(* What the steps keep.                                                    *)

LEMMA TypedKept ==
    ASSUME JobInv, \/ \E p \in Procs : Walking(p) \/ Listing(p) \/ Making(p) \/ Holding(p) \/ Starting(p)
                   \/ \E i \in Ids : Monitoring(i)
                   \/ Tick
    PROVE  Typed'
<1>0. Typed /\ KnowsRec
  BY Known DEF JobInv
<1> USE <1>0 DEF Typed
<1>1. ASSUME NEW p \in Procs, Walking(p) PROVE Typed'
  BY <1>1 DEF Walking, To, cmdVars
<1>2. ASSUME NEW p \in Procs, Listing(p) PROVE Typed'
  <2>1. rec' \in RecType /\ rec'.id <= ids' /\ (rec'.id = 0 <=> rec'.state = "none")
    BY <1>2 DEF Listing, Settles, RecIs, KnowsRec, Active
  <2>2. jobLock' \in Procs \cup {Nobody} /\ proc' \in [Procs -> ProcType]
    BY <1>2 DEF Listing, To
  <2> QED BY <1>2, <2>1, <2>2 DEF Listing
<1>3. ASSUME NEW p \in Procs, Making(p) PROVE Typed'
  <2>1. ids' \in 0 .. MaxIds /\ rec' \in RecType /\ rec'.id <= ids' /\ (rec'.id = 0 <=> rec'.state = "none")
    BY <1>3 DEF Making, Registers, NameTaken, RecIs, Ids, KnowsRec
  <2>2. proc' \in [Procs -> ProcType]
    BY <1>3 DEF Making, Registers, NameTaken, To
  <2> QED BY <1>3, <2>1, <2>2 DEF Making, Registers, NameTaken
<1>4. ASSUME NEW p \in Procs, Holding(p) PROVE Typed'
  <2>1. CASE Locks(p)
    BY <2>1 DEF Locks, To, Taken
  <2>2. CASE Yields(p)
    BY <2>2 DEF Yields, To, Unlocks
  <2>3. CASE Removes(p)
    BY <2>3 DEF Removes, To, Let, Unlocks, Drops, RecIs
  <2>4. CASE Releases(p)
    <3>1. proc[p].pc = "probeRelease" => proc[p].id \in Ids
      BY DEF JobInv, ProcInv, ProcOf, Owning, Ids, KnowsRec
    <3>2. jobLock' \in Procs \cup {Nobody} /\ never' \subseteq Ids
      BY <2>4, <3>1 DEF Releases, Unlocks
    <3> QED BY <2>4, <3>2 DEF Releases, To, Let
  <2> QED BY <1>4, <2>1, <2>2, <2>3, <2>4 DEF Holding
<1>5. ASSUME NEW p \in Procs, Starting(p) PROVE Typed'
  <2>1. CASE Inserts(p)
    <3>1. rec' \in RecType /\ rec'.id <= ids /\ (rec'.id = 0 <=> rec'.state = "none")
      BY <2>1 DEF Inserts, RecIs, KnowsRec, JobInv, ProcInv, ProcOf, Owning
    <3> QED BY <2>1, <3>1 DEF Inserts, To, Unlocks
  <2>2. CASE Spawns(p)
    BY <2>2 DEF Spawns, To, MonIs
  <2> QED BY <1>5, <2>1, <2>2 DEF Starting
<1>6. ASSUME NEW i \in Ids, Monitoring(i) PROVE Typed'
  <2>1. CASE Comes(i)
    BY <2>1 DEF Comes, MonIs, Taken
  <2>2. CASE Claims(i)
    BY <2>2 DEF Claims, MonIs, RecIs, Ids
  <2>3. CASE Ends(i)
    BY <2>3 DEF Ends, MonIs
  <2>4. CASE Records(i)
    <3>1. mon[i] = "over" => ended[i] # "none"
      BY DEF JobInv, EndsInv, EndOf
    <3>2. rec' \in RecType /\ rec'.id <= ids /\ (rec'.id = 0 <=> rec'.state = "none")
      BY <2>4, <3>1 DEF Records, Drops, RecIs, Ids, KnowsRec
    <3> QED BY <2>4, <3>2 DEF Records, MonIs
  <2>5. CASE Leaves(i)
    BY <2>5 DEF Leaves, MonIs, Taken
  <2> QED BY <1>6, <2>1, <2>2, <2>3, <2>4, <2>5 DEF Monitoring
<1>7. CASE Tick
  BY <1>7 DEF Tick, cmdVars
<1> QED BY <1>1, <1>2, <1>3, <1>4, <1>5, <1>6, <1>7

LEMMA ApartKept ==
    ASSUME JobInv, NEW q \in Procs, NEW r \in Procs,
           \/ \E p \in Procs : Walking(p) \/ Listing(p) \/ Making(p) \/ Holding(p) \/ Starting(p)
           \/ \E i \in Ids : Monitoring(i)
           \/ Tick
    PROVE  Apart(q, r)'
<1>0. KnowsRec /\ KnowsProc(q) /\ KnowsProc(r) /\ Apart(q, r) /\ Apart(r, q)
  BY Known DEF JobInv, OneMaker
<1>1. CASE proc' = proc
  BY <1>0, <1>1 DEF Apart
<1>2. ASSUME NEW p \in Procs, Walking(p) \/ Listing(p) \/ Making(p) \/ Holding(p) \/ Starting(p),
             proc'[p].pc \in {"insert", "start", "muxRead", "muxRemove"}
      PROVE  Apart(q, r)'
  <2>0. KnowsProc(p) /\ Apart(p, q) /\ Apart(q, p) /\ Apart(p, r) /\ Apart(r, p)
    BY Known DEF JobInv, OneMaker
  <2>1. CASE Walking(p)
    BY <1>0, <1>2, <2>0, <2>1 DEF Walking, To, Apart
  <2>2. CASE Listing(p)
    <3>1. proc[p].pc = "inspect" /\ proc'[p].pc = "muxRead" /\ \A x \in Procs : x # p => proc'[x] = proc[x]
      BY <1>2, <2>2 DEF Listing, To
    <3>2. proc'[p].seen = rec'.id /\ rec'.state \notin {"none", "half"} /\ ~LiveRecord(rec')
      BY <2>2, <3>1 DEF Listing, To
    <3>3. kind = "muxop"
      BY <2>0, <3>1, <1>0 DEF KnowsProc, KnowsRec, ProcOf
    <3>4. rec' = rec
      BY <1>0, <2>2, <3>2, <3>3 DEF Listing, Settles, RecIs
    <3>5. tick' = tick
      BY <2>2 DEF Listing
    <3>6. ASSUME NEW x \in Procs, KnowsProc(x), proc[x].pc \in {"insert", "start"} PROVE proc[x].id # rec.id
      BY <3>2, <3>3, <3>4, <3>6 DEF KnowsProc, MadeRec, LiveRecord
    <3> QED BY <1>0, <2>0, <3>1, <3>2, <3>4, <3>6 DEF Apart
  <2>3. CASE Making(p)
    BY <1>0, <1>2, <2>0, <2>3 DEF Making, Registers, NameTaken, To, Apart, KnowsRec, KnowsProc, MadeRec, ProcOf, Owning, Seeing
  <2>4. CASE Holding(p)
    BY <1>0, <1>2, <2>0, <2>4 DEF Holding, Locks, Yields, Removes, Releases, To, Apart
  <2>5. CASE Starting(p)
    BY <1>0, <1>2, <2>0, <2>5 DEF Starting, Inserts, Spawns, To, Apart
  <2> QED BY <1>2, <2>1, <2>2, <2>3, <2>4, <2>5
<1>3. ASSUME NEW p \in Procs, Walking(p) \/ Listing(p) \/ Making(p) \/ Holding(p) \/ Starting(p),
             proc'[p].pc \notin {"insert", "start", "muxRead", "muxRemove"}
      PROVE  Apart(q, r)'
  <2>1. \A x \in Procs : x # p => proc'[x] = proc[x]
    BY <1>3 DEF Walking, Listing, Making, Registers, NameTaken, Holding, Locks, Yields, Removes, Releases,
                Starting, Inserts, Spawns, To
  <2> QED BY <1>0, <1>3, <2>1 DEF Apart
<1>4. ASSUME NEW i \in Ids, Monitoring(i) PROVE proc' = proc
  BY <1>4 DEF Monitoring, Comes, Claims, Ends, Records, Leaves
<1> QED BY <1>1, <1>2, <1>3, <1>4 DEF Tick

LEMMA NeverKept ==
    ASSUME JobInv, NEW j \in never',
           \/ \E p \in Procs : Walking(p) \/ Listing(p) \/ Making(p) \/ Holding(p) \/ Starting(p)
           \/ \E i \in Ids : Monitoring(i)
           \/ Tick
    PROVE  NeverOf(j)'
<1>0. KnowsRec /\ (j \in never => j \in Ids /\ KnowsMon(j) /\ NeverOf(j))
  BY Known DEF JobInv, NeverInv, Typed
<1>1. ASSUME NEW p \in Procs, Walking(p) \/ Listing(p) \/ Making(p) \/ Holding(p) \/ Starting(p)
      PROVE  NeverOf(j)'
  <2>0. KnowsProc(p)
    BY Known
  <2>1. CASE Walking(p)
    BY <1>0, <2>0, <2>1 DEF Walking, To, cmdVars, NeverOf
  <2>2. CASE Listing(p)
    BY <1>0, <2>0, <2>2 DEF Listing, To, NeverOf
  <2>3. CASE Making(p)
    BY <1>0, <2>0, <2>3 DEF Making, Registers, NameTaken, To, NeverOf, KnowsRec, Ids
  <2>4. CASE Locks(p) \/ Yields(p) \/ Removes(p)
    BY <1>0, <2>0, <2>4 DEF Locks, Yields, Removes, To, NeverOf
  <2>5. CASE Releases(p)
    <3>1. CASE j \in never
      BY <1>0, <2>5, <3>1 DEF Releases, To, NeverOf
    <3>2. CASE j \notin never
      <4>1. proc[p].pc = "probeRelease" /\ j = proc[p].id /\ proc'[p].pc = "done"
        BY <2>5, <3>2 DEF Releases, To
      <4>2. j \in Ids /\ j <= ids /\ kind = "down"
        BY <1>0, <2>0, <4>1 DEF KnowsProc, KnowsRec, ProcOf, Owning, Muxing, Ids
      <4>3. KnowsMon(j) /\ pidLock[j] = p
        BY <2>0, <4>1, <4>2, Known DEF KnowsProc, HoldsPid
      <4>4. mon[j] \in {"none", "spawned", "left", "dead"}
        BY <1>0, <4>3 DEF KnowsMon, MonHolds, MonStates, KnowsRec
      <4>5. ASSUME NEW q \in Procs, proc'[q].pc \in {"insert", "start", "await"} PROVE FALSE
        <5>1. q # p /\ proc'[q] = proc[q]
          BY <2>5, <4>1, <4>5 DEF Releases, To
        <5>2. KnowsProc(q)
          BY Known
        <5> QED BY <2>0, <4>1, <4>2, <4>5, <5>1, <5>2 DEF KnowsProc, HoldsFile, Launching
      <4> QED BY <2>5, <4>2, <4>4, <4>5 DEF NeverOf, Releases
    <3> QED BY <3>1, <3>2
  <2>6. CASE Starting(p)
    BY <1>0, <2>0, <2>6 DEF Starting, Inserts, Spawns, To, NeverOf, MonIs
  <2> QED BY <1>1, <2>1, <2>2, <2>3, <2>4, <2>5, <2>6 DEF Holding
<1>2. ASSUME NEW i \in Ids, Monitoring(i) PROVE NeverOf(j)'
  <2>0. KnowsMon(i) /\ j \in never
    BY <1>2, Known DEF Monitoring, Comes, Claims, Ends, Records, Leaves
  <2>1. CASE Comes(i)
    <3>1. CASE j = i /\ ~slow
      <4>1. ~Awaited(i)
        BY <1>0, <2>0, <3>1 DEF NeverOf, Awaited
      <4>2. slow'
        BY <2>1, <4>1 DEF Comes
      <4> QED BY <1>0, <2>0, <2>1, <4>2 DEF NeverOf, Comes
    <3>2. CASE slow
      BY <1>0, <2>0, <2>1, <3>2 DEF NeverOf, Comes
    <3>3. CASE j # i /\ ~slow
      BY <1>0, <2>0, <2>1, <3>3 DEF NeverOf, Comes, MonIs
    <3> QED BY <3>1, <3>2, <3>3
  <2>2. CASE Claims(i) \/ Ends(i) \/ Records(i) \/ Leaves(i)
    BY <1>0, <2>0, <2>2 DEF NeverOf, Claims, Ends, Records, Leaves, MonIs
  <2> QED BY <1>2, <2>1, <2>2 DEF Monitoring
<1>3. CASE Tick
  BY <1>0, <1>3 DEF Tick, cmdVars, NeverOf, KnowsRec
<1> QED BY <1>1, <1>2, <1>3
\* What a step has to keep, of an invocation, of a monitor and of the record.
KeepsProc(p) ==
    /\ ProcOf(p) /\ HoldsFile(p) /\ HoldsPid(p) /\ LetsPid(p) /\ MadeRec(p) /\ HeldRec(p)
    /\ NoMonYet(p) /\ Leftover(p)
KeepsMon(i) == MonHolds(i) /\ Unused(i) /\ EndOf(i) /\ HasName(i)
KeepsRec == (rec.id # 0 => RecMon) /\ YoungRec /\ TimeInv
Keeps ==
    (\A p \in Procs : KeepsProc(p)') /\ (\A i \in Ids : KeepsMon(i)') /\ KeepsRec'

LEMMA WalkingKeeps ==
    ASSUME JobInv, NEW p \in Procs, Walking(p)
    PROVE  Keeps
<1>0. KnowsRec /\ KnowsProc(p)
  BY Known
<1>1. ASSUME NEW q \in Procs PROVE KeepsProc(q)'
  <2>0. KnowsProc(q) /\ Apart(p, q) /\ Apart(q, p)
    BY Known DEF JobInv, OneMaker
  <2>1. ProcOf(q)'
    BY <1>0, <2>0 DEF Walking, To, cmdVars, ProcOf, Muxing, Owning, Seeing, KnowsProc, KnowsRec
  <2>2. HoldsFile(q)'
    BY <1>0, <2>0 DEF Walking, To, cmdVars, HoldsFile, Launching, KnowsProc, KnowsRec
  <2>3. HoldsPid(q)'
    BY <1>0, <2>0 DEF Walking, To, cmdVars, HoldsPid, KnowsProc
  <2>4. LetsPid(q)'
    BY <1>0, <2>0 DEF Walking, To, cmdVars, LetsPid, KnowsProc
  <2>5. MadeRec(q)'
    BY <1>0, <2>0 DEF Walking, To, cmdVars, MadeRec, KnowsProc
  <2>6. HeldRec(q)'
    BY <1>0, <2>0 DEF Walking, To, cmdVars, HeldRec, Up, KnowsProc
  <2>7. NoMonYet(q)'
    BY <1>0, <2>0 DEF Walking, To, cmdVars, NoMonYet, KnowsProc
  <2>8. Leftover(q)'
    BY <1>0, <2>0 DEF Walking, To, cmdVars, Leftover, KnowsProc
  <2> QED BY <2>1, <2>2, <2>3, <2>4, <2>5, <2>6, <2>7, <2>8 DEF KeepsProc
<1>2. ASSUME NEW j \in Ids PROVE KeepsMon(j)'
  <2>0. KnowsMon(j)
    BY Known
  <2>1. MonHolds(j)'
    BY <1>0, <2>0 DEF Walking, To, cmdVars, MonHolds, KnowsMon
  <2>2. Unused(j)'
    BY <1>0, <2>0 DEF Walking, To, cmdVars, Unused, KnowsMon
  <2>3. EndOf(j)'
    BY <1>0, <2>0 DEF Walking, To, cmdVars, EndOf, KnowsMon
  <2>4. HasName(j)'
    BY <1>0, <2>0 DEF Walking, To, cmdVars, HasName, Supervised, KnowsMon
  <2> QED BY <2>1, <2>2, <2>3, <2>4 DEF KeepsMon
<1>3. KeepsRec'
  <2>1. (rec.id # 0 => RecMon)'
    BY <1>0 DEF Walking, To, cmdVars, RecMon, KnowsRec
  <2>2. YoungRec'
    BY <1>0 DEF Walking, To, cmdVars, YoungRec, KnowsRec
  <2>3. TimeInv'
    BY <1>0 DEF Walking, To, cmdVars, TimeInv, KnowsRec
  <2> QED BY <2>1, <2>2, <2>3 DEF KeepsRec
<1> QED BY <1>1, <1>2, <1>3 DEF Keeps

LEMMA ListingKeeps ==
    ASSUME JobInv, NEW p \in Procs, Listing(p)
    PROVE  Keeps
<1>0. KnowsRec /\ KnowsProc(p)
  BY Known
<1>1. ASSUME NEW q \in Procs PROVE KeepsProc(q)'
  <2>0. KnowsProc(q) /\ Apart(p, q) /\ Apart(q, p)
    BY Known DEF JobInv, OneMaker
  <2>1. ProcOf(q)'
    BY <1>0, <2>0 DEF Listing, To, Settles, RecIs, ProcOf, Muxing, Owning, Seeing, KnowsProc,
         KnowsRec, Active, Terminal
  <2>2. HoldsFile(q)'
    BY <1>0, <2>0 DEF Listing, To, Settles, RecIs, HoldsFile, ProcOf, Launching, KnowsProc
  <2>3. HoldsPid(q)'
    BY <1>0, <2>0 DEF Listing, To, Settles, RecIs, HoldsPid, KnowsProc
  <2>4. LetsPid(q)'
    BY <1>0, <2>0 DEF Listing, To, Settles, RecIs, LetsPid, KnowsProc
  <2>5. MadeRec(q)'
    BY <1>0, <2>0 DEF Listing, To, Settles, RecIs, MadeRec, KnowsProc, Active
  <2>6. HeldRec(q)'
    BY <1>0, <2>0 DEF Listing, To, Settles, RecIs, HeldRec, ProcOf, KnowsProc, Active
  <2>7. NoMonYet(q)'
    BY <1>0, <2>0 DEF Listing, To, Settles, RecIs, NoMonYet, KnowsProc
  <2>8. Leftover(q)'
    BY <1>0, <2>0 DEF Listing, To, Settles, RecIs, Leftover, YoungRec, RecMon, LiveRecord, KnowsProc,
         KnowsRec
  <2> QED BY <2>1, <2>2, <2>3, <2>4, <2>5, <2>6, <2>7, <2>8 DEF KeepsProc
<1>2. ASSUME NEW j \in Ids PROVE KeepsMon(j)'
  <2>0. KnowsMon(j)
    BY Known
  <2>1. MonHolds(j)'
    BY <1>0, <2>0 DEF Listing, To, Settles, RecIs, MonHolds, KnowsMon
  <2>2. Unused(j)'
    BY <1>0, <2>0 DEF Listing, To, Settles, RecIs, Unused, KnowsMon
  <2>3. EndOf(j)'
    BY <1>0, <2>0 DEF Listing, To, Settles, RecIs, EndOf, KnowsMon
  <2>4. HasName(j)'
    BY <1>0, <2>0 DEF Listing, To, Settles, RecIs, HasName, MonHolds, Supervised, KnowsMon, KnowsRec
  <2> QED BY <2>1, <2>2, <2>3, <2>4 DEF KeepsMon
<1>3. KeepsRec'
  <2>1. (rec.id # 0 => RecMon)'
    BY <1>0 DEF Listing, To, Settles, RecIs, RecMon, MonHolds, MonStates, KnowsMon, KnowsRec, Active
  <2>2. YoungRec'
    BY <1>0 DEF Listing, To, Settles, RecIs, YoungRec, KnowsRec
  <2>3. TimeInv'
    BY <1>0 DEF Listing, To, Settles, RecIs, TimeInv, KnowsRec
  <2> QED BY <2>1, <2>2, <2>3 DEF KeepsRec
<1> QED BY <1>1, <1>2, <1>3 DEF Keeps

LEMMA MakingKeeps ==
    ASSUME JobInv, NEW p \in Procs, Making(p)
    PROVE  Keeps
<1>0. KnowsRec /\ KnowsProc(p)
  BY Known
<1>1. ASSUME NEW q \in Procs PROVE KeepsProc(q)'
  <2>0. KnowsProc(q) /\ Apart(p, q) /\ Apart(q, p)
    BY Known DEF JobInv, OneMaker
  <2>1. ProcOf(q)'
    BY <1>0, <2>0 DEF Registers, NameTaken, Making, To, RecIs, ProcOf, Muxing, Owning, Seeing,
         KnowsProc, KnowsRec
  <2>2. HoldsFile(q)'
    BY <1>0, <2>0 DEF Registers, NameTaken, Making, To, RecIs, HoldsFile, Launching, KnowsProc
  <2>3. HoldsPid(q)'
    BY <1>0, <2>0 DEF Registers, NameTaken, Making, To, RecIs, HoldsPid, KnowsProc
  <2>4. LetsPid(q)'
    BY <1>0, <2>0 DEF Registers, NameTaken, Making, To, RecIs, LetsPid, ProcOf, Muxing, KnowsProc,
         KnowsRec
  <2>5. MadeRec(q)'
    BY <1>0, <2>0 DEF Registers, NameTaken, Making, To, RecIs, MadeRec, HoldsFile, Launching,
         KnowsProc, KnowsRec
  <2>6. HeldRec(q)'
    BY <1>0, <2>0 DEF Registers, NameTaken, Making, To, RecIs, HeldRec, ProcOf, HoldsFile, Launching,
         KnowsProc
  <2>7. NoMonYet(q)'
    BY <1>0, <2>0 DEF Registers, NameTaken, Making, To, RecIs, NoMonYet, Unused, KnowsProc, KnowsRec
  <2>8. Leftover(q)'
    BY <1>0, <2>0 DEF Registers, NameTaken, Making, To, RecIs, Leftover, KnowsProc
  <2> QED BY <2>1, <2>2, <2>3, <2>4, <2>5, <2>6, <2>7, <2>8 DEF KeepsProc
<1>2. ASSUME NEW j \in Ids PROVE KeepsMon(j)'
  <2>0. KnowsMon(j)
    BY Known
  <2>1. MonHolds(j)'
    BY <1>0, <2>0 DEF Registers, NameTaken, Making, To, RecIs, MonHolds, KnowsMon
  <2>2. Unused(j)'
    BY <1>0, <2>0 DEF Registers, NameTaken, Making, To, RecIs, Unused, Ids, KnowsMon, KnowsRec
  <2>3. EndOf(j)'
    BY <1>0, <2>0 DEF Registers, NameTaken, Making, To, RecIs, EndOf, KnowsMon
  <2>4. HasName(j)'
    BY <1>0, <2>0 DEF Registers, NameTaken, Making, To, RecIs, HasName, RecMon, HeldRec, Ids,
         Supervised, KnowsMon, KnowsProc, KnowsRec
  <2> QED BY <2>1, <2>2, <2>3, <2>4 DEF KeepsMon
<1>3. KeepsRec'
  <2>1. (rec.id # 0 => RecMon)'
    BY <1>0 DEF Registers, NameTaken, Making, To, RecIs, RecMon, Unused, KnowsRec
  <2>2. YoungRec'
    BY <1>0 DEF Registers, NameTaken, Making, To, RecIs, YoungRec, KnowsRec
  <2>3. TimeInv'
    BY <1>0 DEF Registers, NameTaken, Making, To, RecIs, TimeInv, KnowsRec
  <2> QED BY <2>1, <2>2, <2>3 DEF KeepsRec
<1> QED BY <1>1, <1>2, <1>3 DEF Keeps

LEMMA HoldingKeeps ==
    ASSUME JobInv, NEW p \in Procs, Holding(p)
    PROVE  Keeps
<1>0. KnowsRec /\ KnowsProc(p)
  BY Known
<1>1. ASSUME NEW q \in Procs PROVE KeepsProc(q)'
  <2>0. KnowsProc(q) /\ Apart(p, q) /\ Apart(q, p)
    BY Known DEF JobInv, OneMaker
  <2>a. /\ proc[q].pc \in Seeing => proc[q].seen \in Ids
        /\ proc[q].pc \in Owning => proc[q].id \in Ids
        /\ "remove" \in Seeing /\ {"cleanupRemove", "probeRelease"} \subseteq Owning
    BY <1>0, <2>0 DEF KnowsProc, KnowsRec, ProcOf, Seeing, Owning, Ids
  <2>1. ProcOf(q)'
    BY <1>0, <2>0 DEF Locks, Yields, Removes, Releases, Holding, To, Taken, Let, Unlocks, Drops,
         RecIs, ProcOf, Muxing, Owning, Seeing, KnowsProc, KnowsRec
  <2>2. HoldsFile(q)'
    BY <1>0, <2>0 DEF Locks, Yields, Removes, Releases, Holding, To, Taken, Let, Unlocks, Drops,
         RecIs, HoldsFile, ProcOf, Launching, KnowsProc
  <2>3. HoldsPid(q)'
    <3>1. CASE Locks(p) /\ q # p
      <4>1. \A x \in Ids : pidLock[x] = q => pidLock'[x] = q
        BY <1>0, <3>1 DEF Locks, Taken, KnowsRec
      <4>2. proc'[q] = proc[q]
        BY <3>1 DEF Locks, To
      <4> QED BY <2>0, <2>a, <4>1, <4>2 DEF HoldsPid, KnowsProc
    <3>2. CASE Locks(p) /\ q = p
      BY <1>0, <2>0, <3>2 DEF Locks, To, Taken, HoldsPid
    <3>3. CASE Yields(p)
      BY <1>0, <2>0, <3>3 DEF Yields, To, HoldsPid, KnowsProc
    <3>4. CASE Removes(p) \/ Releases(p)
      <4>1. CASE q # p
        BY <1>0, <2>0, <2>a, <3>4, <4>1 DEF Removes, Releases, To, Let, HoldsPid, KnowsProc
      <4>2. CASE q = p
        BY <1>0, <2>0, <3>4, <4>2 DEF Removes, Releases, To, HoldsPid
      <4> QED BY <4>1, <4>2
    <3> QED BY <3>1, <3>2, <3>3, <3>4 DEF Holding
  <2>4. LetsPid(q)'
    <3>1. CASE q = p
      BY <1>0, <2>0, <3>1 DEF Locks, Yields, Removes, Releases, Holding, To, Taken, Let, Unlocks,
           Drops, RecIs, LetsPid, KnowsProc, KnowsRec
    <3>2. CASE q # p
      BY <1>0, <2>0, <3>2 DEF Locks, Yields, Removes, Releases, Holding, To, Taken, Let, Unlocks,
           Drops, RecIs, LetsPid, KnowsProc, KnowsRec
    <3> QED BY <3>1, <3>2
  <2>5. MadeRec(q)'
    BY <1>0, <2>0 DEF Locks, Yields, Removes, Releases, Holding, To, Taken, Let, Unlocks, Drops,
         RecIs, MadeRec, ProcOf, HoldsFile, Apart, Launching, Muxing, KnowsProc, KnowsRec
  <2>6. HeldRec(q)'
    BY <1>0, <2>0 DEF Locks, Yields, Removes, Releases, Holding, To, Taken, Let, Unlocks, Drops,
         RecIs, HeldRec, ProcOf, HoldsFile, Launching, KnowsProc
  <2>7. NoMonYet(q)'
    BY <1>0, <2>0 DEF Locks, Yields, Removes, Releases, Holding, To, Taken, Let, Unlocks, Drops,
         RecIs, NoMonYet, KnowsProc
  <2>8. Leftover(q)'
    BY <1>0, <2>0 DEF Locks, Yields, Removes, Releases, Holding, To, Taken, Let, Unlocks, Drops,
         RecIs, Leftover, KnowsProc
  <2> QED BY <2>1, <2>2, <2>3, <2>4, <2>5, <2>6, <2>7, <2>8 DEF KeepsProc
<1>2. ASSUME NEW j \in Ids PROVE KeepsMon(j)'
  <2>0. KnowsMon(j)
    BY Known
  <2>1. MonHolds(j)'
    <3>1. CASE Locks(p)
      BY <1>0, <2>0, <3>1 DEF Locks, To, Taken, MonHolds, KnowsRec, KnowsMon
    <3>2. CASE Yields(p)
      BY <1>0, <2>0, <3>2 DEF Yields, To, Unlocks, MonHolds, KnowsMon
    <3>3. CASE Removes(p)
      BY <1>0, <2>0, <3>3 DEF Removes, To, Let, Unlocks, Drops, RecIs, MonHolds, KnowsRec, KnowsMon
    <3>4. CASE Releases(p)
      BY <1>0, <2>0, <3>4 DEF Releases, To, Let, Unlocks, MonHolds, KnowsRec, KnowsMon
    <3> QED BY <3>1, <3>2, <3>3, <3>4 DEF Holding
  <2>2. Unused(j)'
    BY <1>0, <2>0 DEF Locks, Yields, Removes, Releases, Holding, To, Taken, Let, Unlocks, Drops,
         RecIs, Unused, KnowsMon
  <2>3. EndOf(j)'
    BY <1>0, <2>0 DEF Locks, Yields, Removes, Releases, Holding, To, Taken, Let, Unlocks, Drops,
         RecIs, EndOf, KnowsMon
  <2>4. HasName(j)'
    BY <1>0, <2>0 DEF Locks, Yields, Removes, Releases, Holding, To, Taken, Let, Unlocks, Drops,
         RecIs, HasName, ProcOf, MonHolds, HoldsPid, Leftover, Supervised, KnowsMon, KnowsProc,
         KnowsRec
  <2> QED BY <2>1, <2>2, <2>3, <2>4 DEF KeepsMon
<1>3. KeepsRec'
  <2>1. (rec.id # 0 => RecMon)'
    BY <1>0 DEF Locks, Yields, Removes, Releases, Holding, To, Taken, Let, Unlocks, Drops, RecIs,
         RecMon, KnowsRec
  <2>2. YoungRec'
    BY <1>0 DEF Locks, Yields, Removes, Releases, Holding, To, Taken, Let, Unlocks, Drops, RecIs,
         YoungRec, KnowsRec
  <2>3. TimeInv'
    BY <1>0 DEF Locks, Yields, Removes, Releases, Holding, To, Taken, Let, Unlocks, Drops, RecIs,
         TimeInv, KnowsRec
  <2> QED BY <2>1, <2>2, <2>3 DEF KeepsRec
<1> QED BY <1>1, <1>2, <1>3 DEF Keeps

LEMMA StartingKeeps ==
    ASSUME JobInv, NEW p \in Procs, Starting(p)
    PROVE  Keeps
<1>0. KnowsRec /\ KnowsProc(p)
  BY Known
<1>1. ASSUME NEW q \in Procs PROVE KeepsProc(q)'
  <2>0. KnowsProc(q) /\ Apart(p, q) /\ Apart(q, p)
    BY Known DEF JobInv, OneMaker
  <2>1. ProcOf(q)'
    BY <1>0, <2>0 DEF Inserts, Spawns, Starting, To, RecIs, Unlocks, MonIs, ProcOf, Muxing, Owning,
         Seeing, KnowsProc, KnowsRec
  <2>2. HoldsFile(q)'
    BY <1>0, <2>0 DEF Inserts, Spawns, Starting, To, RecIs, Unlocks, MonIs, HoldsFile, Launching,
         KnowsProc
  <2>3. HoldsPid(q)'
    BY <1>0, <2>0 DEF Inserts, Spawns, Starting, To, RecIs, Unlocks, MonIs, HoldsPid, KnowsProc
  <2>4. LetsPid(q)'
    BY <1>0, <2>0 DEF Inserts, Spawns, Starting, To, RecIs, Unlocks, MonIs, LetsPid, KnowsProc
  <2>5. MadeRec(q)'
    BY <1>0, <2>0 DEF Inserts, Spawns, Starting, To, RecIs, Unlocks, MonIs, MadeRec, Apart,
         KnowsProc
  <2>6. HeldRec(q)'
    BY <1>0, <2>0 DEF Inserts, Spawns, Starting, To, RecIs, Unlocks, MonIs, HeldRec, HoldsFile,
         Launching, KnowsProc
  <2>7. NoMonYet(q)'
    BY <1>0, <2>0 DEF Inserts, Spawns, Starting, To, RecIs, Unlocks, MonIs, NoMonYet, Apart,
         KnowsProc
  <2>8. Leftover(q)'
    <3>1. CASE q = p
      BY <1>0, <2>0, <3>1 DEF Inserts, Spawns, Starting, To, RecIs, Unlocks, MonIs, Leftover
    <3>2. CASE q # p /\ Inserts(p)
      BY <1>0, <2>0, <3>2 DEF Inserts, To, RecIs, Unlocks, Leftover, ProcOf,
           Apart, Ids, Seeing, KnowsProc, KnowsRec, Active
    <3>3. CASE q # p /\ Spawns(p)
      BY <1>0, <2>0, <3>3 DEF Spawns, To, RecIs, Unlocks, MonIs, Leftover, ProcOf,
           Apart, Ids, Seeing, KnowsProc, KnowsRec, Active
    <3> QED BY <3>1, <3>2, <3>3 DEF Starting
  <2> QED BY <2>1, <2>2, <2>3, <2>4, <2>5, <2>6, <2>7, <2>8 DEF KeepsProc
<1>2. ASSUME NEW j \in Ids PROVE KeepsMon(j)'
  <2>0. KnowsMon(j)
    BY Known
  <2>1. MonHolds(j)'
    BY <1>0, <2>0 DEF Inserts, Spawns, Starting, To, RecIs, Unlocks, MonIs, MonHolds, NoMonYet,
         KnowsMon, KnowsProc
  <2>2. Unused(j)'
    BY <1>0, <2>0 DEF Inserts, Spawns, Starting, To, RecIs, Unlocks, MonIs, Unused, ProcOf, Owning,
         KnowsMon, KnowsProc, KnowsRec
  <2>3. EndOf(j)'
    BY <1>0, <2>0 DEF Inserts, Spawns, Starting, To, RecIs, Unlocks, MonIs, EndOf, NoMonYet,
         KnowsMon, KnowsProc
  <2>4. HasName(j)'
    BY <1>0, <2>0 DEF Inserts, Spawns, Starting, To, RecIs, Unlocks, MonIs, HasName, Supervised,
         KnowsMon
  <2> QED BY <2>1, <2>2, <2>3, <2>4 DEF KeepsMon
<1>3. KeepsRec'
  <2>1. (rec.id # 0 => RecMon)'
    BY <1>0 DEF Inserts, Spawns, Starting, To, RecIs, Unlocks, MonIs, RecMon, EndOf, MadeRec, Ids,
         Owning, MonStates, KnowsProc, KnowsRec, Terminal
  <2>2. YoungRec'
    BY <1>0 DEF Inserts, Spawns, Starting, To, RecIs, Unlocks, MonIs, YoungRec, MadeRec, KnowsProc
  <2>3. TimeInv'
    BY <1>0 DEF Inserts, Spawns, Starting, To, RecIs, Unlocks, MonIs, TimeInv, KnowsRec
  <2> QED BY <2>1, <2>2, <2>3 DEF KeepsRec
<1> QED BY <1>1, <1>2, <1>3 DEF Keeps

LEMMA MonitoringKeeps ==
    ASSUME JobInv, NEW i \in Ids, Monitoring(i)
    PROVE  Keeps
<1>0. KnowsRec /\ KnowsMon(i)
  BY Known
<1>1. ASSUME NEW q \in Procs PROVE KeepsProc(q)'
  <2>0. KnowsProc(q)
    BY Known
  <2>a. /\ proc[q].pc \in Seeing => proc[q].seen \in Ids
        /\ proc[q].pc \in Owning => proc[q].id \in Ids
        /\ "remove" \in Seeing /\ {"cleanupRemove", "probeRelease"} \subseteq Owning
    BY <1>0, <2>0 DEF KnowsProc, KnowsRec, ProcOf, Seeing, Owning, Ids
  <2>1. ProcOf(q)'
    BY <1>0, <2>0 DEF Comes, Claims, Ends, Records, Leaves, Monitoring, RecIs, Taken, MonIs, Drops,
         ProcOf, KnowsProc
  <2>2. HoldsFile(q)'
    BY <1>0, <2>0 DEF Comes, Claims, Ends, Records, Leaves, Monitoring, RecIs, Taken, MonIs, Drops,
         HoldsFile, KnowsProc
  <2>3. HoldsPid(q)'
    <3>1. \A x \in Ids : pidLock[x] = q => pidLock'[x] = q
      BY <1>0 DEF Monitoring, Comes, Claims, Ends, Records, Leaves, Taken, KnowsMon, MonHolds, KnowsRec
    <3>2. proc' = proc
      BY DEF Monitoring, Comes, Claims, Ends, Records, Leaves
    <3> QED BY <2>0, <2>a, <3>1, <3>2 DEF HoldsPid, KnowsProc
  <2>4. LetsPid(q)'
    BY <1>0, <2>0 DEF Comes, Claims, Ends, Records, Leaves, Monitoring, RecIs, Taken, MonIs, Drops,
         LetsPid, KnowsProc, KnowsRec
  <2>5. MadeRec(q)'
    BY <1>0, <2>0 DEF Comes, Claims, Ends, Records, Leaves, Monitoring, RecIs, Taken, MonIs, Drops,
         MadeRec, NoMonYet, KnowsProc
  <2>6. HeldRec(q)'
    <3>1. proc' = proc /\ kind' = kind
      BY DEF Monitoring, Comes, Claims, Ends, Records, Leaves
    <3>2. CASE rec' = rec
      BY <2>0, <3>1, <3>2 DEF HeldRec, KnowsProc
    <3>3. CASE Claims(i) /\ rec.id = i
      <4>1. /\ rec.state \in {"created", "starting"} /\ rec'.id = rec.id /\ rec'.made = rec.made
            /\ rec.state = "starting" => rec'.state = "running"
        BY <1>0, <3>3 DEF Claims, RecIs, KnowsRec, RecMon, Ids
      <4> QED BY <2>0, <3>1, <4>1 DEF HeldRec, KnowsProc
    <3>4. CASE Records(i) /\ rec.id = i /\ mon[i] = "over"
      <4>1. /\ rec.state \in Active /\ rec'.id = rec.id /\ rec'.made = rec.made
            /\ rec'.state \in {"exited", "failed"}
        BY <1>0, <3>4 DEF Records, RecIs, KnowsRec, RecMon, KnowsMon, EndOf, Ids
      <4> QED BY <2>0, <3>1, <4>1 DEF HeldRec, KnowsProc, Active
    <3>5. CASE mon[i] = "removing"
      BY <1>0, <3>1, <3>5 DEF HeldRec, KnowsMon, EndOf
    <3> QED BY <3>2, <3>3, <3>4, <3>5 DEF Monitoring, Comes, Claims, Ends, Records, Leaves, Drops
  <2>7. NoMonYet(q)'
    BY <1>0, <2>0 DEF Comes, Claims, Ends, Records, Leaves, Monitoring, RecIs, Taken, MonIs, Drops,
         NoMonYet, MadeRec, KnowsProc, KnowsRec
  <2>8. Leftover(q)'
    <3>1. ~slow' => ~slow
      BY <1>0 DEF Monitoring, Comes, Claims, Ends, Records, Leaves, KnowsRec
    <3>2. \/ mon[i] \in {"spawned", "locked", "starting", "running"}
          \/ mon'[i] \notin {"spawned", "locked", "starting", "running"}
      BY <1>0 DEF Monitoring, Comes, Claims, Ends, Records, Leaves, MonIs, KnowsMon, MonStates
    <3>3. kind' = kind /\ proc' = proc /\ \A x \in Ids : x # i => mon'[x] = mon[x]
      BY DEF Monitoring, Comes, Claims, Ends, Records, Leaves, MonIs
    <3>4. proc[q].pc \in {"muxRead", "muxRemove"} => proc[q].seen \in Ids
      BY <2>a DEF Seeing
    <3> QED BY <2>0, <3>1, <3>2, <3>3, <3>4 DEF Leftover, KnowsProc
  <2> QED BY <2>1, <2>2, <2>3, <2>4, <2>5, <2>6, <2>7, <2>8 DEF KeepsProc
<1>2. ASSUME NEW j \in Ids PROVE KeepsMon(j)'
  <2>0. KnowsMon(j)
    BY Known
  <2>1. MonHolds(j)'
    <3>1. CASE j = i
      BY <1>0, <2>0, <3>1 DEF Comes, Claims, Ends, Records, Leaves, Monitoring, RecIs, Taken, MonIs,
           Drops, MonHolds, KnowsRec, KnowsMon
    <3>2. CASE j # i
      BY <1>0, <2>0, <3>2 DEF Comes, Claims, Ends, Records, Leaves, Monitoring, RecIs, Taken, MonIs,
           Drops, MonHolds, KnowsMon
    <3> QED BY <3>1, <3>2
  <2>2. Unused(j)'
    BY <1>0, <2>0 DEF Comes, Claims, Ends, Records, Leaves, Monitoring, RecIs, Taken, MonIs, Drops,
         Unused, KnowsMon
  <2>3. EndOf(j)'
    BY <1>0, <2>0 DEF Comes, Claims, Ends, Records, Leaves, Monitoring, RecIs, Taken, MonIs, Drops,
         EndOf, KnowsMon
  <2>4. HasName(j)'
    BY <1>0, <2>0 DEF Comes, Claims, Ends, Records, Leaves, Monitoring, RecIs, Taken, MonIs, Drops,
         HasName, Supervised, KnowsMon
  <2> QED BY <2>1, <2>2, <2>3, <2>4 DEF KeepsMon
<1>3. KeepsRec'
  <2>1. (rec.id # 0 => RecMon)'
    <3>1. CASE Comes(i)
      BY <1>0, <3>1 DEF Comes, RecMon, KnowsRec, MonIs, Ids, Active
    <3>2. CASE Claims(i) /\ rec.id = i
      <4>1. rec'.id = i /\ rec'.state \in {"starting", "running"} /\ mon'[i] = rec'.state
        BY <3>2 DEF Claims, RecIs, MonIs
      <4> QED BY <4>1 DEF RecMon
    <3>3. CASE Records(i) /\ rec.id = i
      <4>1. CASE mon[i] = "over"
        <5>1. rec'.id = i /\ rec'.state = ended[i] /\ mon'[i] \in {"removing", "leaving"} /\ ended' = ended
          BY <3>3, <4>1 DEF Records, RecIs, MonIs
        <5>2. ended[i] \in {"exited", "failed"}
          BY <1>0, <4>1 DEF KnowsMon, EndOf
        <5> QED BY <5>1, <5>2 DEF RecMon, Active
      <4>2. CASE mon[i] = "removing"
        BY <3>3, <4>2 DEF Records, Drops, RecIs
      <4> QED BY <3>3, <4>1, <4>2 DEF Records
    <3>4. CASE (Claims(i) \/ Records(i)) /\ rec.id # i
      BY <1>0, <3>4 DEF Claims, Records, Drops, RecMon, KnowsRec, MonIs
    <3>5. CASE Ends(i)
      BY <1>0, <3>5 DEF Ends, RecMon, KnowsRec, MonIs, Active, Ids
    <3>6. CASE Leaves(i)
      BY <1>0, <3>6 DEF Leaves, RecMon, KnowsRec, MonIs, Ids, KnowsMon, EndOf, Active
    <3> QED BY <3>1, <3>2, <3>3, <3>4, <3>5, <3>6 DEF Monitoring
  <2>2. YoungRec'
    <3>1. CASE Comes(i)
      BY <1>0, <3>1 DEF Comes, Taken, MonIs, YoungRec, KnowsRec
    <3>2. CASE Claims(i)
      BY <1>0, <3>2 DEF Claims, RecIs, MonIs, YoungRec, KnowsRec
    <3>3. CASE Ends(i)
      BY <1>0, <3>3 DEF Ends, MonIs, YoungRec, KnowsRec
    <3>4. CASE Records(i)
      BY <1>0, <3>4 DEF Records, RecIs, MonIs, Drops, YoungRec, KnowsRec
    <3>5. CASE Leaves(i)
      BY <1>0, <3>5 DEF Leaves, Taken, MonIs, YoungRec, KnowsRec
    <3> QED BY <3>1, <3>2, <3>3, <3>4, <3>5 DEF Monitoring
  <2>3. TimeInv'
    BY <1>0 DEF Comes, Claims, Ends, Records, Leaves, Monitoring, RecIs, Taken, MonIs, Drops,
         TimeInv, KnowsRec
  <2> QED BY <2>1, <2>2, <2>3 DEF KeepsRec
<1> QED BY <1>1, <1>2, <1>3 DEF Keeps

LEMMA TickKeeps ==
    ASSUME JobInv, Tick
    PROVE  Keeps
<1>0. KnowsRec
  BY Known
<1>1. ASSUME NEW q \in Procs PROVE KeepsProc(q)'
  <2>0. KnowsProc(q)
    BY Known
  <2>1. ProcOf(q)'
    BY <1>0, <2>0 DEF Tick, cmdVars, ProcOf, KnowsProc, KnowsRec
  <2>2. HoldsFile(q)'
    BY <1>0, <2>0 DEF Tick, cmdVars, HoldsFile, KnowsProc
  <2>3. HoldsPid(q)'
    BY <1>0, <2>0 DEF Tick, cmdVars, HoldsPid, KnowsProc
  <2>4. LetsPid(q)'
    BY <1>0, <2>0 DEF Tick, cmdVars, LetsPid, KnowsProc
  <2>5. MadeRec(q)'
    BY <1>0, <2>0 DEF Tick, cmdVars, MadeRec, KnowsProc
  <2>6. HeldRec(q)'
    BY <1>0, <2>0 DEF Tick, cmdVars, HeldRec, KnowsProc
  <2>7. NoMonYet(q)'
    BY <1>0, <2>0 DEF Tick, cmdVars, NoMonYet, KnowsProc
  <2>8. Leftover(q)'
    BY <1>0, <2>0 DEF Tick, cmdVars, Leftover, KnowsProc
  <2> QED BY <2>1, <2>2, <2>3, <2>4, <2>5, <2>6, <2>7, <2>8 DEF KeepsProc
<1>2. ASSUME NEW j \in Ids PROVE KeepsMon(j)'
  <2>0. KnowsMon(j)
    BY Known
  <2>1. MonHolds(j)'
    BY <1>0, <2>0 DEF Tick, cmdVars, MonHolds, KnowsMon
  <2>2. Unused(j)'
    BY <1>0, <2>0 DEF Tick, cmdVars, Unused, KnowsMon
  <2>3. EndOf(j)'
    BY <1>0, <2>0 DEF Tick, cmdVars, EndOf, KnowsMon
  <2>4. HasName(j)'
    BY <1>0, <2>0 DEF Tick, cmdVars, HasName, Supervised, KnowsMon
  <2> QED BY <2>1, <2>2, <2>3, <2>4 DEF KeepsMon
<1>3. KeepsRec'
  <2>1. (rec.id # 0 => RecMon)'
    BY <1>0 DEF Tick, cmdVars, RecMon, KnowsRec
  <2>2. YoungRec'
    BY <1>0 DEF Tick, cmdVars, YoungRec, KnowsRec
  <2>3. TimeInv'
    BY <1>0 DEF Tick, cmdVars, TimeInv, KnowsRec
  <2> QED BY <2>1, <2>2, <2>3 DEF KeepsRec
<1> QED BY <1>1, <1>2, <1>3 DEF Keeps

-----------------------------------------------------------------------------
(* What the launches are answered and the followers say.                   *)

\* A PID lock that is taken while a launch holds the lock file is a monitor's.
LEMMA MonitorHolds ==
    ASSUME JobInv, NEW p \in Procs, NEW i \in Ids, pidLock[i] # Nobody,
           proc[p].pc \in {"look", "hold", "reread"}
    PROVE  pidLock[i] = "mon"
<1>1. KnowsRec /\ KnowsProc(p)
  BY Known
<1>2. kind = "down" /\ jobLock = p
  BY <1>1 DEF KnowsRec, KnowsProc, ProcOf, HoldsFile, Muxing, Launching
<1>3. ASSUME NEW q \in Procs, pidLock[i] = q PROVE FALSE
  <2>1. KnowsProc(q)
    BY Known
  <2>2. proc[q].pc \in {"remove", "cleanupRemove", "probeRelease"}
    BY <1>3, <2>1 DEF KnowsProc, LetsPid
  <2> QED BY <1>2, <2>1, <2>2 DEF KnowsProc, HoldsFile, Launching
<1>4. pidLock[i] \in Procs \cup {Nobody, "mon"}
  BY DEF JobInv, Typed
<1> QED BY <1>3, <1>4

LEMMA AnswersStep ==
    ASSUME JobInv, [Next]_vars
    PROVE  JobAnswers
<1> SUFFICES ASSUME NEW p \in Procs, proc[p].pc \in {"look", "hold", "reread"}, proc'[p].pc = "follow"
             PROVE  \/ pidLock[proc'[p].id] = "mon"
                    \/ /\ rec'.id = proc'[p].id /\ rec'.state \in Terminal
                       /\ rec'.started >= proc[p].req \/ (rec'.started < 0 /\ rec'.made >= proc[p].req)
  BY DEF JobAnswers
<1>0. KnowsRec /\ KnowsProc(p) /\ proc' # proc
  BY Known
<1>1. Listing(p) \/ Yields(p)
  <2>1. ASSUME NEW q \in Procs, Walking(q) \/ Listing(q) \/ Making(q) \/ Holding(q) \/ Starting(q)
        PROVE  q = p
    BY <2>1 DEF Walking, Listing, Making, Registers, NameTaken, Holding, Locks, Yields, Removes, Releases,
                Starting, Inserts, Spawns, To
  <2>2. ASSUME NEW i \in Ids PROVE ~Monitoring(i)
    BY <1>0, <2>2 DEF Monitoring, Comes, Claims, Ends, Records, Leaves
  <2>3. ~Tick /\ ~Still
    BY <1>0 DEF Tick, Still
  <2>4. Walking(p) \/ Listing(p) \/ Making(p) \/ Holding(p) \/ Starting(p)
    BY <2>1, <2>2, <2>3, Steps DEF JobInv
  <2>5. ~Walking(p) /\ ~Making(p) /\ ~Starting(p) /\ ~Locks(p) /\ ~Removes(p) /\ ~Releases(p)
    BY DEF Walking, Making, Registers, NameTaken, Locks, Removes, Releases, Starting, Inserts, Spawns, To
  <2> QED BY <2>4, <2>5 DEF Holding
<1>2. CASE Yields(p)
  <2>1. proc[p].pc = "hold" /\ pidLock[proc[p].seen] # Nobody /\ proc'[p].id = proc[p].seen
    BY <1>2 DEF Yields, To
  <2>2. proc[p].seen \in Ids
    BY <1>0, <2>1 DEF KnowsProc, KnowsRec, ProcOf, Seeing, Ids
  <2> QED BY <2>1, <2>2, MonitorHolds
<1>3. CASE Listing(p) /\ proc[p].pc = "look"
  <2>1. /\ proc'[p].id = rec'.id /\ Settles
        /\ rec'.state \in Active \/ (rec'.state \in Terminal /\ RanSince(rec', proc[p].req))
    BY <1>3 DEF Listing, To
  <2>2. CASE rec'.state \in Active
    <3>1. rec' = rec /\ pidLock[rec.id] # Nobody /\ rec.id \in Ids
      BY <1>0, <2>1, <2>2 DEF Settles, RecIs, Active, KnowsRec
    <3> QED BY <2>1, <3>1, MonitorHolds
  <2>3. CASE rec'.state \in Terminal /\ RanSince(rec', proc[p].req)
    <3>1. rec'.started \in Int
      BY <1>0, <2>1 DEF Settles, RecIs, KnowsRec
    <3> QED BY <2>1, <2>3, <3>1 DEF RanSince
  <2> QED BY <2>1, <2>2, <2>3
<1>4. CASE Listing(p) /\ proc[p].pc = "reread"
  <2>1. /\ rec'.id = proc[p].id /\ proc'[p].id = proc[p].id /\ Settles
    BY <1>4 DEF Listing, To
  <2>2. rec.id = proc[p].id /\ rec.made >= proc[p].req /\ rec.state \in {"running", "exited", "failed"}
    BY <1>0, <1>4 DEF KnowsProc, KnowsRec, ProcOf, HeldRec, Muxing
  <2>3. CASE rec' = rec /\ pidLock[rec.id] # Nobody
    <3>1. rec.id \in Ids
      BY <1>0, <2>2 DEF KnowsRec
    <3> QED BY <2>1, <2>3, <3>1, MonitorHolds
  <2>4. CASE rec'.state \in Terminal /\ rec'.made = rec.made /\ rec'.started = rec.started
    BY <1>0, <2>1, <2>2, <2>4 DEF KnowsRec, KnowsProc, TimeInv
  <2>5. CASE rec' = rec /\ rec.state = "running" /\ pidLock[rec.id] = Nobody
    BY <2>1, <2>5 DEF Settles, Active, RecIs
  <2>6. CASE rec' # rec
    <3>1. RecIs(rec.id, "failed", rec.made, rec.started)
      BY <1>0, <1>4, <2>1, <2>6 DEF Settles, KnowsProc, KnowsRec, ProcOf, Muxing
    <3> QED BY <2>4, <3>1 DEF RecIs, Terminal
  <2> QED BY <2>2, <2>3, <2>4, <2>5, <2>6 DEF Terminal
<1> QED BY <1>0, <1>1, <1>2, <1>3, <1>4 DEF Listing

LEMMA FollowStep ==
    ASSUME JobInv, [Next]_vars
    PROVE  FollowTrue
<1> SUFFICES ASSUME NEW p \in Procs, proc[p].pc # "done", proc'[p].pc = "done"
             PROVE  /\ proc'[p].got = "exited" => ended[proc[p].id] = "exited"
                    /\ proc'[p].got = "failed" => ended[proc[p].id] = "failed" \/ mon[proc[p].id] = "dead"
                    /\ proc'[p].got = "lost" => ended[proc[p].id] = "none"
  BY DEF FollowTrue, At
<1>0. KnowsRec /\ KnowsProc(p) /\ proc' # proc
  BY Known
<1>1. Walking(p) \/ Listing(p) \/ Releases(p)
  <2>1. ASSUME NEW q \in Procs, Walking(q) \/ Listing(q) \/ Making(q) \/ Holding(q) \/ Starting(q)
        PROVE  q = p
    BY <2>1 DEF Walking, Listing, Making, Registers, NameTaken, Holding, Locks, Yields, Removes, Releases,
                Starting, Inserts, Spawns, To
  <2>2. ASSUME NEW i \in Ids PROVE ~Monitoring(i)
    BY <1>0, <2>2 DEF Monitoring, Comes, Claims, Ends, Records, Leaves
  <2>3. ~Tick /\ ~Still
    BY <1>0 DEF Tick, Still
  <2>4. Walking(p) \/ Listing(p) \/ Making(p) \/ Holding(p) \/ Starting(p)
    BY <2>1, <2>2, <2>3, Steps DEF JobInv
  <2>5. ~Making(p) /\ ~Starting(p) /\ ~Locks(p) /\ ~Yields(p) /\ ~Removes(p)
    BY DEF Making, Registers, NameTaken, Locks, Yields, Removes, Starting, Inserts, Spawns, To
  <2> QED BY <2>4, <2>5 DEF Holding
<1>2. CASE Releases(p)
  BY <1>2 DEF Releases, To
<1>3. CASE Walking(p)
  <2>1. Said(p) /\ proc[p].pc \in {"follow", "gone"}
    BY <1>3 DEF Walking, To
  <2>2. proc[p].id \in Ids
    BY <1>0, <2>1 DEF KnowsProc, KnowsRec, ProcOf, Owning, Ids
  <2>3. KnowsMon(proc[p].id)
    BY <2>2, Known
  <2> QED BY <2>1, <2>3 DEF Said, Reported, KnowsMon, EndOf
<1>4. CASE Listing(p)
  <2>1. rec'.id = proc[p].id /\ rec'.state \in Terminal /\ proc'[p].got = rec'.state /\ Settles /\ proc[p].pc = "follow"
    BY <1>4 DEF Listing, To
  <2>2. proc[p].id \in Ids
    BY <1>0, <2>1 DEF KnowsProc, KnowsRec, ProcOf, Owning, Ids
  <2>3. CASE rec' = rec
    <3>1. rec.id # 0 /\ RecMon
      BY <1>0, <2>1, <2>2, <2>3 DEF KnowsRec, Ids
    <3> QED BY <2>1, <2>3, <3>1 DEF RecMon, Terminal
  <2>4. CASE rec' # rec
    <3>1. rec.state \in Active /\ pidLock[rec.id] = Nobody /\ rec'.state = "failed" /\ rec.id = proc[p].id
      BY <2>1, <2>4 DEF Settles, RecIs, Terminal
    <3>2. RecMon /\ KnowsMon(rec.id)
      BY <1>0, <2>2, <3>1 DEF KnowsRec, Ids
    <3>3. mon[rec.id] = "dead"
      BY <1>0, <3>1, <3>2 DEF RecMon, KnowsMon, MonHolds, MonStates, Active, KnowsRec
    <3> QED BY <2>1, <3>1, <3>3
  <2> QED BY <2>3, <2>4
<1> QED BY <1>1, <1>2, <1>3, <1>4
-----------------------------------------------------------------------------
(* The theorems.                                                           *)

LEMMA JobInvInit == Init => JobInv
<1> SUFFICES ASSUME Init PROVE JobInv
  OBVIOUS
<1> USE DEF Init
<1>1. NoRec \in RecType /\ NoRec.id = 0 /\ NoRec.state = "none" /\ NoRec.made = 0 /\ NoRec.started = -1
  BY BoundNat DEF NoRec, RecType, RecStates
<1>2. \A p \in Procs : proc[p].pc = "idle" /\ proc[p].req = 0
  BY FreshTyped
<1>3. Typed
  <2>1. rec \in RecType /\ rec.id <= ids /\ (rec.id = 0 <=> rec.state = "none")
    BY <1>1
  <2>2. kind \in {"down", "muxop"} /\ ids \in 0 .. MaxIds /\ tick \in Nat
    BY BoundNat, DetachedJobAssumption
  <2>3. mon \in [Ids -> MonStates] /\ proc \in [Procs -> ProcType]
    BY FreshTyped DEF MonStates
  <2> QED BY <2>1, <2>2, <2>3 DEF Typed
<1>4. ProcInv
  BY <1>2 DEF ProcInv, ProcOf, Owning, Seeing, Muxing
<1>5. LockInv
  BY <1>2, DetachedJobAssumption DEF LockInv, HoldsFile, HoldsPid, LetsPid, MonHolds, Launching
<1>6. RecInv /\ OneMaker
  BY <1>2 DEF RecInv, MadeRec, HeldRec, OneMaker, Apart
<1>7. MonInv /\ WorkInv /\ MuxInv
  BY <1>1, <1>2 DEF MonInv, Unused, NoMonYet, WorkInv, HasName, Supervised, MuxInv, YoungRec, Leftover
<1>8. EndsInv
  BY DEF EndsInv, EndOf
<1>9. NeverInv /\ TimeInv
  BY <1>1 DEF NeverInv, TimeInv
<1> QED BY <1>3, <1>4, <1>5, <1>6, <1>7, <1>8, <1>9 DEF JobInv

LEMMA JobInvStep ==
    ASSUME JobInv, [Next]_vars
    PROVE  JobInv'
<1>1. CASE Still
  <2>1. Typed' /\ ProcInv' /\ LockInv'
    BY <1>1 DEF Still, cmdVars, JobInv, Typed, ProcInv, ProcOf, LockInv, HoldsFile, HoldsPid, LetsPid, MonHolds
  <2>2. RecInv' /\ OneMaker' /\ MonInv'
    BY <1>1 DEF Still, cmdVars, JobInv, RecInv, MadeRec, HeldRec, OneMaker, Apart, MonInv, Unused, NoMonYet, RecMon
  <2>3. EndsInv' /\ WorkInv' /\ MuxInv' /\ NeverInv' /\ TimeInv'
    BY <1>1 DEF Still, cmdVars, JobInv, EndsInv, EndOf, WorkInv, HasName, Supervised, MuxInv, YoungRec, Leftover,
                NeverInv, NeverOf, TimeInv
  <2> QED BY <2>1, <2>2, <2>3 DEF JobInv
<1>2. CASE ~Still
  <2>1. \/ \E p \in Procs : Walking(p) \/ Listing(p) \/ Making(p) \/ Holding(p) \/ Starting(p)
        \/ \E i \in Ids : Monitoring(i)
        \/ Tick
    BY <1>2, Steps DEF JobInv
  <2>2. Keeps
    BY <2>1, WalkingKeeps, ListingKeeps, MakingKeeps, HoldingKeeps, StartingKeeps, MonitoringKeeps, TickKeeps
  <2>3. Typed'
    BY <2>1, TypedKept
  <2>4. OneMaker'
    BY <2>1, ApartKept DEF OneMaker
  <2>5. NeverInv'
    BY <2>1, NeverKept DEF NeverInv
  <2>6. ProcInv' /\ LockInv' /\ RecInv' /\ MonInv' /\ EndsInv' /\ WorkInv' /\ MuxInv' /\ TimeInv'
    BY <2>2 DEF Keeps, KeepsProc, KeepsMon, KeepsRec, ProcInv, LockInv, RecInv, MonInv, EndsInv, WorkInv, MuxInv
  <2> QED BY <2>3, <2>4, <2>5, <2>6 DEF JobInv
<1> QED BY <1>1, <1>2

(* The inductive invariant of the jobs: at any time the lock file, the PID *)
(* locks, the record of the name, its monitor and the exit events tell the *)
(* same story, whatever launches, lookups, probes and deaths interleave.   *)
THEOREM JobInvariant == Spec => []JobInv
<1>1. Init => JobInv
  BY JobInvInit
<1>2. JobInv /\ [Next]_vars => JobInv'
  BY JobInvStep
<1> QED BY <1>1, <1>2, PTL DEF Spec

(* Two downs of one project never run at once unless the monitor of one was *)
(* killed and its record settled or replaced while the process worked on,  *)
(* nor two mux operations on one window unless besides a monitor was too    *)
(* slow to come up, and no monitor runs a record that a probe               *)
(* (ProbeReleases) said never ran.                                         *)
THEOREM JobSafe == Spec => []JobSafety
<1>1. JobInv => JobSafety
  <2> SUFFICES ASSUME JobInv PROVE JobSafety
    OBVIOUS
  <2>1. TypeOK
    <3>1. KnowsRec /\ jobLock \in Procs \cup {Nobody} /\ rec.id \in 0 .. ids
      BY Known DEF JobInv, Typed, KnowsRec
    <3>2. \A i \in Ids : MonHolds(i)
      BY DEF JobInv, LockInv
    <3> QED BY <3>1, <3>2 DEF TypeOK, KnowsRec, RecStates, Active, Terminal, MonHolds
  <2>2. OneAtATime
    BY DEF OneAtATime, JobInv, WorkInv, HasName, Working, Forgotten
  <2>3. NeverRanHolds
    BY DEF NeverRanHolds, JobInv, NeverInv, NeverOf, Supervised
  <2> QED BY <2>1, <2>2, <2>3 DEF JobSafety
<1> QED BY <1>1, JobInvariant, PTL

(* A launch is answered by a job whose monitor is still there or whose run *)
(* began no earlier than the request, and a follower says of a job what    *)
(* became of it.                                                           *)
THEOREM AnswersHold == Spec => AnswersTrue
<1>1. JobInv /\ [Next]_vars => [JobAnswers /\ FollowTrue]_vars
  BY AnswersStep, FollowStep
<1> QED BY <1>1, JobInvariant, PTL DEF Spec, AnswersTrue
=============================================================================
