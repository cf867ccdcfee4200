---------------------------- MODULE ComposeLogs ----------------------------
(***************************************************************************)
(* `cmdman compose logs` (service_logs.go): the stored records of every    *)
(* selected replica up to now, merged by their time, and then, with        *)
(* --follow, each replica's records from now on as they come.              *)
(*                                                                         *)
(* A record is its time.  The monitor takes the time of a record before it *)
(* takes the lock it writes under (logCommandOutput), and stdout and       *)
(* stderr have a reader each: two records of a replica may be written in   *)
(* the other order, and any of them after a moment that it is older than.  *)
(* How a follower bridges from the stored log to the monitor's stream is   *)
(* Output's and LogFile's; here it has every record after a position.      *)
(***************************************************************************)
EXTENDS Integers, Sequences, FiniteSets

CONSTANTS
    Tailed,       \* the replicas the targets select
    MaxRecords    \* how many records there are

VARIABLES
    clock,        \* the time, which every record advances
    logs,         \* each replica's log: the times of its records, as written
    writing,      \* the records of each replica that have a time and are not written
    view          \* the command, its readers and what it has put out

logsVars == <<clock, logs, writing, view>>

Upto(s, n) == {s[i] : i \in 1 .. n}
Written(r) == Upto(logs[r], Len(logs[r]))

\* Each replica has a stock reader, at pos in its log until it has ended, and
\* then a follower: the end of the log it noted (mark), what it replays and
\* where the stream takes over (from).  was and gap are history: the records
\* the log had when the command began, and those between the follower's last
\* read and its mark.
AtStart == [r \in Tailed |-> 0]
NoView ==
    [phase |-> "idle", follow |-> FALSE, now |-> 0, was |-> AtStart,
     failed |-> {}, ended |-> {}, pos |-> AtStart, out |-> <<>>,
     step |-> [r \in Tailed |-> "none"], mark |-> AtStart, scan |-> AtStart, from |-> AtStart,
     gap |-> {}, tail |-> {}, twice |-> FALSE]

LogsInit ==
    /\ clock = 0
    /\ logs = [r \in Tailed |-> <<>>]
    /\ writing = [r \in Tailed |-> {}]
    /\ view = NoView

-----------------------------------------------------------------------------
(* The monitors                                                            *)

\* Nothing reads the logs once the command is over.
BeingRead == view.phase \notin {"over", "cut"}

\* stdout and stderr: at most two records of a replica are on their way.
Stamps(r) ==
    /\ BeingRead /\ clock < MaxRecords /\ Cardinality(writing[r]) < 2
    /\ clock' = clock + 1
    /\ writing' = [writing EXCEPT ![r] = @ \cup {clock + 1}]
    /\ UNCHANGED <<logs, view>>

Writes(r) ==
    /\ BeingRead
    /\ \E t \in writing[r] :
        /\ logs' = [logs EXCEPT ![r] = Append(@, t)]
        /\ writing' = [writing EXCEPT ![r] = @ \ {t}]
    /\ UNCHANGED <<clock, view>>

-----------------------------------------------------------------------------
(* The stock                                                               *)

LogsBegin ==
    /\ view.phase = "idle"
    /\ \E follow \in BOOLEAN, failed \in SUBSET Tailed :
        view' = [view EXCEPT !.phase = "stock", !.follow = follow, !.now = clock,
                             !.was = [r \in Tailed |-> Len(logs[r])], !.failed = failed]
    /\ UNCHANGED <<clock, logs, writing>>

\* The bounds are inclusive, so the stream begins a tick after the stock ends.
Until(t) == view.follow => t <= view.now
Since(t) == t >= view.now + 1

\* The reader's next record.  It gives up at the first one past the bound.
NextOf(r) == view.pos[r] + 1
HasNext(r) ==
    /\ r \notin view.failed \cup view.ended
    /\ NextOf(r) <= Len(logs[r]) /\ Until(logs[r][NextOf(r)])

StockEnds(r) ==
    /\ view.phase = "stock" /\ r \notin view.failed \cup view.ended /\ ~HasNext(r)
    /\ view' = [view EXCEPT !.ended = @ \cup {r}]
    /\ UNCHANGED <<clock, logs, writing>>

\* The merge has a record of every reader that has not ended, and takes the oldest.
StockEmits(r) ==
    /\ view.phase = "stock" /\ HasNext(r)
    /\ \A q \in Tailed \ (view.failed \cup view.ended) :
          HasNext(q) /\ logs[r][NextOf(r)] <= logs[q][NextOf(q)]
    /\ view' = [view EXCEPT !.out = Append(@, logs[r][NextOf(r)]), !.pos[r] = @ + 1]
    /\ UNCHANGED <<clock, logs, writing>>

StockOver ==
    /\ view.phase = "stock" /\ view.failed \cup view.ended = Tailed
    /\ view' = [view EXCEPT !.phase = IF view.follow THEN "live" ELSE "over",
                            !.step = [r \in Tailed |-> IF view.follow THEN "opening" ELSE "none"]]
    /\ UNCHANGED <<clock, logs, writing>>

-----------------------------------------------------------------------------
(* The followers, one goroutine each                                       *)

\* The stored log is opened and read while its end is noted.
LiveScans(r) ==
    /\ view.phase = "live" /\ view.step[r] \in {"opening", "marked"}
    /\ view' = [view EXCEPT !.scan[r] = Len(logs[r]),
                            !.step[r] = IF @ = "opening" THEN "scanned" ELSE "ready"]
    /\ UNCHANGED <<clock, logs, writing>>
LiveMarks(r) ==
    /\ view.phase = "live" /\ view.step[r] \in {"opening", "scanned"}
    /\ view' = [view EXCEPT !.mark[r] = Len(logs[r]),
                            !.step[r] = IF @ = "opening" THEN "marked" ELSE "ready"]
    /\ UNCHANGED <<clock, logs, writing>>

Deliver(v, ts) ==
    [v EXCEPT !.tail = @ \cup ts,
              !.twice = @ \/ ts \cap (v.tail \cup Upto(v.out, Len(v.out))) # {}]

\* What the read found past the bound is put out, and the stream takes over
\* behind the last of it, or at the noted end if there was nothing.
LiveJoins(r) ==
    /\ view.phase = "live" /\ view.step[r] = "ready"
    /\ LET found == {i \in 1 .. view.scan[r] : Since(logs[r][i])}
           from == IF found = {} THEN view.mark[r] ELSE CHOOSE i \in found : \A j \in found : j <= i
       IN  view' = [Deliver(view, {logs[r][i] : i \in found}) EXCEPT
                        !.from[r] = from, !.step[r] = "following",
                        !.gap = @ \cup {logs[r][i] : i \in view.scan[r] + 1 .. from}]
    /\ UNCHANGED <<clock, logs, writing>>

LiveEmits(r) ==
    /\ view.phase = "live" /\ view.step[r] = "following" /\ view.from[r] < Len(logs[r])
    /\ view' = [Deliver(view, {logs[r][view.from[r] + 1]}) EXCEPT !.from[r] = @ + 1]
    /\ UNCHANGED <<clock, logs, writing>>

\* The context, or a writer of the output that failed, ends it all.
LogsCancel ==
    /\ view.phase \in {"stock", "live"}
    /\ view' = [NoView EXCEPT !.phase = "cut"]
    /\ UNCHANGED <<clock, logs, writing>>

LogsNext ==
    \/ LogsBegin \/ StockOver \/ LogsCancel
    \/ \E r \in Tailed :
        \/ Stamps(r) \/ Writes(r) \/ StockEnds(r) \/ StockEmits(r)
        \/ LiveScans(r) \/ LiveMarks(r) \/ LiveJoins(r) \/ LiveEmits(r)

-----------------------------------------------------------------------------
(* Properties                                                              *)

\* The stock and the stream do not overlap, whatever is written meanwhile and
\* in whichever order.
LogsOnce ==
    /\ ~view.twice
    /\ \A i, j \in DOMAIN view.out : i # j => view.out[i] # view.out[j]

\* What a log had when the command began is all in the stock.
StockWhole ==
    view.phase \in {"live", "over"} => \A r \in Tailed \ view.failed :
        Upto(logs[r], view.was[r]) \subseteq Upto(view.out, Len(view.out))

\* The stock is in the order of time as far as each log is.
StockInOrder ==
    (\A r \in Tailed : \A i, j \in 1 .. Len(logs[r]) : i < j => logs[r][i] < logs[r][j]) =>
        \A i, j \in DOMAIN view.out : i < j => view.out[i] < view.out[j]

\* A record of after the boundary is in the stream, once the follower has come
\* to it, unless it was written between the follower's read of the stored log
\* and its look at where that ends.  One that is older than the boundary and was
\* written after it may be in neither.
StreamWhole ==
    \A r \in Tailed : view.step[r] = "following" =>
        {t \in Upto(logs[r], view.from[r]) : t > view.now} \subseteq view.tail \cup view.gap

LogsSafety == LogsOnce /\ StockWhole /\ StockInOrder /\ StreamWhole
=============================================================================
