------------------------------ MODULE LogFile ------------------------------
(***************************************************************************)
(* The k8s-file log driver: the writer of a command's monitor, with its    *)
(* rotation, and one reader in another process: `cmdman logs` with its     *)
(* --since, --tail and --head, a replay from a noted position, or the      *)
(* replay of `logs --follow` up to the point where live output takes over. *)
(* Nothing locks the files: a rotation and a discovery interleave.         *)
(*                                                                         *)
(* A user line is its number, which is its time too; an entry is           *)
(* <<line, bytes>>, the rotation marker is <<0, 1>>.  A file is its place  *)
(* in `data`, which outlives its name while a reader has it open.          *)
(***************************************************************************)
EXTENDS Integers, Sequences, FiniteSets, SequencesExt, FiniteSetsExt

CONSTANTS
    MaxSize,        \* max-size, 0 for no bound
    MaxFile,        \* max-file
    Sizes,          \* the sizes of an entry
    Reads,          \* what a reader may ask for
    MaxLines,       \* bound: user lines written
    MaxCrashes      \* bound: monitors killed

ASSUME LogFileAssumption ==
    /\ MaxSize \in Nat /\ MaxFile \in Nat /\ Sizes \subseteq Nat \ {0}
    /\ MaxLines \in Nat /\ MaxCrashes \in Nat

VARIABLES
    dir,        \* what the names console.log, console.log.1, ... stand for, 0 for nothing
    data,       \* the entries of each file ever made
    wr,         \* the writer: where it is, the next rename, the line it is about to write
    written,    \* the size it counts
    total,      \* user lines written
    crashes,
    mark,       \* a position a caller noted: the size of the active file, the lines so far
    rd,         \* the reader
    cut,        \* whether a crash left a marker at the end of the active file
    moved,      \* whether a rotation overlapped the reader's discovery
    turned      \* whether the active file changed since the noted position or the replay

wVars == <<dir, data, wr, written, total, crashes, cut>>
logVars == <<wVars, mark, rd, moved, turned>>

Oldest == IF MaxFile <= 1 THEN 0 ELSE MaxFile - 1
Names == 0 .. Oldest
Marker == <<0, 1>>
IsLine(e) == e[1] # 0
ByteLen(es) ==
    LET upto[n \in 0 .. Len(es)] == IF n = 0 THEN 0 ELSE upto[n - 1] + es[n][2]
    IN upto[Len(es)]
Lines(es) ==
    LET upto[n \in 0 .. Len(es)] ==
            IF n = 0 THEN <<>>
            ELSE IF IsLine(es[n]) THEN Append(upto[n - 1], es[n][1]) ELSE upto[n - 1]
    IN upto[Len(es)]
NoWriter == [pc |-> "none", i |-> 0, s |-> 0]
Idle == [pc |-> "open", i |-> 0, s |-> 0]
NoMark == [n |-> 0, line |-> 0]
NoReader == [pc |-> "idle", ro |-> [kind |-> "none", follow |-> FALSE], spans |-> <<>>, tails |-> <<>>, sel |-> <<>>,
             out |-> <<>>, last |-> <<>>, end |-> 0, to |-> 0, live |-> 0, low |-> 0, want |-> 0, upto |-> 0]

LogInit ==
    /\ dir = [n \in Names |-> 0] /\ data = <<>> /\ wr = NoWriter /\ written = 0
    /\ total = 0 /\ crashes = 0 /\ mark = NoMark /\ rd = NoReader
    /\ cut = FALSE /\ moved = FALSE /\ turned = FALSE
-----------------------------------------------------------------------------
(* The writer                                                              *)

\* os.OpenFile with O_APPEND|O_CREATE
Create(d) ==
    IF dir[0] # 0 THEN UNCHANGED <<dir, data>> /\ written' = ByteLen(d[dir[0]])
    ELSE /\ data' = Append(d, <<>>) /\ dir' = [dir EXCEPT ![0] = Len(d) + 1] /\ written' = 0

NewWriter ==
    /\ wr.pc = "none" /\ total < MaxLines
    /\ Create(data) /\ wr' = Idle
    /\ UNCHANGED <<total, crashes, cut, mark, rd, moved, turned>>

AppendEntry(e) == data' = [data EXCEPT ![dir[0]] = Append(@, e)] /\ written' = written + e[2]

Within(n) == MaxSize = 0 \/ n < MaxSize
NeedsRotation(s) == ~Within(written + s)

\* One name of the chain .(i) -> .(i+1), from the oldest to the active file;
\* with nothing kept the active file is removed.
MoveUp(i) ==
    IF MaxFile <= 1 THEN dir' = [dir EXCEPT ![0] = 0]
    ELSE IF dir[i] = 0 THEN UNCHANGED dir
    ELSE dir' = [dir EXCEPT ![i + 1] = dir[i], ![i] = 0]
FirstMove == IF MaxFile <= 1 THEN 0 ELSE MaxFile - 2
MoveUpFromActive(i) == MoveUp(FirstMove - i)
RenameStep(i) == MoveUp(i)

Discovering == rd.pc = "discover"

\* WriteLogLine of an entry of size s: written and flushed, or a rotation first.
WriteLogLine(s) ==
    /\ wr.pc = "open" /\ total < MaxLines
    /\ IF NeedsRotation(s)
       THEN AppendEntry(Marker) /\ wr' = [pc |-> "rotate", i |-> FirstMove, s |-> s] /\ UNCHANGED total
       ELSE AppendEntry(<<total + 1, s>>) /\ total' = total + 1 /\ UNCHANGED wr
    /\ UNCHANGED <<dir, crashes, cut, mark, rd, moved, turned>>

Rename ==
    /\ wr.pc = "rotate" /\ wr.i >= 0
    /\ RenameStep(wr.i) /\ wr' = [wr EXCEPT !.i = @ - 1]
    /\ moved' = (moved \/ Discovering) /\ turned' = TRUE
    /\ UNCHANGED <<data, written, total, crashes, cut, mark, rd>>

\* rotate's reopen
Reopen ==
    /\ wr.pc = "rotate" /\ wr.i = -1
    /\ Create(data) /\ wr' = [wr EXCEPT !.pc = "reopened"]
    /\ moved' = (moved \/ Discovering)
    /\ UNCHANGED <<total, crashes, cut, mark, rd, turned>>

WriteAfterRotate ==
    /\ wr.pc = "reopened"
    /\ AppendEntry(<<total + 1, wr.s>>) /\ total' = total + 1 /\ wr' = Idle
    /\ UNCHANGED <<dir, crashes, cut, mark, rd, moved, turned>>

\* The end of a run.
Close ==
    /\ wr.pc = "open" /\ wr' = NoWriter
    /\ UNCHANGED <<dir, data, written, total, crashes, cut, mark, rd, moved, turned>>

\* The monitor is killed: the next writer appends to the file it finds.
Crash ==
    /\ wr.pc \in {"rotate", "reopened"} /\ crashes < MaxCrashes
    /\ crashes' = crashes + 1 /\ wr' = NoWriter
    /\ cut' = (cut \/ (dir[0] # 0 /\ data[dir[0]] # <<>> /\ Last(data[dir[0]]) = Marker))
    /\ UNCHANGED <<dir, data, written, total, mark, rd, moved, turned>>

\* k8sfile.CurrentEnd, kept by a caller that will read from there on.
CurrentEnd == IF dir[0] = 0 THEN 0 ELSE ByteLen(data[dir[0]])
NotePosition ==
    /\ rd.pc = "idle" /\ mark = NoMark /\ \E ro \in Reads : ro.kind = "start"
    /\ CurrentEnd > 0 /\ mark' = [n |-> CurrentEnd, line |-> total] /\ turned' = (wr.pc = "rotate")
    /\ UNCHANGED <<wVars, rd, moved>>
-----------------------------------------------------------------------------
(* discoverFiles                                                           *)

\* The active file is opened first; without one the read fails.  A reader from
\* a position asks for the noted one, and a since of 0 means now.
Asked(ro) ==
    CASE ro.kind = "start" -> [kind |-> "start", n |-> mark.n, follow |-> FALSE, line |-> mark.line]
      [] ro.kind = "since" /\ ro.n = 0 -> [ro EXCEPT !.n = total + 1]
      [] OTHER -> ro
Open(ro) ==
    /\ rd.pc = "idle" /\ total > 0
    /\ (ro.kind = "start") = (mark # NoMark)
    /\ rd' = IF dir[0] = 0 THEN [NoReader EXCEPT !.pc = "failed", !.ro = Asked(ro)]
            ELSE [NoReader EXCEPT !.pc = "discover", !.ro = Asked(ro), !.spans = <<dir[0]>>,
                                    !.upto = total]
    /\ moved' = (wr.pc = "rotate") /\ turned' = (turned /\ ro.kind = "start")
    /\ UNCHANGED <<wVars, mark>>

\* The archives, until one is missing.
OpenArchive ==
    /\ Discovering
    /\ LET i == Len(rd.spans) IN
       IF i \in Names /\ dir[i] # 0 THEN rd' = [rd EXCEPT !.spans = Append(@, dir[i])]
       ELSE rd' = [rd EXCEPT !.pc = "times", !.spans = Reverse(@)]
    /\ UNCHANGED <<wVars, mark, moved, turned>>

\* The time of a file's last user line, 0 when it is Empty.
TailTime(es) == IF Lines(es) = <<>> THEN 0 ELSE Last(Lines(es))
\* What the read has to begin with: the reference the selection is held to,
\* at its first and at its last look at the files.
Stored == FoldLeft(LAMBDA s, f : s \o Lines(data[f]), <<>>, rd.spans)
Wanted ==
    LET n == rd.ro.n
        after == {i \in DOMAIN Stored : CASE rd.ro.kind = "since" -> Stored[i] >= n
                                          [] rd.ro.kind = "tail" -> i > Len(Stored) - n
                                          [] rd.ro.kind = "start" -> Stored[i] > rd.ro.line
                                          [] OTHER -> TRUE}
    IN IF after = {} THEN total + 1 ELSE Stored[Min(after)]

FillSpanTimes ==
    /\ rd.pc = "times"
    /\ rd' = [rd EXCEPT !.pc = "select", !.low = Wanted,
                      !.tails = [k \in DOMAIN rd.spans |-> TailTime(data[rd.spans[k]])]]
    /\ UNCHANGED <<wVars, mark, moved, turned>>
-----------------------------------------------------------------------------
(* selectReadSpans: <<file, name, first byte>>, oldest first               *)

Span(k, start) == <<rd.spans[k], Len(rd.spans) - k, start>>
SpansFrom(k) == [j \in 1 .. Len(rd.spans) - k + 1 |-> Span(k + j - 1, 0)]
Active == Len(rd.spans)

\* The last span carries the active path, whatever the file behind it.
SelectSpansFrom == <<Span(Active, rd.ro.n)>>
Honoured == ByteLen(data[rd.spans[Active]]) >= rd.ro.n

SelectSince ==
    LET ks == {k \in DOMAIN rd.spans : rd.tails[k] >= rd.ro.n}
    IN IF ks = {} THEN <<>> ELSE SpansFrom(Min(ks))

\* selectTailSpans: from the newest file back, the user lines still owed.
PrefixBytes(es, i) == ByteLen(SubSeq(es, 1, i - 1))
LastUserLine(es) == Max({i \in DOMAIN es : IsLine(es[i])})
CountUserLines(es, i) ==
    LET stops == {j \in i .. Len(es) : ~IsLine(es[j])}
    IN IF stops = {} THEN Len(es) - i + 1 ELSE Min(stops) - i
TailStartLong(es, owed) == Max({1, LastUserLine(es) - owed})
TailStart(es, owed) == Max({1, LastUserLine(es) - (owed - 1)})
SelectTailSpans ==
    LET Take(acc, k) ==
            LET es == data[rd.spans[k]]
                i == TailStart(es, acc.owed)
                n == CountUserLines(es, i)
            IN IF acc.owed = 0 \/ rd.tails[k] = 0 \/ n = 0 THEN acc
               ELSE [owed |-> acc.owed - Min({n, acc.owed}),
                     sel |-> <<Span(k, PrefixBytes(es, i))>> \o acc.sel]
        back == Reverse([k \in DOMAIN rd.spans |-> k])
    IN FoldLeft(Take, [owed |-> rd.ro.n, sel |-> <<>>], back).sel

SelectReadSpans ==
    CASE rd.ro.kind = "start" /\ Honoured -> SelectSpansFrom
      [] rd.ro.kind = "tail" -> SelectTailSpans
      [] rd.ro.kind = "since" -> SelectSince
      [] OTHER -> SpansFrom(1)

\* newReader ends with the selection.
Select ==
    /\ rd.pc = "select"
    /\ rd' = [rd EXCEPT !.pc = IF rd.ro.follow THEN "end" ELSE "scan", !.sel = SelectReadSpans,
                      !.want = Wanted, !.spans = <<>>, !.tails = <<>>]
    /\ UNCHANGED <<wVars, mark, moved, turned>>

\* A follower notes where the log ends: with nothing to replay it goes on there.
CaptureEnd ==
    /\ rd.pc = "end"
    /\ rd' = [rd EXCEPT !.pc = "scan", !.end = CurrentEnd,
                      !.low = IF rd.sel = <<>> THEN total + 1 ELSE @,
                      !.want = IF rd.sel = <<>> THEN total + 1 ELSE @]
    /\ UNCHANGED <<wVars, mark, moved, turned>>
-----------------------------------------------------------------------------
(* Reader.run and the bridge of a follower                                 *)

\* scanSpan from byte a: what is read up to the marker, the end of the file or
\* byte b (0 for none).  A start inside an entry is a parse error.
Entry(es, a) == {i \in 1 .. Len(es) + 1 : PrefixBytes(es, i) = a}
Misread(es, a) == Entry(es, a) = {} /\ a < ByteLen(es)
Readable(es, a, b) ==
    IF Entry(es, a) = {} THEN {}
    ELSE LET i == Min(Entry(es, a))
         IN {j \in i .. i + CountUserLines(es, i) - 1 : b = 0 \/ PrefixBytes(es, j + 1) <= b}

Skipped(l) == rd.ro.kind = "since" /\ l < rd.ro.n
AfterUntil(l) == rd.ro.kind = "until" /\ l > rd.ro.n
Left == IF rd.ro.kind = "head" THEN rd.ro.n - Len(rd.out) ELSE MaxLines

\* What a span adds, as the places of its entries.
Sends(es, a, b) ==
    LET js == {j \in Readable(es, a, b) : ~Skipped(es[j][1])}
        stop == {j \in js : AfterUntil(es[j][1])}
        ok == {j \in js : \A k \in stop : j < k}
    IN {j \in ok : Cardinality({k \in ok : k <= j}) <= Left}
Deliver(from, es, name, js) ==
    IF js = {} THEN from
    ELSE [from EXCEPT !.out = @ \o [k \in 1 .. Cardinality(js) |-> es[Min(js) + k - 1][1]],
                    !.last = <<name, PrefixBytes(es, Max(js) + 1)>>]
Finished(es, a) ==
    \/ \E j \in Readable(es, a, 0) : ~Skipped(es[j][1]) /\ AfterUntil(es[j][1])
    \/ rd.ro.kind = "head" /\ Cardinality(Sends(es, a, 0)) = Left

ScanSpan ==
    /\ rd.pc = "scan" /\ rd.sel # <<>>
    /\ LET s == Head(rd.sel) es == data[s[1]]
       IN rd' = IF Misread(es, s[3]) THEN [rd EXCEPT !.pc = "failed", !.sel = <<>>]
               ELSE [Deliver(rd, es, s[2], Sends(es, s[3], 0)) EXCEPT
                        !.sel = IF Finished(es, s[3]) THEN <<>> ELSE Tail(@)]
    /\ UNCHANGED <<wVars, mark, moved, turned>>

\* The replay is over: a follower of a running command subscribes, and the
\* monitor captures its writer's offset with the subscription.
ReplayDone ==
    /\ rd.pc = "scan" /\ rd.sel = <<>>
    /\ IF rd.ro.follow /\ wr.pc # "none"
       THEN wr.pc = "open" /\ rd' = [rd EXCEPT !.pc = "bridge", !.to = written, !.live = total]
       ELSE rd' = [rd EXCEPT !.pc = "done"]
    /\ UNCHANGED <<wVars, mark, moved, turned>>

\* NewRangeReader over the active file, from the last record replayed.
BridgeFrom == IF rd.last = <<>> THEN rd.end ELSE IF rd.last[1] # 0 THEN 0 ELSE rd.last[2]
ReplayFrom == BridgeFrom
Bridge ==
    /\ rd.pc = "bridge"
    /\ rd' = IF rd.to = 0 THEN [rd EXCEPT !.pc = "live"]
            ELSE IF dir[0] = 0 THEN [rd EXCEPT !.pc = "failed"]
            ELSE LET es == data[dir[0]] a == ReplayFrom
                 IN IF a >= rd.to THEN [rd EXCEPT !.pc = "live"]
                    ELSE IF Misread(es, a) THEN [rd EXCEPT !.pc = "failed"]
                    ELSE [Deliver(rd, es, 0, Sends(es, a, rd.to)) EXCEPT !.pc = "live"]
    /\ UNCHANGED <<wVars, mark, moved, turned>>

\* The reader is done with, and another command reads.
CloseReader ==
    /\ rd.pc \in {"done", "failed", "live"}
    /\ rd' = NoReader /\ mark' = NoMark /\ moved' = FALSE /\ turned' = FALSE
    /\ UNCHANGED wVars
-----------------------------------------------------------------------------
Writing == NewWriter \/ (\E s \in Sizes : WriteLogLine(s)) \/ Rename \/ Reopen
           \/ WriteAfterRotate \/ Close \/ Crash
Reading == (\E ro \in Reads : Open(ro)) \/ OpenArchive \/ FillSpanTimes \/ Select \/ CaptureEnd
           \/ ScanSpan \/ ReplayDone \/ Bridge \/ CloseReader
LogNext == Writing \/ NotePosition \/ Reading
LogSpec == LogInit /\ [][LogNext]_logVars
-----------------------------------------------------------------------------
(* Properties                                                              *)

\* Every name, position and line number is one there is.
FilesOK ==
    /\ dir \in [Names -> 0 .. Len(data)]
    /\ \A f \in DOMAIN data : \A i \in DOMAIN data[f] : data[f][i] = Marker \/
            data[f][i] \in (1 .. total) \X Sizes
    /\ total \in 0 .. MaxLines /\ crashes \in 0 .. MaxCrashes
    /\ wr.pc \in {"none", "open", "rotate", "reopened"} /\ wr.i \in -1 .. MaxFile
    /\ wr.pc = "open" => dir[0] # 0 /\ written = ByteLen(data[dir[0]])

\* What the names stand for, oldest first, at every step of a rotation and
\* after every crash: the newest lines, in order, with none missing in between.
KeptByName ==
    LET newest[n \in 0 .. Oldest + 1] ==
            IF n = 0 THEN <<>>
            ELSE IF dir[n - 1] = 0 THEN newest[n - 1] ELSE Lines(data[dir[n - 1]]) \o newest[n - 1]
    IN newest[Oldest + 1]
NewestKept == KeptByName = [k \in 1 .. Len(KeptByName) |-> total - Len(KeptByName) + k]

\* max-size: a file's lines stay below it, unless it holds one line only.
Unmarked(es) == [i \in DOMAIN es |-> IF IsLine(es[i]) THEN es[i] ELSE <<0, 0>>]
LineBytes(es) == ByteLen(Unmarked(es))
SizeBounded == \A f \in DOMAIN data : Len(Lines(data[f])) <= 1 \/ Within(LineBytes(data[f]))

Undisturbed == ~moved /\ ~cut
Run(a, b) == [k \in 1 .. b - a + 1 |-> a + k - 1]

\* A read no rotation overlapped at discovery, whatever is written meanwhile:
\* the lines from the one its options ask for, each once and in order, to the
\* newest there was when it began, unless it begins at a position whose file
\* is no longer the active one.
ReadsRetained ==
    rd.pc = "done" /\ Undisturbed /\ ~(rd.ro.kind = "start" /\ turned) =>
        \E a \in rd.low .. rd.want, b \in 0 .. total :
            /\ rd.out = Run(a, b)
            /\ CASE rd.ro.kind = "head" -> b >= rd.upto \/ Len(rd.out) = rd.ro.n
                 [] rd.ro.kind = "until" -> b >= rd.upto \/ b = Max({rd.ro.n, a - 1})
                 [] OTHER -> b >= rd.upto

\* A follower's replay and the reread of the bridge reach exactly the line its
\* live output goes on from, unless the active file was rotated in between.
FollowMeets ==
    rd.pc = "live" /\ Undisturbed /\ ~turned => \E a \in rd.low .. rd.want : rd.out = Run(a, rd.live)

\* The files are sound at every step of a rotation and after every crash.
FilesSafe == FilesOK /\ NewestKept /\ SizeBounded

\* What a reader returns is what it asked for.
ReadsTrue == ReadsRetained /\ FollowMeets
=============================================================================
