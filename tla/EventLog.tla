------------------------------ MODULE EventLog ------------------------------
(***************************************************************************)
(* The event log of cmdman (cmdman/eventlog): the processes that append to *)
(* one file and rotate it into one archive under an advisory lock, one     *)
(* reader of it with its watcher (Reader.scanLoop, inotify or polling), and *)
(* Service.Wait, which reads the state of a command and is woken by the    *)
(* reader or by a ticker.                                                  *)
(*                                                                         *)
(* An event is its number in the order of the writes; a rotation marker is *)
(* 0.  Each file holds a sequence of them.                                 *)
(***************************************************************************)
EXTENDS Integers, Sequences, FiniteSets

CONSTANTS
    Size,           \* the lines a file takes before the next Append rotates it
    Requests,       \* the EventsRequests a subscriber may make
    MaxEvents,      \* bound: events appended
    MaxAborts,      \* bound: appends cut short or failed
    MayReuse,       \* whether a new file may get the inode of a deleted one
    Stock           \* the events in the log at the start: with none, it has no file

ASSUME EventLogAssumption ==
    /\ Size \in Nat \ {0} /\ MaxEvents \in Nat /\ MaxAborts \in Nat
    /\ MayReuse \in BOOLEAN /\ Stock \in 0 .. Size /\ Stock <= MaxEvents
    /\ \A q \in Requests : q.follow \in BOOLEAN /\ q.fromStart \in BOOLEAN
                           /\ q.since \in Nat /\ q.until \in Nat

VARIABLES
    data,       \* the lines of each file, by inode
    active,     \* the file at the log's path
    archive,    \* the file at path.1
    wpc,        \* where the process that holds the writer lock is
    wfile,      \* the file it has open
    aborts,
    total,      \* the number of the last event written
    gone,       \* the number of the last event whose file was removed
    excuse,     \* what has happened that the reader does not handle
    req,        \* the subscription
    rpc,        \* where the reader is
    afd, vfd,   \* the archive and the active file of its snapshot
    pos,        \* how many lines of the file at hand it has read
    lastIdent,  \* Reader.lastIdent
    seeked,     \* Reader.seeked
    last,       \* the number of the event delivered last, or skipped to
    kind,       \* the watcher's kind
    armed,      \* whether its Run has got to its loop
    dirty,      \* inotify: an event of the path is queued
    seen,       \* poll: what the last tick saw
    token,      \* the watcher's channel
    reached,    \* whether the store has the state Wait waits for
    waiter      \* where Wait is

fileVars == <<data, active, archive>>
writerVars == <<wpc, wfile, aborts, total, gone>>
readerVars == <<req, rpc, afd, vfd, pos, lastIdent, seeked, last>>
watchVars == <<kind, armed, dirty, seen, token>>
waitVars == <<reached, waiter>>
vars == <<fileVars, writerVars, excuse, readerVars, watchVars, waitVars>>

Marker == 0
None == 0
NumbersIn(f) == {data[f][i] : i \in DOMAIN data[f]} \ {Marker}
Greatest(S) == CHOOSE n \in S : \A m \in S : m <= n

Init ==
    /\ IF Stock = 0 THEN data = <<>> /\ active = None
                    ELSE data = << [i \in 1 .. Stock |-> i] >> /\ active = 1
    /\ archive = None
    /\ wpc = "free" /\ wfile = None /\ aborts = 0 /\ total = Stock /\ gone = 0 /\ excuse = {}
    /\ req \in Requests /\ rpc = "off" /\ afd = None /\ vfd = None /\ pos = 0
    /\ lastIdent = None /\ seeked = FALSE /\ last = 0
    /\ kind \in {"inotify", "poll"} /\ armed = FALSE /\ dirty = FALSE
    /\ seen = <<None, 0>> /\ token = FALSE
    /\ reached = FALSE /\ waiter = "off"
-----------------------------------------------------------------------------
(* Writer.Append                                                           *)

\* inotify queues an event when the file at the log's path changes.
Touch == dirty' = (dirty \/ (armed /\ kind = "inotify"))

\* The inodes a new file may get: the next one, or that of a file that no path
\* and no descriptor holds.  The inode is the one the reader remembers
\* (lastIdent) when "reused" becomes an excuse.
Freed == {f \in DOMAIN data : f \notin {active, archive, wfile, afd, vfd}}
Creates(f) ==
    /\ f \in {Len(data) + 1} \cup (IF MayReuse THEN Freed ELSE {})
    /\ active' = f /\ wfile' = f
    /\ data' = IF f \in DOMAIN data THEN [data EXCEPT ![f] = <<>>] ELSE Append(data, <<>>)
    /\ excuse' = IF f = lastIdent THEN excuse \cup {"reused"} ELSE excuse
    /\ Touch

\* Lock, open and stat: O_CREATE makes the file when there is none.
LockAndTruncate ==
    /\ wpc = "free" /\ total < MaxEvents
    /\ IF active # None
       THEN /\ wfile' = active /\ data' = [data EXCEPT ![active] = <<>>]
            /\ UNCHANGED <<active, archive, dirty, excuse>>
       ELSE (\E f \in 1 .. Len(data) + 1 : Creates(f)) /\ UNCHANGED archive
    /\ wpc' = "open"
    /\ UNCHANGED <<aborts, total, gone, readerVars, kind, armed, seen, token, waitVars>>
LockAndOpen ==
    /\ wpc = "free" /\ total < MaxEvents
    /\ IF active # None
       THEN wfile' = active /\ UNCHANGED <<fileVars, dirty, excuse>>
       ELSE (\E f \in 1 .. Len(data) + 1 : Creates(f)) /\ UNCHANGED archive
    /\ wpc' = "open"
    /\ UNCHANGED <<aborts, total, gone, readerVars, kind, armed, seen, token, waitVars>>

\* stat.Size()+len(line) > maxSize.
Full(f) == Len(data[f]) + 1 > Size

WriteEvent ==
    /\ wpc = "open" /\ ~Full(wfile)
    /\ data' = [data EXCEPT ![wfile] = Append(@, total + 1)]
    /\ total' = total + 1 /\ Touch
    /\ wpc' = "free" /\ wfile' = None
    /\ UNCHANGED <<active, archive, aborts, gone, excuse, readerVars,
                   kind, armed, seen, token, waitVars>>

\* The steps of rotateLocked, in their order.
WriteMarker ==
    /\ wpc = "open" /\ Full(wfile)
    /\ data' = [data EXCEPT ![wfile] = Append(@, Marker)] /\ Touch
    /\ wpc' = "marked"
    /\ UNCHANGED <<active, archive, wfile, aborts, total, gone, excuse, readerVars,
                   kind, armed, seen, token, waitVars>>

RemoveArchive ==
    /\ wpc = "marked"
    /\ archive' = None
    /\ gone' = IF archive = None \/ NumbersIn(archive) = {} THEN gone ELSE Greatest(NumbersIn(archive))
    /\ wpc' = "removed"
    /\ UNCHANGED <<data, active, wfile, aborts, total, excuse, readerVars, watchVars, waitVars>>

Rename ==
    /\ wpc = "removed"
    /\ archive' = active /\ active' = None /\ Touch
    /\ wpc' = "renamed"
    /\ UNCHANGED <<data, wfile, aborts, total, gone, excuse, readerVars,
                   kind, armed, seen, token, waitVars>>

Reopen ==
    /\ wpc = "renamed"
    /\ \E f \in 1 .. Len(data) + 1 : Creates(f)
    /\ wpc' = "open"
    /\ UNCHANGED <<archive, aborts, total, gone, readerVars, kind, armed, seen, token, waitVars>>

\* A step of the append fails, or its process dies: the lock goes with it.  A
\* marker that no rename followed stays in the active file.
Abort ==
    /\ wpc # "free" /\ aborts < MaxAborts
    /\ aborts' = aborts + 1
    /\ excuse' = excuse \cup (IF wpc \in {"marked", "removed"} THEN {"cut"} ELSE {})
    /\ wpc' = "free" /\ wfile' = None
    /\ UNCHANGED <<fileVars, total, gone, readerVars, watchVars, waitVars>>
-----------------------------------------------------------------------------
(* Service.Events and Reader.scanLoop                                      *)

FromEnd == req.follow /\ ~req.fromStart /\ req.since = 0 /\ req.until = 0

\* Events returns at once; the reader takes its snapshot later.
Subscribe ==
    /\ rpc = "off" /\ rpc' = "snapshot"
    /\ UNCHANGED <<fileVars, writerVars, excuse, req, afd, vfd, pos, lastIdent, seeked, last,
                   watchVars, waitVars>>

Zero == lastIdent = None
ShouldReplayAlways(f) == f # None /\ ~(Zero /\ FromEnd)
ShouldReplay(f) == f # None /\ IF Zero THEN ~FromEnd ELSE f # lastIdent

\* Both files are opened under the shared lock, so between two appends.
OpenSnapshot ==
    /\ rpc = "snapshot" /\ wpc = "free"
    /\ vfd' = active
    /\ IF ShouldReplay(archive)
       THEN afd' = archive /\ rpc' = "archive"
       ELSE afd' = None /\ rpc' = "active"
    /\ pos' = 0
    /\ UNCHANGED <<fileVars, writerVars, excuse, req, lastIdent, seeked, last, watchVars, waitVars>>

\* scanFile: the next line of file f, when there is one.
Line(f) == data[f][pos + 1]
More(f) == pos < Len(data[f])
Past(n) == req.until # 0 /\ n >= req.until
Before(n) == req.since # 0 /\ n < req.since

Off == {"off", "done", "closed"}

\* Run returns: what the reader and its watcher keep goes with it.
Finish(how) ==
    /\ rpc' = how /\ afd' = None /\ vfd' = None /\ pos' = 0
    /\ lastIdent' = None /\ seeked' = FALSE
    /\ armed' = FALSE /\ dirty' = FALSE /\ seen' = <<None, 0>> /\ token' = FALSE
    /\ UNCHANGED <<fileVars, writerVars, excuse, req, last, kind, waitVars>>

Deliver(f) ==
    /\ More(f) /\ Line(f) # Marker
    /\ ~Past(Line(f))
    /\ pos' = pos + 1 /\ last' = IF Before(Line(f)) THEN last ELSE Line(f)
    /\ UNCHANGED <<fileVars, writerVars, excuse, req, rpc, afd, vfd, lastIdent, seeked,
                   watchVars, waitVars>>
ReachUntil(f) == More(f) /\ Line(f) # Marker /\ Past(Line(f)) /\ Finish("done")

ReadArchive == rpc = "archive" /\ (Deliver(afd) \/ ReachUntil(afd))

ArchiveRead ==
    /\ rpc = "archive" /\ (More(afd) => Line(afd) = Marker)
    /\ lastIdent' = afd /\ afd' = None /\ rpc' = "active"
    /\ UNCHANGED <<fileVars, writerVars, excuse, req, vfd, pos, seeked, last, watchVars, waitVars>>

NoActive ==
    /\ rpc = "active" /\ vfd = None /\ req.follow
    /\ rpc' = "wait" /\ seeked' = TRUE
    /\ last' = IF FromEnd /\ ~seeked THEN total ELSE last
    /\ excuse' = excuse \cup (IF FromEnd /\ Zero THEN {"late"} ELSE {})
    /\ UNCHANGED <<fileVars, writerVars, req, afd, vfd, pos, lastIdent, watchVars, waitVars>>

\* The newest event that is in file f or older than it.
EndOf(f) == IF NumbersIn(f) = {} THEN total ELSE Greatest(NumbersIn(f))

\* The file has its marker: a seek to its end goes past it.
Marked(f) == \E i \in DOMAIN data[f] : data[f][i] = Marker

ScanActive ==
    /\ rpc = "active" /\ vfd # None
    /\ IF FromEnd /\ ~seeked
       THEN /\ pos' = Len(data[vfd]) /\ last' = EndOf(vfd) /\ seeked' = TRUE
            /\ excuse' = IF Marked(vfd) THEN excuse \cup {"deaf"} ELSE excuse
       ELSE pos' = 0 /\ UNCHANGED <<last, seeked, excuse>>
    /\ lastIdent' = vfd /\ rpc' = "scan"
    /\ UNCHANGED <<fileVars, writerVars, req, afd, vfd, watchVars, waitVars>>

ReadActive == rpc = "scan" /\ (Deliver(vfd) \/ ReachUntil(vfd))

SeeMarker ==
    /\ rpc = "scan" /\ More(vfd) /\ Line(vfd) = Marker
    /\ vfd' = None /\ rpc' = "snapshot"
    /\ UNCHANGED <<fileVars, writerVars, excuse, req, afd, pos, lastIdent, seeked, last,
                   watchVars, waitVars>>

EndOfActive ==
    /\ rpc = "scan" /\ ~More(vfd) /\ req.follow
    /\ rpc' = "tail"
    /\ UNCHANGED <<fileVars, writerVars, excuse, req, afd, vfd, pos, lastIdent, seeked, last,
                   watchVars, waitVars>>

OneShotDone ==
    /\ ~req.follow
    /\ (rpc = "scan" /\ ~More(vfd)) \/ (rpc = "active" /\ vfd = None)
    /\ Finish("done")

\* Reader.wait: one token of the watcher.
TakeToken ==
    /\ rpc \in {"wait", "tail"} /\ token
    /\ token' = FALSE /\ rpc' = IF rpc = "wait" THEN "snapshot" ELSE "scan"
    /\ UNCHANGED <<fileVars, writerVars, excuse, req, afd, vfd, pos, lastIdent, seeked, last,
                   kind, armed, dirty, seen, waitVars>>

CloseSubscription == rpc \notin Off /\ Finish("closed")
-----------------------------------------------------------------------------
(* The watchers                                                            *)

Arm ==
    /\ rpc \notin Off /\ req.follow /\ ~armed
    /\ armed' = TRUE /\ token' = TRUE
    /\ UNCHANGED <<fileVars, writerVars, excuse, readerVars, kind, dirty, seen, waitVars>>

Inotify ==
    /\ dirty /\ dirty' = FALSE /\ token' = TRUE
    /\ UNCHANGED <<fileVars, writerVars, excuse, readerVars, kind, armed, seen, waitVars>>

\* What os.Stat of the path tells: nothing when there is no file.
StatSize == IF active = None THEN <<None, 0>> ELSE <<None, Len(data[active])>>
Stat == IF active = None THEN <<None, 0>> ELSE <<active, Len(data[active])>>

Poll ==
    /\ armed /\ kind = "poll" /\ Stat # seen
    /\ seen' = Stat /\ token' = TRUE
    /\ UNCHANGED <<fileVars, writerVars, excuse, readerVars, kind, armed, dirty, waitVars>>
-----------------------------------------------------------------------------
(* Service.Wait                                                            *)

\* The monitor saves the state before it appends the event that tells of it.
Reach ==
    /\ ~reached /\ total < MaxEvents /\ wpc = "free" /\ waiter # "off"
    /\ reached' = TRUE
    /\ UNCHANGED <<fileVars, writerVars, excuse, readerVars, watchVars, waiter>>

\* Subscribe first, then read.
BeginWait ==
    /\ waiter = "off" /\ rpc # "off" /\ FromEnd
    /\ waiter' = "read"
    /\ UNCHANGED <<fileVars, writerVars, excuse, readerVars, watchVars, reached>>

ReadState ==
    /\ waiter = "read"
    /\ waiter' = IF reached THEN "done" ELSE "block"
    /\ UNCHANGED <<fileVars, writerVars, excuse, readerVars, watchVars, reached>>

\* A tick, or a record of the subscription, which is never later than a tick.
WakesOnRecord ==
    /\ waiter = "block" /\ rpc = "scan" /\ More(vfd)
    /\ waiter' = "read"
    /\ UNCHANGED <<fileVars, writerVars, excuse, readerVars, watchVars, reached>>
Wakes ==
    /\ waiter = "block"
    /\ waiter' = "read"
    /\ UNCHANGED <<fileVars, writerVars, excuse, readerVars, watchVars, reached>>
-----------------------------------------------------------------------------
WriterNext == LockAndOpen \/ WriteEvent \/ WriteMarker \/ RemoveArchive \/ Rename \/ Reopen \/ Abort
ReaderNext == OpenSnapshot \/ ReadArchive \/ ArchiveRead \/ NoActive \/ ScanActive \/ ReadActive
              \/ SeeMarker \/ EndOfActive \/ OneShotDone \/ TakeToken
WatcherNext == Arm \/ Inotify \/ Poll
WaitNext == ReadState \/ Wakes

\* Everything may be at rest: no append is asked for and the reader waits.
Rest == UNCHANGED vars

Next == WriterNext \/ Subscribe \/ ReaderNext \/ CloseSubscription \/ WatcherNext
        \/ Reach \/ BeginWait \/ WaitNext \/ Rest

Spec == Init /\ [][Next]_vars

\* An append that has the lock goes on or fails; the reader, its watcher and
\* Wait are goroutines that run; the shared lock is granted when it is free
\* again and again.
FairSpec ==
    /\ Spec
    /\ WF_vars(WriterNext /\ wpc # "free")
    /\ SF_vars(OpenSnapshot)
    /\ WF_vars(ReaderNext /\ rpc # "snapshot")
    /\ WF_vars(Arm) /\ WF_vars(Inotify) /\ WF_vars(Poll)
    /\ WF_vars(ReadState) /\ WF_vars(Wakes)
-----------------------------------------------------------------------------
(* Properties                                                              *)

\* The files, the reader's position and the channels stay in their domains:
\* a descriptor is open exactly while the scan of its file needs it.
TypeOK ==
    /\ active \in {None} \cup DOMAIN data /\ archive \in {None} \cup DOMAIN data
    /\ data \in Seq(Seq(0 .. MaxEvents))
    /\ wpc \in {"free", "open", "marked", "removed", "renamed"}
    /\ (wpc = "free" <=> wfile = None)
    /\ total \in 0 .. MaxEvents /\ gone \in 0 .. total
    /\ excuse \subseteq {"cut", "late", "reused", "deaf"}
    /\ rpc \in {"off", "snapshot", "archive", "active", "scan", "tail", "wait", "done", "closed"}
    /\ (rpc = "archive" <=> afd # None)
    /\ rpc \in {"scan", "tail"} => vfd # None /\ pos <= Len(data[vfd])
    /\ last \in 0 .. total /\ waiter \in {"off", "read", "block", "done"}

\* The two paths hold the newest events, in their order and without a hole,
\* wherever a rotation has been cut: only what an archive held that a newer
\* one replaced is gone (rotateLocked).
Held(f) == IF f = None THEN {} ELSE NumbersIn(f)
Ascending(f) ==
    \A i, j \in DOMAIN data[f] : i < j /\ Marker \notin {data[f][i], data[f][j]} => data[f][i] < data[f][j]
NewestKept ==
    /\ Held(archive) \cup Held(active) = gone + 1 .. total
    /\ \A f \in {archive, active} \ {None} : Ascending(f)
    /\ \A m \in Held(archive), n \in Held(active) : m < n

\* The events a reader delivers are in the order of the log, each once, and
\* the only ones it leaves out were dropped by the rotation after next, or are
\* older than since.  The exceptions are those the code does not handle (excuse).
InOrder ==
    last' # last /\ excuse' = {} =>
        /\ last' > last
        /\ \/ last = 0 /\ FromEnd
           \/ \A n \in last + 1 .. last' - 1 : n <= gone \/ Before(n)

\* A one-shot read that meets the end of the log has delivered all there is,
\* through the rotations it has seen on the way.
OneShotComplete ==
    rpc # "done" /\ rpc' = "done" /\ vfd # None /\ req.until = 0 /\ excuse = {} =>
        last = total \/ Before(total)

\* While the log's path has a file, a follower is up to date again and again,
\* whatever its watcher and however often the log rotates: no change falls
\* between the end of file it met and the token it waits for.
CatchesUp ==
    []<>(\/ rpc \in Off \/ ~req.follow \/ active = None
         \/ last = total \/ Before(total) \/ excuse \cap {"late", "reused", "deaf"} # {})

\* A one-shot read ends, unless a cut rotation has left a marker it turns back at.
OneShotEnds == []<>(rpc \in Off \/ req.follow \/ "cut" \in excuse)

\* Wait returns once the state it waits for is in the store, though the event
\* that tells of it may be older than the snapshot its subscription begins at.
WaitReturns == []<>(reached /\ waiter # "off" => waiter = "done")

\* The log's files are sound at every step of an append.
LogSafety == TypeOK /\ NewestKept

\* Every delivery is in order, and the end of a one-shot read leaves nothing out.
ReadsInOrder == [][InOrder /\ OneShotComplete]_vars

\* One-shot reads and waits come to an end.
ReadersEnd == OneShotEnds /\ WaitReturns
=============================================================================
