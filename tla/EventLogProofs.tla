--------------------------- MODULE EventLogProofs ---------------------------
(***************************************************************************)
(* Theorems about EventLog, for files of any size, any number of events    *)
(* and of cut appends, any requests, and inodes that are reused or not.    *)
(***************************************************************************)
EXTENDS EventLog, TLAPS

-----------------------------------------------------------------------------
(* The inductive invariant, part by part.                                  *)

Files == 1 .. Len(data)

\* Of the contents d of the files: number n is in file f.
Has(d, f, n) == f # None /\ n # Marker /\ \E i \in 1 .. Len(d[f]) : d[f][i] = n
In(f, n) == Has(data, f, n)

\* The files: what was written to each, and which paths the writer has where.
FileType ==
    /\ data \in Seq(Seq(0 .. MaxEvents)) /\ total \in 0 .. MaxEvents /\ gone \in 0 .. total
    /\ \A f \in {active, archive, wfile, afd, vfd, lastIdent} : f \in {None} \cup Files
    /\ active # None => active # archive
WriterInv ==
    /\ wpc \in {"free", "open", "marked", "removed", "renamed"}
    /\ IF wpc = "free" THEN wfile = None ELSE total < MaxEvents
    /\ wpc \in {"open", "marked", "removed"} => wfile = active /\ active # None
    /\ wpc \in {"marked", "removed"} => Marked(active)
    /\ wpc = "removed" => archive = None
    /\ wpc = "renamed" => wfile = archive /\ archive # None /\ active = None
Upto(f) == \A i \in 1 .. Len(data[f]) : data[f][i] <= total
Rises(f) ==
    \A i, j \in 1 .. Len(data[f]) : i < j /\ data[f][i] # Marker /\ data[f][j] # Marker => data[f][i] < data[f][j]
Topped(f) == (\E n \in Nat : In(f, n)) => \E m \in Nat : In(f, m) /\ \A n \in Nat : In(f, n) => n <= m
LineInv(f) == Upto(f) /\ Rises(f) /\ Topped(f) /\ (f # active => Marked(f))
LinesInv == \A f \in Files : LineInv(f)

\* The archive holds the older events that are left, the active file the newer.
SplitAt(mid) ==
    /\ gone <= mid /\ mid <= total
    /\ \A n \in Nat : In(archive, n) <=> gone < n /\ n <= mid
    /\ \A n \in Nat : In(active, n) <=> mid < n /\ n <= total
SplitInv == \E mid \in Nat : SplitAt(mid)

\* What a file of neither path holds is gone.
GoneInv == \A f \in Files : f # active /\ f # archive => \A n \in Nat : In(f, n) => n <= gone

\* Without a rotation that was cut, a marker ends its file, and the active
\* file has one only in the midst of a rotation, and never holds it alone.
EndMarked(f) == \A i \in 1 .. Len(data[f]) : data[f][i] = Marker => i = Len(data[f])
MarkInv ==
    "cut" \notin excuse =>
        /\ \A f \in Files : EndMarked(f)
        /\ active # None /\ Marked(active) => wpc \in {"marked", "removed"}
        /\ wpc \in {"marked", "removed"} => In(active, total)
        /\ total = 0 \/ gone < total

\* The reader.
ReaderType ==
    /\ excuse \subseteq {"cut", "late", "reused", "deaf"}
    /\ req \in Requests
    /\ rpc \in {"off", "snapshot", "archive", "active", "scan", "tail", "wait", "done", "closed"}
    /\ last \in 0 .. total /\ pos \in Nat /\ seeked \in BOOLEAN
    /\ waiter \in {"off", "read", "block", "done"}
    /\ rpc = "archive" <=> afd # None
    /\ vfd # None => rpc \in {"archive", "active", "scan", "tail"}
    /\ rpc \in {"scan", "tail"} => vfd # None /\ lastIdent = vfd /\ pos <= Len(data[vfd])
    /\ rpc = "archive" => pos <= Len(data[afd]) /\ afd # active
    /\ rpc = "off" => lastIdent = None /\ last = 0 /\ ~seeked

\* Of file f, the reader has read k lines, and none of the rest.
ReadTo(f, k) ==
    \A i \in 1 .. Len(data[f]) :
        IF i <= k THEN data[f][i] # Marker /\ (data[f][i] <= last \/ Before(data[f][i]))
                  ELSE data[f][i] = Marker \/ data[f][i] > last
Done(f) == \A n \in Nat : In(f, n) => n <= last \/ Before(n)
Ahead(f) == \A n \in Nat : In(f, n) => n > last

Precedes(f, g) == \A m, n \in Nat : In(f, m) /\ In(g, n) => m < n

\* Files newer than f are ahead of the reader, and older ones behind it.
NewerAhead(f) == (f # active => Ahead(active)) /\ (f # active /\ f # archive => Ahead(archive))
OlderDone(f) == f = active => Done(archive)

\* Between two snapshots.
Settled ==
    IF lastIdent = None THEN last = 0
                        ELSE Done(lastIdent) /\ Marked(lastIdent) /\ NewerAhead(lastIdent)
SeekInv ==
    /\ FromEnd /\ ~seeked /\ rpc \notin Off => lastIdent = None /\ last = 0 /\ rpc \in {"snapshot", "active"}
    /\ FromEnd /\ lastIdent = None /\ rpc \notin Off => ~seeked
\* In the archive of the snapshot, with the active file to come.
Coming ==
    /\ Ahead(vfd) /\ vfd # afd /\ NewerAhead(vfd) /\ Precedes(afd, vfd)
    /\ vfd = active => archive \in {afd, None}
    /\ afd = archive => vfd = active
InArchive == ReadTo(afd, pos) /\ NewerAhead(afd) /\ (vfd # None => Coming)
AtActive == Ahead(vfd) /\ NewerAhead(vfd) /\ OlderDone(vfd)
InActive == ReadTo(vfd, pos) /\ NewerAhead(vfd) /\ OlderDone(vfd)
ReaderInv ==
    excuse = {} =>
        /\ SeekInv
        /\ rpc \in {"snapshot", "wait"} => Settled
        /\ rpc = "archive" => InArchive
        /\ rpc = "active" /\ ~(FromEnd /\ ~seeked) => IF vfd = None THEN Settled ELSE AtActive
        /\ rpc \in {"scan", "tail"} => InActive

LogInv == FileType /\ WriterInv /\ LinesInv /\ SplitInv /\ GoneInv /\ MarkInv /\ ReaderType /\ ReaderInv

-----------------------------------------------------------------------------
(* What a writer does to a file.                                           *)

Same(d, e, f) == \A g \in 1 .. Len(d) : g # f => e[g] = d[g]
Appended(d, e, f, x) ==
    /\ f \in 1 .. Len(d) /\ Len(e) = Len(d) /\ Same(d, e, f)
    /\ Len(e[f]) = Len(d[f]) + 1 /\ e[f][Len(d[f]) + 1] = x
    /\ \A i \in 1 .. Len(d[f]) : e[f][i] = d[f][i]
Emptied(d, e, f) ==
    /\ f \in 1 .. Len(e) /\ Same(d, e, f) /\ Len(e[f]) = 0
    /\ Len(d) <= Len(e) /\ \A g \in 1 .. Len(e) : g = f \/ g \in 1 .. Len(d)

LEMMA Bounds ==
    /\ Size \in Nat \ {0} /\ MaxEvents \in Nat /\ MaxAborts \in Nat /\ Stock \in Nat
BY EventLogAssumption

LEMMA AppendDone ==
    ASSUME NEW d \in Seq(Seq(0 .. MaxEvents)), NEW f \in 1 .. Len(d), NEW x \in 0 .. MaxEvents, NEW e,
           e = [d EXCEPT ![f] = Append(@, x)]
    PROVE  e \in Seq(Seq(0 .. MaxEvents)) /\ Appended(d, e, f, x)
<1>1. d[f] \in Seq(0 .. MaxEvents) /\ Append(d[f], x) \in Seq(0 .. MaxEvents)
  OBVIOUS
<1>2. e \in Seq(Seq(0 .. MaxEvents)) /\ Len(e) = Len(d) /\ e[f] = Append(d[f], x) /\ Same(d, e, f)
  BY <1>1 DEF Same
<1> QED BY <1>1, <1>2 DEF Appended

LEMMA EmptyDone ==
    ASSUME NEW d \in Seq(Seq(0 .. MaxEvents)), NEW f \in 1 .. Len(d) + 1, NEW e,
           e = IF f \in DOMAIN d THEN [d EXCEPT ![f] = <<>>] ELSE Append(d, <<>>)
    PROVE  e \in Seq(Seq(0 .. MaxEvents)) /\ Emptied(d, e, f)
<1>1. <<>> \in Seq(0 .. MaxEvents) /\ Len(<<>>) = 0
  OBVIOUS
<1>2. CASE f \in DOMAIN d
  BY <1>1, <1>2 DEF Emptied, Same
<1>3. CASE f \notin DOMAIN d
  <2>1. f = Len(d) + 1 /\ e = Append(d, <<>>) /\ Len(d) \in Nat
    BY <1>3
  <2>2. e \in Seq(Seq(0 .. MaxEvents)) /\ Len(e) = Len(d) + 1 /\ e[f] = <<>> /\ \A g \in 1 .. Len(d) : e[g] = d[g]
    <3>1. ASSUME NEW z \in Seq(0 .. MaxEvents)
          PROVE  /\ Append(d, z) \in Seq(Seq(0 .. MaxEvents)) /\ Len(Append(d, z)) = Len(d) + 1
                 /\ Append(d, z)[Len(d) + 1] = z /\ \A g \in 1 .. Len(d) : Append(d, z)[g] = d[g]
      OBVIOUS
    <3>2. PICK z \in Seq(0 .. MaxEvents) : z = <<>>
      BY <1>1
    <3>3. e = Append(d, z)
      BY <2>1, <3>2
    <3> QED BY <2>1, <3>1, <3>2, <3>3
  <2> QED BY <1>1, <2>1, <2>2 DEF Emptied, Same
<1> QED BY <1>2, <1>3

LEMMA HasAppended ==
    ASSUME NEW d, NEW e, NEW f, NEW x \in Nat, Appended(d, e, f, x), Len(d[f]) \in Nat, f # None,
           NEW g \in {None} \cup 1 .. Len(d), NEW n \in Nat
    PROVE  Has(e, g, n) <=> Has(d, g, n) \/ (g = f /\ n = x /\ x # Marker)
<1>1. CASE g # f
  <2>1. g = None \/ e[g] = d[g]
    BY <1>1 DEF Appended, Same
  <2> QED BY <1>1, <2>1 DEF Has
<1>2. CASE g = f
  <2>1. Len(d[f]) + 1 \in 1 .. Len(e[f]) /\ e[f][Len(d[f]) + 1] = x /\ Len(e[f]) = Len(d[f]) + 1
    BY DEF Appended
  <2>2. \A i \in 1 .. Len(d[f]) : i \in 1 .. Len(e[f]) /\ e[f][i] = d[f][i]
    BY <2>1 DEF Appended
  <2>3. \A i \in 1 .. Len(e[f]) : i \in 1 .. Len(d[f]) \/ i = Len(d[f]) + 1
    BY <2>1
  <2> QED BY <1>2, <2>1, <2>2, <2>3 DEF Has
<1> QED BY <1>1, <1>2

LEMMA HasEmptied ==
    ASSUME NEW d, NEW e, NEW f, Emptied(d, e, f),
           NEW g \in {None} \cup 1 .. Len(d), NEW n
    PROVE  Has(e, g, n) <=> Has(d, g, n) /\ g # f
<1>1. CASE g # f
  <2>1. g = None \/ e[g] = d[g]
    BY <1>1 DEF Emptied, Same
  <2> QED BY <1>1, <2>1 DEF Has
<1>2. CASE g = f
  BY <1>2 DEF Emptied, Has
<1> QED BY <1>1, <1>2

-----------------------------------------------------------------------------
(* The steps, by what they do to the files and to the reader.              *)

Makes(f) ==
    /\ wpc \in {"free", "renamed"} /\ active = None
    /\ f # None /\ f \notin {archive, wfile, afd, vfd}
    /\ Emptied(data, data', f) /\ data' \in Seq(Seq(0 .. MaxEvents))
    /\ active' = f /\ wfile' = f /\ wpc' = "open" /\ UNCHANGED <<archive, total, gone>>
    /\ excuse \subseteq excuse' /\ excuse' \subseteq excuse \cup {"reused"}
    /\ f = lastIdent => "reused" \in excuse'
Opens ==
    /\ wpc = "free" /\ active # None /\ wpc' = "open" /\ wfile' = active
    /\ UNCHANGED <<data, active, archive, total, gone, excuse>>
Writes ==
    /\ wpc = "open" /\ total < MaxEvents
    /\ Appended(data, data', active, total + 1) /\ data' \in Seq(Seq(0 .. MaxEvents))
    /\ total' = total + 1 /\ wpc' = "free" /\ wfile' = None
    /\ UNCHANGED <<active, archive, gone, excuse>>
Marks ==
    /\ wpc = "open" /\ Len(data[active]) >= Size
    /\ Appended(data, data', active, Marker) /\ data' \in Seq(Seq(0 .. MaxEvents))
    /\ wpc' = "marked" /\ UNCHANGED <<active, archive, wfile, total, gone, excuse>>
Removes ==
    /\ wpc = "marked" /\ wpc' = "removed" /\ archive' = None
    /\ gone' = IF archive = None \/ NumbersIn(archive) = {} THEN gone ELSE Greatest(NumbersIn(archive))
    /\ UNCHANGED <<data, active, wfile, total, excuse>>
Renames ==
    /\ wpc = "removed" /\ wpc' = "renamed" /\ archive' = active /\ active' = None
    /\ UNCHANGED <<data, wfile, total, gone, excuse>>
Aborts ==
    /\ wpc # "free" /\ wpc' = "free" /\ wfile' = None
    /\ excuse' = excuse \cup (IF wpc \in {"marked", "removed"} THEN {"cut"} ELSE {})
    /\ UNCHANGED <<data, active, archive, total, gone>>
Writing == (\E f \in Nat : Makes(f)) \/ Opens \/ Writes \/ Marks \/ Removes \/ Renames \/ Aborts

LEMMA WriterSteps ==
    ASSUME FileType, WriterInv, WriterNext
    PROVE  Writing /\ UNCHANGED <<readerVars, waitVars>> /\ (wpc = "free" => total < MaxEvents)
<1>0. Len(data) \in Nat /\ data \in Seq(Seq(0 .. MaxEvents)) /\ total \in Nat
  BY Bounds DEF FileType
<1>1. ASSUME NEW f \in 1 .. Len(data) + 1, Creates(f), active = None, UNCHANGED archive, wpc \in {"free", "renamed"},
             wpc' = "open", UNCHANGED <<total, gone>>
      PROVE  \E g \in Nat : Makes(g)
  <2>1. f \in Nat /\ f # None
    BY <1>0 DEF None
  <2>2. f \notin {archive, wfile, afd, vfd}
    BY <1>0, <1>1 DEF Creates, Freed, FileType, Files, None
  <2>3. Emptied(data, data', f) /\ data' \in Seq(Seq(0 .. MaxEvents))
    BY <1>0, <1>1, EmptyDone DEF Creates
  <2>4. active' = f /\ wfile' = f /\ excuse \subseteq excuse' /\ excuse' \subseteq excuse \cup {"reused"}
        /\ (f = lastIdent => "reused" \in excuse')
    BY <1>1 DEF Creates
  <2> QED BY <1>1, <2>1, <2>2, <2>3, <2>4 DEF Makes
<1>2. CASE LockAndOpen
  <2>1. CASE active # None
    BY <1>2, <2>1 DEF LockAndOpen, fileVars, Opens, Writing
  <2>2. CASE active = None
    BY <1>1, <1>2, <2>2 DEF LockAndOpen, Writing
  <2> QED BY <1>2, <2>1, <2>2 DEF LockAndOpen
<1>3. CASE Reopen
  BY <1>1, <1>3 DEF Reopen, WriterInv, Writing
<1>4. CASE WriteEvent
  <2>1. wfile = active /\ active \in 1 .. Len(data) /\ total + 1 \in 0 .. MaxEvents /\ total < MaxEvents
    BY <1>0, <1>4, Bounds DEF WriteEvent, WriterInv, FileType, Files, None
  <2>2. Appended(data, data', active, total + 1) /\ data' \in Seq(Seq(0 .. MaxEvents))
    BY <1>0, <1>4, <2>1, AppendDone DEF WriteEvent
  <2> QED BY <1>4, <2>1, <2>2 DEF WriteEvent, Writes, Writing
<1>5. CASE WriteMarker
  <2>1. wfile = active /\ active \in 1 .. Len(data) /\ Marker \in 0 .. MaxEvents
    BY <1>0, <1>5, Bounds DEF WriteMarker, WriterInv, FileType, Files, None, Marker
  <2>2. Appended(data, data', active, Marker) /\ data' \in Seq(Seq(0 .. MaxEvents))
    BY <1>0, <1>5, <2>1, AppendDone DEF WriteMarker
  <2>3. Len(data[active]) >= Size
    BY <1>0, <1>5, <2>1, Bounds DEF WriteMarker, Full
  <2> QED BY <1>5, <2>1, <2>2, <2>3 DEF WriteMarker, Marks, Writing
<1>6. CASE RemoveArchive
  BY <1>6 DEF RemoveArchive, Removes, Writing
<1>7. CASE Rename
  BY <1>7 DEF Rename, Renames, Writing
<1>8. CASE Abort
  BY <1>8 DEF Abort, Aborts, Writing, fileVars
<1> QED BY <1>2, <1>3, <1>4, <1>5, <1>6, <1>7, <1>8 DEF WriterNext

-----------------------------------------------------------------------------
(* The files.                                                              *)

FilesInv == FileType /\ WriterInv /\ LinesInv /\ SplitInv /\ GoneInv /\ MarkInv

LEMMA LineTyped ==
    ASSUME FileType
    PROVE  /\ Len(data) \in Nat /\ total \in Nat /\ gone \in Nat /\ gone <= total
           /\ \A f \in Files : /\ Len(data[f]) \in Nat /\ DOMAIN data[f] = 1 .. Len(data[f])
                               /\ \A i \in 1 .. Len(data[f]) : data[f][i] \in Nat
                               /\ f \in Nat /\ f # None
<1>1. Len(data) \in Nat /\ total \in Nat /\ gone \in Nat /\ gone <= total
  BY Bounds DEF FileType
<1>2. ASSUME NEW f \in Files PROVE f \in Nat /\ f # None /\ data[f] \in Seq(0 .. MaxEvents)
  BY <1>1 DEF FileType, Files, None
<1>3. ASSUME NEW f \in Files PROVE Len(data[f]) \in Nat /\ DOMAIN data[f] = 1 .. Len(data[f]) /\ \A i \in 1 .. Len(data[f]) : data[f][i] \in Nat
  BY <1>2, Bounds
<1> QED BY <1>1, <1>2, <1>3

LEMMA GreatestIn ==
    ASSUME NEW f \in Files, FileType, Topped(f), NumbersIn(f) # {}
    PROVE  /\ Greatest(NumbersIn(f)) \in Nat /\ In(f, Greatest(NumbersIn(f)))
           /\ \A n \in Nat : In(f, n) => n <= Greatest(NumbersIn(f))
<1>1. \A n \in Nat : n \in NumbersIn(f) <=> In(f, n)
  BY LineTyped DEF NumbersIn, In, Has, FileType, Files
<1>2. NumbersIn(f) \subseteq Nat
  BY LineTyped DEF NumbersIn, FileType, Files
<1>3. PICK m \in Nat : In(f, m) /\ \A n \in Nat : In(f, n) => n <= m
  BY <1>1, <1>2 DEF Topped
<1>4. m \in NumbersIn(f) /\ \A n \in NumbersIn(f) : n <= m
  BY <1>1, <1>2, <1>3
<1>5. Greatest(NumbersIn(f)) \in NumbersIn(f) /\ \A n \in NumbersIn(f) : n <= Greatest(NumbersIn(f))
  BY <1>4 DEF Greatest
<1> QED BY <1>1, <1>2, <1>5

LEMMA NoneIn ==
    ASSUME NEW f \in {None} \cup Files, FileType, f = None \/ NumbersIn(f) = {}
    PROVE  \A n \in Nat : ~In(f, n)
<1>1. CASE f = None
  BY <1>1 DEF In, Has
<1>2. CASE f # None /\ NumbersIn(f) = {}
  <2>1. f \in Files /\ DOMAIN data[f] = 1 .. Len(data[f])
    BY <1>2, LineTyped
  <2> QED BY <1>2, <2>1 DEF In, Has, NumbersIn
<1> QED BY <1>1, <1>2

LEMMA TypesStep ==
    ASSUME FilesInv, Writing, UNCHANGED readerVars, wpc = "free" => total < MaxEvents
    PROVE  FileType' /\ WriterInv'
<1> USE LineTyped, Bounds DEF FilesInv, readerVars
<1>1. CASE Opens
  BY <1>1 DEF Opens, FileType, WriterInv, Files
<1>2. ASSUME NEW f \in Nat, Makes(f) PROVE FileType' /\ WriterInv'
  <2>1. f \in 1 .. Len(data') /\ 1 .. Len(data) \subseteq 1 .. Len(data')
    BY <1>2 DEF Makes, Emptied, FileType
  <2>2. FileType'
    BY <1>2, <2>1 DEF Makes, FileType, Files
  <2>3. WriterInv'
    BY <1>2 DEF Makes, WriterInv
  <2> QED BY <2>2, <2>3
<1>3. CASE Writes
  <2>1. Len(data') = Len(data)
    BY <1>3 DEF Writes, Appended
  <2>2. FileType'
    BY <1>3, <2>1 DEF Writes, FileType, Files
  <2>3. WriterInv'
    BY <1>3 DEF Writes, WriterInv
  <2> QED BY <2>2, <2>3
<1>4. CASE Marks
  <2>1. Len(data') = Len(data)
    BY <1>4 DEF Marks, Appended
  <2>2. FileType'
    BY <1>4, <2>1 DEF Marks, FileType, Files
  <2>3. Marked(active)'
    <3>1. active \in 1 .. Len(data') /\ active' = active /\ Len(data[active]) \in Nat
      BY <1>4, <2>1 DEF Marks, WriterInv, FileType, Files
    <3>2. data'[active] \in Seq(0 .. MaxEvents) /\ Len(data'[active]) = Len(data[active]) + 1
      BY <1>4, <3>1 DEF Marks, Appended
    <3>3. Len(data[active]) + 1 \in DOMAIN data'[active] /\ data'[active][Len(data[active]) + 1] = Marker
      BY <1>4, <3>1, <3>2 DEF Marks, Appended
    <3> QED BY <3>1, <3>3 DEF Marked
  <2>4. WriterInv'
    BY <1>4, <2>3 DEF Marks, WriterInv
  <2> QED BY <2>2, <2>4
<1>5. CASE Removes
  <2>1. gone' \in 0 .. total
    <3>1. CASE archive = None \/ NumbersIn(archive) = {}
      BY <1>5, <3>1 DEF Removes
    <3>2. CASE archive # None /\ NumbersIn(archive) # {}
      <4>1. archive \in Files
        BY <3>2 DEF FileType
      <4>2. gone' \in Nat /\ In(archive, gone')
        BY <1>5, <3>2, <4>1, GreatestIn DEF Removes, LinesInv, LineInv
      <4>3. gone' <= total
        BY <4>1, <4>2 DEF In, Has, LinesInv, LineInv, Upto
      <4> QED BY <4>2, <4>3
    <3> QED BY <3>1, <3>2
  <2>2. FileType'
    BY <1>5, <2>1 DEF Removes, FileType, Files
  <2>3. WriterInv'
    BY <1>5 DEF Removes, WriterInv, Marked
  <2> QED BY <2>2, <2>3
<1>6. CASE Renames
  BY <1>6 DEF Renames, FileType, WriterInv, Files
<1>7. CASE Aborts
  BY <1>7 DEF Aborts, FileType, WriterInv, Files
<1> QED BY <1>1, <1>2, <1>3, <1>4, <1>5, <1>6, <1>7 DEF Writing

LEMMA LinesStep ==
    ASSUME FilesInv, Writing
    PROVE  LinesInv'
<1> USE LineTyped, Bounds DEF FilesInv
<1>1. ASSUME UNCHANGED <<data, total>>, active' \in {active, None}, active' # active => Marked(active) PROVE LinesInv'
  <2> SUFFICES ASSUME NEW g \in Files PROVE LineInv(g)'
    BY <1>1 DEF LinesInv, Files
  <2>1. LineInv(g)
    BY DEF LinesInv
  <2>2. Upto(g)' /\ Rises(g)' /\ Topped(g)' /\ (Marked(g) => Marked(g)')
    BY <1>1, <2>1 DEF LineInv, Upto, Rises, Topped, In, Has, Marked
  <2> QED BY <1>1, <2>1, <2>2 DEF LineInv
<1>2. ASSUME NEW f \in Nat, Makes(f) PROVE LinesInv'
  <2> SUFFICES ASSUME NEW g \in 1 .. Len(data') PROVE LineInv(g)'
    BY DEF LinesInv, Files
  <2>1. CASE g = f
    BY <1>2, <2>1 DEF Makes, Emptied, LineInv, Upto, Rises, Topped, In, Has
  <2>2. CASE g # f
    <3>1. g \in Files /\ data'[g] = data[g] /\ total' = total
      BY <1>2, <2>2 DEF Makes, Emptied, Same, Files
    <3>2. LineInv(g) /\ g # active
      BY <1>2, <3>1 DEF LinesInv, Makes
    <3> QED BY <3>1, <3>2 DEF LineInv, Upto, Rises, Topped, In, Has, Marked
  <2> QED BY <2>1, <2>2
<1>3. ASSUME NEW x \in {Marker, total + 1}, Appended(data, data', active, x), total' \in {total, total + 1}, x <= total',
             active' = active, active # None, active \in Files
      PROVE  LinesInv'
  <2> SUFFICES ASSUME NEW g \in Files PROVE LineInv(g)'
    BY <1>3 DEF LinesInv, Files, Appended
  <2>0. LineInv(g) /\ x \in Nat
    BY DEF LinesInv, Marker
  <2>1. CASE g # active
    <3>1. data'[g] = data[g]
      BY <1>3, <2>1 DEF Appended, Same, Files
    <3>2. Upto(g)'
      BY <1>3, <2>0, <3>1 DEF LineInv, Upto
    <3> QED BY <1>3, <2>0, <2>1, <3>1, <3>2 DEF LineInv, Rises, Topped, In, Has, Marked
  <2>2. CASE g = active
    <3>1. /\ Len(data'[g]) = Len(data[g]) + 1 /\ data'[g][Len(data[g]) + 1] = x
          /\ \A i \in 1 .. Len(data[g]) : data'[g][i] = data[g][i]
      BY <1>3, <2>2 DEF Appended
    <3>2. \A i \in 1 .. Len(data'[g]) : (i \in 1 .. Len(data[g]) /\ data'[g][i] = data[g][i])
                                        \/ (i = Len(data[g]) + 1 /\ data'[g][i] = x)
      BY <3>1
    <3>a. total' >= total /\ total' \in Nat /\ Len(data[g]) \in Nat /\ \A i \in 1 .. Len(data[g]) : data[g][i] \in Nat
      BY <1>3
    <3>3. Upto(g)'
      <4> SUFFICES ASSUME NEW i \in 1 .. Len(data'[g]) PROVE data'[g][i] <= total'
        BY DEF Upto
      <4>1. CASE i \in 1 .. Len(data[g]) /\ data'[g][i] = data[g][i]
        BY <2>0, <3>a, <4>1 DEF LineInv, Upto
      <4> QED BY <1>3, <3>2, <4>1
    <3>4. Rises(g)'
      <4> SUFFICES ASSUME NEW i \in 1 .. Len(data'[g]), NEW j \in 1 .. Len(data'[g]), i < j,
                          data'[g][i] # Marker, data'[g][j] # Marker
                   PROVE  data'[g][i] < data'[g][j]
        BY DEF Rises
      <4>1. i \in 1 .. Len(data[g]) /\ data'[g][i] = data[g][i] /\ data[g][i] <= total
        BY <2>0, <3>a, <3>1, <3>2 DEF LineInv, Upto
      <4>2. CASE j \in 1 .. Len(data[g]) /\ data'[g][j] = data[g][j]
        BY <2>0, <4>1, <4>2 DEF LineInv, Rises
      <4>3. CASE data'[g][j] = x
        BY <3>a, <4>1, <4>3
      <4> QED BY <3>2, <4>2, <4>3
    <3>5. Topped(g)'
      <4>1. \A n \in Nat : Has(data', g, n) <=> Has(data, g, n) \/ (n = x /\ x # Marker)
        BY <1>3, <2>0, <2>2, HasAppended DEF Files
      <4>2. CASE x = Marker
        BY <2>0, <4>1, <4>2 DEF LineInv, Topped, In
      <4>3. CASE x # Marker
        <5>1. x = total + 1 /\ \A n \in Nat : Has(data, g, n) => n <= total
          BY <2>0, <4>3 DEF LineInv, Upto, Has
        <5>2. Has(data', g, x) /\ \A n \in Nat : Has(data', g, n) => n <= x
          BY <2>0, <4>1, <4>3, <5>1
        <5> QED BY <2>0, <5>2 DEF Topped, In
      <4> QED BY <4>2, <4>3
    <3> QED BY <1>3, <2>2, <3>3, <3>4, <3>5 DEF LineInv
  <2> QED BY <2>1, <2>2
<1>4. Opens \/ Removes \/ Renames \/ Aborts => LinesInv'
  BY <1>1 DEF Opens, Removes, Renames, Aborts, WriterInv
<1>5. Writes => LinesInv'
  BY <1>3 DEF Writes, WriterInv, FileType
<1>6. Marks => LinesInv'
  BY <1>3 DEF Marks, WriterInv, FileType, Marker
<1> QED BY <1>2, <1>4, <1>5, <1>6 DEF Writing

LEMMA SplitStep ==
    ASSUME FilesInv, Writing
    PROVE  SplitInv'
<1>a. FileType => Len(data) \in Nat /\ total \in Nat /\ gone \in Nat /\ gone <= total
  BY LineTyped
<1> USE <1>a, Bounds DEF FilesInv
<1>0. PICK mid \in Nat : SplitAt(mid)
  BY DEF SplitInv
<1>1. Opens \/ Aborts => SplitAt(mid)'
  BY <1>0 DEF Opens, Aborts, SplitAt, In
<1>2. ASSUME NEW f \in Nat, Makes(f) PROVE SplitAt(mid)'
  <2>1. \A n \in Nat : Has(data', archive, n) <=> Has(data, archive, n)
    BY <1>2, HasEmptied DEF Makes, FileType, Files
  <2>2. \A n \in Nat : ~Has(data', f, n) /\ ~Has(data, active, n)
    BY <1>2 DEF Makes, Emptied, Has
  <2>3. ~(mid < total)
    BY <1>0, <2>2 DEF SplitAt, In
  <2> QED BY <1>0, <1>2, <2>1, <2>2, <2>3 DEF Makes, SplitAt, In
<1>3. ASSUME Writes PROVE SplitAt(mid)'
  <2>1. /\ active # None /\ active # archive /\ Len(data[active]) \in Nat
        /\ active \in {None} \cup 1 .. Len(data) /\ archive \in {None} \cup 1 .. Len(data)
    BY <1>3 DEF Writes, WriterInv, FileType, Files
  <2>a. total + 1 \in Nat /\ total + 1 # Marker /\ Appended(data, data', active, total + 1)
    BY <1>3 DEF Writes, Marker
  <2>2. ASSUME NEW n \in Nat PROVE Has(data', archive, n) <=> Has(data, archive, n)
    <3>1. Has(data', archive, n) <=> Has(data, archive, n) \/ (archive = active /\ n = total + 1 /\ total + 1 # Marker)
      BY <2>1, <2>a, HasAppended
    <3> QED BY <2>1, <3>1
  <2>3. ASSUME NEW n \in Nat PROVE Has(data', active, n) <=> Has(data, active, n) \/ n = total + 1
    BY <2>1, <2>a, HasAppended
  <2> QED BY <1>0, <1>3, <2>2, <2>3 DEF Writes, SplitAt, In
<1>4. ASSUME Marks PROVE SplitAt(mid)'
  <2>1. /\ active # None /\ active # archive /\ Len(data[active]) \in Nat
        /\ active \in {None} \cup 1 .. Len(data) /\ archive \in {None} \cup 1 .. Len(data)
    BY <1>4 DEF Marks, WriterInv, FileType, Files
  <2>a. Marker \in Nat /\ Appended(data, data', active, Marker)
    BY <1>4 DEF Marks, Marker
  <2>2. \A n \in Nat : /\ Has(data', archive, n) <=> Has(data, archive, n)
                       /\ Has(data', active, n) <=> Has(data, active, n)
    BY <2>1, <2>a, HasAppended
  <2> QED BY <1>0, <1>4, <2>2 DEF Marks, SplitAt, In
<1>5. ASSUME Removes PROVE SplitAt(mid)'
  <2>1. gone' = mid
    <3>1. CASE archive = None \/ NumbersIn(archive) = {}
      <4>1. \A n \in Nat : ~In(archive, n)
        BY <3>1, NoneIn DEF FileType
      <4>2. ~(gone < mid)
        BY <1>0, <4>1 DEF SplitAt
      <4> QED BY <1>0, <1>5, <3>1, <4>2 DEF Removes, SplitAt
    <3>2. CASE archive # None /\ NumbersIn(archive) # {}
      <4>1. archive \in Files
        BY <3>2 DEF FileType
      <4>2. gone' \in Nat /\ In(archive, gone') /\ \A n \in Nat : In(archive, n) => n <= gone'
        BY <1>5, <3>2, <4>1, GreatestIn DEF Removes, LinesInv, LineInv
      <4> QED BY <1>0, <4>2 DEF SplitAt
    <3> QED BY <3>1, <3>2
  <2>2. \A n \in Nat : ~Has(data', archive', n)
    BY <1>5 DEF Removes, Has
  <2> QED BY <1>0, <1>5, <2>1, <2>2 DEF Removes, SplitAt, In
<1>6. ASSUME Renames PROVE SplitAt(total)'
  <2>1. \A n \in Nat : ~Has(data, archive, n) /\ ~Has(data', active', n)
    BY <1>6 DEF Renames, WriterInv, Has
  <2>2. ~(gone < mid)
    BY <1>0, <2>1 DEF SplitAt, In
  <2> QED BY <1>0, <1>6, <2>1, <2>2 DEF Renames, SplitAt, In
<1>7. SplitAt(mid)' => SplitInv'
  BY DEF SplitInv
<1>8. Renames => SplitInv'
  <2>1. Renames => total' \in Nat
    BY DEF Renames
  <2> QED BY <1>6, <2>1 DEF SplitInv
<1> QED BY <1>1, <1>2, <1>3, <1>4, <1>5, <1>7, <1>8 DEF Writing

LEMMA MarkStep ==
    ASSUME FilesInv, Writing, FileType', SplitInv'
    PROVE  MarkInv'
<1> SUFFICES ASSUME "cut" \notin excuse'
             PROVE  /\ \A f \in 1 .. Len(data') : EndMarked(f)'
                    /\ active' # None /\ Marked(active)' => wpc' \in {"marked", "removed"}
                    /\ wpc' \in {"marked", "removed"} => In(active, total)'
                    /\ total' = 0 \/ gone' < total'
  BY DEF MarkInv, Files
<1>a. FileType => Len(data) \in Nat /\ total \in Nat /\ gone \in Nat /\ gone <= total
  BY LineTyped
<1> USE <1>a, Bounds DEF FilesInv
<1>0. /\ \A f \in Files : EndMarked(f)
      /\ active # None /\ Marked(active) => wpc \in {"marked", "removed"}
      /\ wpc \in {"marked", "removed"} => In(active, total)
      /\ total = 0 \/ gone < total
  BY DEF MarkInv, Writing, Makes, Opens, Writes, Marks, Removes, Renames, Aborts
<1>1. CASE Opens
  BY <1>0, <1>1 DEF Opens, EndMarked, Files, Marked
<1>2. ASSUME NEW f \in Nat, Makes(f)
      PROVE  /\ \A g \in 1 .. Len(data') : EndMarked(g)'
             /\ ~Marked(active)' /\ UNCHANGED <<total, gone>> /\ wpc' = "open"
  <2>1. UNCHANGED <<total, gone>> /\ wpc' = "open" /\ active' = f
    BY <1>2 DEF Makes
  <2>2. f \in 1 .. Len(data') /\ Len(data'[f]) = 0 /\ data' \in Seq(Seq(0 .. MaxEvents))
    BY <1>2 DEF Makes, Emptied
  <2>3. ~Marked(active)'
    BY <2>1, <2>2 DEF Marked
  <2>4. ASSUME NEW g \in 1 .. Len(data') PROVE EndMarked(g)'
    <3>1. CASE g = f
      BY <2>2, <3>1 DEF EndMarked
    <3>2. CASE g # f
      BY <1>0, <1>2, <3>2 DEF Makes, Emptied, Same, EndMarked, Files
    <3> QED BY <3>1, <3>2
  <2> QED BY <2>1, <2>3, <2>4
<1>3. ASSUME wpc = "open", NEW x, Appended(data, data', active, x), data' \in Seq(Seq(0 .. MaxEvents))
      PROVE  /\ \A f \in 1 .. Len(data') : EndMarked(f)'
             /\ x # Marker => \A i \in DOMAIN data'[active] : data'[active][i] # Marker
  <2>1. active \in Files /\ ~Marked(active)
    BY <1>0, <1>3 DEF WriterInv, FileType
  <2>2. \A i \in 1 .. Len(data[active]) : data[active][i] # Marker
    BY <2>1 DEF Marked
  <2>3. /\ Len(data') = Len(data) /\ Len(data'[active]) = Len(data[active]) + 1
        /\ data'[active][Len(data[active]) + 1] = x
        /\ \A i \in 1 .. Len(data[active]) : data'[active][i] = data[active][i]
    BY <1>3 DEF Appended
  <2>4. \A i \in 1 .. Len(data'[active]) : (i \in 1 .. Len(data[active]) /\ data'[active][i] # Marker)
                                           \/ (i = Len(data'[active]) /\ data'[active][i] = x)
    <3>1. Len(data[active]) \in Nat
      BY <2>1
    <3> QED BY <2>2, <2>3, <3>1
  <2>5. ASSUME NEW f \in Files PROVE EndMarked(f)'
    <3>1. CASE f = active
      BY <2>4, <3>1 DEF EndMarked
    <3>2. CASE f # active
      BY <1>0, <1>3, <3>2 DEF EndMarked, Appended, Same, Files
    <3> QED BY <3>1, <3>2
  <2>6. DOMAIN data'[active] = 1 .. Len(data'[active])
    BY <1>3, <2>1, <2>3 DEF Files
  <2> QED BY <2>3, <2>4, <2>5, <2>6 DEF Files
<1>4. CASE Writes
  <2>1. \A f \in 1 .. Len(data') : EndMarked(f)'
    BY <1>3, <1>4 DEF Writes
  <2>2. total + 1 # Marker /\ total' = total + 1 /\ gone' = gone /\ active' = active
    BY <1>4 DEF Writes, Marker
  <2>3. ~Marked(active)'
    BY <1>3, <1>4, <2>2 DEF Writes, Marked
  <2> QED BY <1>4, <2>1, <2>2, <2>3 DEF Writes
<1>5. CASE Marks
  <2>1. \A f \in 1 .. Len(data') : EndMarked(f)'
    BY <1>3, <1>5 DEF Marks
  <2>2. wpc' = "marked" /\ UNCHANGED <<total, gone, active>> /\ active \in Files /\ ~Marked(active) /\ active # None
    BY <1>0, <1>5 DEF Marks, WriterInv, FileType
  <2>3. 1 \in 1 .. Len(data[active]) /\ data[active][1] # Marker /\ data[active][1] \in Nat
    <3>1. Len(data[active]) \in Nat /\ Len(data[active]) >= Size /\ DOMAIN data[active] = 1 .. Len(data[active])
      BY <1>5, <2>2, LineTyped DEF Marks
    <3>2. 1 \in DOMAIN data[active] /\ data[active][1] \in Nat
      BY <2>2, <3>1, LineTyped
    <3> QED BY <2>2, <3>1, <3>2 DEF Marked
  <2>4. In(active, data[active][1])
    BY <2>2, <2>3 DEF In, Has
  <2>5. PICK mid \in Nat : SplitAt(mid)
    BY DEF SplitInv
  <2>6. In(active, total)
    BY <2>3, <2>4, <2>5 DEF SplitAt
  <2>7. PICK i \in 1 .. Len(data[active]) : data[active][i] = total /\ total # Marker
    BY <2>6 DEF In, Has
  <2>8. i \in 1 .. Len(data'[active]) /\ data'[active][i] = total
    <3>1. Len(data[active]) \in Nat /\ Len(data'[active]) = Len(data[active]) + 1 /\ data'[active][i] = data[active][i]
      BY <1>5, <2>2, <2>7, LineTyped DEF Marks, Appended
    <3> QED BY <2>7, <3>1
  <2>9. In(active, total)'
    BY <2>2, <2>7, <2>8 DEF In, Has
  <2> QED BY <1>0, <2>1, <2>2, <2>9
<1>6. CASE Removes
  <2>1. UNCHANGED <<data, active, total>> /\ wpc' = "removed" /\ wpc = "marked"
    BY <1>6 DEF Removes
  <2>2. In(active, total)'
    BY <1>0, <2>1 DEF In
  <2>3. PICK mid \in Nat : SplitAt(mid)'
    BY DEF SplitInv
  <2>4. gone' < total' /\ gone' \in Nat
    BY <2>1, <2>2, <2>3 DEF SplitAt, FileType
  <2>5. \A f \in 1 .. Len(data') : EndMarked(f)'
    BY <1>0, <2>1 DEF EndMarked, Files
  <2> QED BY <2>1, <2>2, <2>4, <2>5
<1>7. CASE Renames
  BY <1>0, <1>7 DEF Renames, EndMarked, Files
<1>8. CASE Aborts
  BY <1>0, <1>8 DEF Aborts, EndMarked, Files, Marked
<1> QED BY <1>0, <1>1, <1>2, <1>4, <1>5, <1>6, <1>7, <1>8 DEF Writing

LEMMA GoneStep ==
    ASSUME FilesInv, Writing, FileType', SplitInv'
    PROVE  GoneInv'
<1>a. FileType => Len(data) \in Nat /\ total \in Nat /\ gone \in Nat /\ gone <= total
  BY LineTyped
<1> USE <1>a, Bounds DEF FilesInv
<1> SUFFICES ASSUME NEW f \in 1 .. Len(data'), f # active', f # archive', NEW n \in Nat, Has(data', f, n) PROVE n <= gone'
  BY DEF GoneInv, Files, In
<1>0. gone \in Nat /\ gone' \in Nat
  BY DEF FileType
<1>1. CASE Opens \/ Aborts
  BY <1>1 DEF Opens, Aborts, GoneInv, Files, In
<1>2. ASSUME NEW g \in Nat, Makes(g) PROVE n <= gone'
  <2>1. f # g /\ f \in Files /\ f # None
    BY <1>2, LineTyped DEF Makes, Emptied, Files
  <2>2. Has(data, f, n)
    BY <1>2, <2>1, HasEmptied DEF Makes, Files
  <2> QED BY <1>2, <2>1, <2>2 DEF Makes, GoneInv, In
<1>3. CASE Writes \/ Marks
  <2>1. UNCHANGED <<active, archive, gone>> /\ f \in Files /\ data'[f] = data[f]
    BY <1>3 DEF Writes, Marks, Appended, Same, Files
  <2> QED BY <2>1 DEF GoneInv, In, Has
<1>4. CASE Removes
  <2>0. UNCHANGED <<data, active, total>> /\ f \in Files /\ f # active
    BY <1>4 DEF Removes, Files
  <2>1. PICK mid \in Nat : SplitAt(mid)
    BY DEF SplitInv
  <2>2. mid <= gone'
    <3>1. CASE archive = None \/ NumbersIn(archive) = {}
      <4>1. \A k \in Nat : ~In(archive, k)
        BY <3>1, NoneIn DEF FileType
      <4>2. ~(gone < mid)
        BY <2>1, <4>1 DEF SplitAt
      <4> QED BY <1>0, <1>4, <3>1, <4>2 DEF Removes
    <3>2. CASE archive # None /\ NumbersIn(archive) # {}
      <4>1. archive \in Files
        BY <3>2 DEF FileType
      <4>2. In(archive, gone') /\ \A k \in Nat : In(archive, k) => k <= gone'
        BY <1>4, <3>2, <4>1, GreatestIn DEF Removes, LinesInv, LineInv
      <4> QED BY <1>0, <2>1, <4>2 DEF SplitAt
    <3> QED BY <3>1, <3>2
  <2>3. CASE f = archive
    BY <1>0, <2>0, <2>1, <2>2, <2>3 DEF SplitAt, In
  <2>4. CASE f # archive
    <3>1. n <= gone
      BY <2>0, <2>4 DEF GoneInv, In
    <3> QED BY <1>0, <2>1, <2>2, <3>1 DEF SplitAt
  <2> QED BY <2>3, <2>4
<1>5. CASE Renames
  <2>1. f \in Files /\ f # active /\ f # archive /\ UNCHANGED <<data, gone>>
    BY <1>5 DEF Renames, WriterInv, Files
  <2> QED BY <2>1 DEF GoneInv, In
<1> QED BY <1>1, <1>2, <1>3, <1>4, <1>5 DEF Writing

LEMMA WritingKeeps ==
    ASSUME FilesInv, Writing, UNCHANGED readerVars, wpc = "free" => total < MaxEvents
    PROVE  FilesInv'
<1>1. FileType' /\ WriterInv' /\ LinesInv' /\ SplitInv'
  BY TypesStep, LinesStep, SplitStep
<1> QED BY <1>1, MarkStep, GoneStep DEF FilesInv

-----------------------------------------------------------------------------
(* The reader, while a writer is at work.                                  *)

\* The file the writer makes is none the reader has, unless it was reused.
Spared(f) == f \in Files /\ (f \in Files' /\ (active = None /\ active' # None => f # active'))

LEMMA SparedFiles ==
    ASSUME FilesInv, Writing, UNCHANGED readerVars
    PROVE  /\ \A f \in {afd, vfd} \ {None} : Spared(f)
           /\ excuse' = {} /\ lastIdent # None => Spared(lastIdent)
<1> USE LineTyped DEF FilesInv
<1>1. ASSUME NEW f \in {afd, vfd, lastIdent} \ {None} PROVE f \in Files /\ f \in Files'
  <2>1. f \in 1 .. Len(data) /\ Len(data) \in Nat
    BY DEF FileType, Files
  <2>2. ASSUME NEW g \in Nat, Makes(g) PROVE f \in 1 .. Len(data')
    <3>1. data' \in Seq(Seq(0 .. MaxEvents)) /\ Len(data) <= Len(data')
      BY <2>2 DEF Makes, Emptied
    <3>2. Len(data') \in Nat
      BY <3>1
    <3> QED BY <2>1, <3>1, <3>2
  <2>3. ASSUME Len(data') = Len(data) PROVE f \in 1 .. Len(data')
    BY <2>1, <2>3
  <2> QED BY <2>1, <2>2, <2>3 DEF Files, Writing, Opens, Writes, Marks, Appended, Removes, Renames, Aborts
<1>2. ASSUME NEW f \in {afd, vfd, lastIdent} \ {None}, active = None, active' # None, f = lastIdent => excuse' = {}
      PROVE  f # active' \/ f \in {afd, vfd}
  BY <1>2 DEF Writing, Makes, Opens, Writes, Marks, Removes, Renames, Aborts, WriterInv
<1>3. ASSUME NEW f \in {afd, vfd} \ {None}, active = None, active' # None PROVE f # active'
  BY <1>3 DEF Writing, Makes, Opens, Writes, Marks, Removes, Renames, Aborts, WriterInv
<1> QED BY <1>1, <1>2, <1>3 DEF Spared

LEMMA HasGrown ==
    ASSUME FilesInv, Writing, NEW g \in {None} \cup Files, active = None /\ active' # None => g # active',
           NEW n \in Nat, Has(data', g, n)
    PROVE  Has(data, g, n) \/ (Writes /\ g = active /\ n = total + 1)
<1>a. Len(data) \in Nat /\ total \in Nat /\ active \in {None} \cup Files
  BY LineTyped DEF FilesInv, FileType
<1>1. CASE Opens \/ Removes \/ Renames \/ Aborts
  BY <1>1 DEF Opens, Removes, Renames, Aborts
<1>2. ASSUME NEW h \in Nat, Makes(h) PROVE Has(data, g, n)
  BY <1>2, HasEmptied DEF Makes, Files
<1>3. CASE Writes
  <2>1. Appended(data, data', active, total + 1) /\ total + 1 \in Nat /\ active # None
    BY <1>a, <1>3 DEF Writes, FilesInv, WriterInv
  <2>2. Len(data[active]) \in Nat
    BY <1>a, <2>1, LineTyped DEF FilesInv
  <2> QED BY <1>3, <2>1, <2>2, HasAppended DEF Files
<1>4. CASE Marks
  <2>1. Appended(data, data', active, Marker) /\ Marker \in Nat /\ active # None
    BY <1>4 DEF Marks, FilesInv, WriterInv, Marker
  <2>2. Len(data[active]) \in Nat
    BY <1>a, <2>1, LineTyped DEF FilesInv
  <2> QED BY <2>1, <2>2, HasAppended DEF Files
<1> QED BY <1>1, <1>2, <1>3, <1>4 DEF Writing

LEMMA WriterSpares ==
    ASSUME FilesInv, Writing, FileType', UNCHANGED readerVars, last \in 0 .. total, NEW f, Spared(f)
    PROVE  /\ Ahead(f) => Ahead(f)'
           /\ Marked(f) => Marked(f)'
           /\ Len(data[f]) <= Len(data'[f])
           /\ \A k \in 0 .. Len(data[f]) : ReadTo(f, k) => ReadTo(f, k)'
           /\ Done(f) /\ (f = active => wpc # "open") => Done(f)'
           /\ NewerAhead(f) => NewerAhead(f)'
           /\ OlderDone(f) => OlderDone(f)'
<1>a. Len(data) \in Nat /\ total \in Nat /\ last \in Nat /\ last <= total /\ UNCHANGED <<last, req>>
  BY LineTyped DEF FilesInv, readerVars
<1>b. /\ active \in {None} \cup Files /\ archive \in {None} \cup Files /\ (active # None => active # archive)
      /\ f \in Files /\ f # None
  BY LineTyped DEF FilesInv, FileType, Spared
<1>2. ASSUME NEW g \in {None} \cup Files, active = None /\ active' # None => g # active', Ahead(g) PROVE Ahead(g)'
  BY <1>a, <1>2, HasGrown DEF Ahead, In
<1>3. ASSUME NEW g \in {None} \cup Files, active = None /\ active' # None => g # active',
             Done(g), g = active => wpc # "open"
      PROVE  Done(g)'
  BY <1>a, <1>3, HasGrown DEF Done, In, Before, Writes
<1>4. active = None /\ active' # None => f # active'
  BY DEF Spared
<1>5. \/ data'[f] = data[f]
      \/ wpc = "open" /\ f = active /\ \E x \in {Marker, total + 1} : Appended(data, data', active, x)
  <2>1. CASE Opens \/ Removes \/ Renames \/ Aborts
    BY <2>1 DEF Opens, Removes, Renames, Aborts
  <2>2. ASSUME NEW h \in Nat, Makes(h) PROVE data'[f] = data[f]
    BY <1>b, <1>4, <2>2 DEF Makes, Emptied, Same, Files
  <2>3. CASE Writes \/ Marks
    BY <1>b, <2>3 DEF Writes, Marks, Appended, Same, Files
  <2> QED BY <2>1, <2>2, <2>3 DEF Writing
<1>6. Len(data[f]) \in Nat /\ DOMAIN data[f] = 1 .. Len(data[f])
  BY <1>b, LineTyped DEF FilesInv
<1>7. \/ data'[f] = data[f]
      \/ /\ Len(data'[f]) = Len(data[f]) + 1 /\ \A i \in 1 .. Len(data[f]) : data'[f][i] = data[f][i]
         /\ data'[f][Len(data[f]) + 1] \in {Marker, total + 1}
  BY <1>5 DEF Appended
<1>8. Marked(f) => Marked(f)'
  <2>1. f \in 1 .. Len(data') /\ data' \in Seq(Seq(0 .. MaxEvents))
    BY DEF Spared, Files, FileType
  <2>2. DOMAIN data'[f] = 1 .. Len(data'[f])
    BY <2>1
  <2> QED BY <1>6, <1>7, <2>2 DEF Marked
<1>9. ASSUME NEW k \in 0 .. Len(data[f]), ReadTo(f, k) PROVE ReadTo(f, k)'
  <2>1. CASE data'[f] = data[f]
    BY <1>a, <1>6, <1>9, <2>1 DEF ReadTo, Before
  <2>2. CASE /\ Len(data'[f]) = Len(data[f]) + 1 /\ \A i \in 1 .. Len(data[f]) : data'[f][i] = data[f][i]
             /\ data'[f][Len(data[f]) + 1] \in {Marker, total + 1}
    <3> SUFFICES ASSUME NEW i \in 1 .. Len(data'[f])
                 PROVE  IF i <= k THEN data'[f][i] # Marker /\ (data'[f][i] <= last \/ Before(data'[f][i]))
                                  ELSE data'[f][i] = Marker \/ data'[f][i] > last
      BY <1>a, <1>6, <2>2 DEF ReadTo, Before
    <3>1. CASE i \in 1 .. Len(data[f])
      BY <1>9, <2>2, <3>1 DEF ReadTo
    <3>2. CASE i = Len(data[f]) + 1
      BY <1>a, <1>6, <2>2, <3>2
    <3> QED BY <1>6, <2>2, <3>1, <3>2
  <2> QED BY <1>7, <2>1, <2>2
<1>10. ASSUME NewerAhead(f) PROVE NewerAhead(f)'
  <2>1. CASE UNCHANGED <<active, archive>>
    BY <1>b, <1>2, <1>10, <2>1 DEF NewerAhead, Ahead, In
  <2>2. ASSUME NEW h \in Nat, Makes(h) PROVE NewerAhead(f)'
    <3>1. \A n \in Nat : ~Has(data', h, n)
      BY <2>2 DEF Makes, Emptied, Has
    <3>2. f # archive => Ahead(archive)'
      BY <1>b, <1>2, <1>10, <2>2 DEF NewerAhead, Ahead, In, Makes
    <3> QED BY <2>2, <3>1, <3>2 DEF NewerAhead, Ahead, In, Makes
  <2>3. CASE Removes
    <3>1. \A n \in Nat : ~Has(data', archive', n)
      BY <2>3 DEF Removes, Has
    <3>2. f # active => Ahead(active)'
      BY <1>b, <1>2, <1>10, <2>3 DEF NewerAhead, Ahead, In, Removes
    <3> QED BY <2>3, <3>1, <3>2 DEF NewerAhead, Ahead, In, Removes
  <2>4. CASE Renames
    <3>1. \A n \in Nat : ~Has(data', active', n)
      BY <2>4 DEF Renames, Has
    <3>2. f # active => Ahead(archive)'
      BY <1>a, <1>10, <2>4 DEF NewerAhead, Ahead, In, Renames
    <3> QED BY <2>4, <3>1, <3>2 DEF NewerAhead, Ahead, In, Renames
  <2> QED BY <2>1, <2>2, <2>3, <2>4 DEF Writing, Opens, Writes, Marks, Aborts
<1>11. ASSUME OlderDone(f) PROVE OlderDone(f)'
  <2> SUFFICES ASSUME f = active' PROVE Done(archive)'
    BY DEF OlderDone
  <2>1. CASE UNCHANGED <<active, archive>>
    BY <1>b, <1>3, <1>11, <2>1 DEF OlderDone, Done, In
  <2>2. CASE Removes
    BY <2>2 DEF Removes, Done, In, Has
  <2>3. ~Renames /\ \A h \in Nat : ~Makes(h)
    BY <1>b, <1>4 DEF Renames, Makes
  <2> QED BY <2>1, <2>2, <2>3 DEF Writing, Opens, Writes, Marks, Aborts
<1>12. Ahead(f) => Ahead(f)'
  BY <1>b, <1>2, <1>4
<1>13. Done(f) /\ (f = active => wpc # "open") => Done(f)'
  BY <1>b, <1>3, <1>4
<1>14. Len(data[f]) <= Len(data'[f])
  BY <1>6, <1>7
<1> QED BY <1>8, <1>9, <1>10, <1>11, <1>12, <1>13, <1>14

LEMMA WritingReader ==
    ASSUME FilesInv, ReaderType, ReaderInv, Writing, FileType', UNCHANGED <<readerVars, waitVars>>
    PROVE  ReaderType' /\ ReaderInv'
<1>a. /\ UNCHANGED <<req, rpc, afd, vfd, pos, lastIdent, seeked, last, waiter>> /\ (FromEnd' <=> FromEnd)
      /\ Off' = Off /\ last \in 0 .. total /\ last \in Nat /\ total \in Nat
  BY LineTyped DEF readerVars, waitVars, FromEnd, Off, ReaderType, FilesInv
<1>b. total' >= total /\ total' \in Nat
  BY <1>a DEF Writing, Makes, Opens, Writes, Marks, Removes, Renames, Aborts
<1>c. /\ excuse \subseteq excuse' /\ excuse' \subseteq {"cut", "late", "reused", "deaf"}
  BY DEF Writing, Makes, Opens, Writes, Marks, Removes, Renames, Aborts, ReaderType
<1>d. (vfd # None => Spared(vfd)) /\ (afd # None => Spared(afd))
  BY SparedFiles
<1>e. ASSUME NEW f, Spared(f) PROVE Len(data[f]) \in Nat /\ Len(data'[f]) \in Nat
  <2>1. f \in 1 .. Len(data) /\ data \in Seq(Seq(0 .. MaxEvents)) /\ f \in 1 .. Len(data') /\ data' \in Seq(Seq(0 .. MaxEvents))
    BY <1>e DEF Spared, Files, FilesInv, FileType
  <2>2. data[f] \in Seq(0 .. MaxEvents) /\ data'[f] \in Seq(0 .. MaxEvents)
    BY <2>1
  <2> QED BY <2>2
<1>1. ReaderType'
  <2>1. vfd # None => Len(data[vfd]) <= Len(data'[vfd]) /\ Len(data[vfd]) \in Nat /\ Len(data'[vfd]) \in Nat
    BY <1>a, <1>d, <1>e, WriterSpares
  <2>2. afd # None => Len(data[afd]) <= Len(data'[afd]) /\ Len(data[afd]) \in Nat /\ Len(data'[afd]) \in Nat
    BY <1>a, <1>d, <1>e, WriterSpares
  <2>3. afd # None /\ afd # active => afd # active'
    BY <1>d DEF Spared, Writing, Makes, Opens, Writes, Marks, Removes, Renames, Aborts
  <2>4. rpc \in {"scan", "tail"} => pos <= Len(data'[vfd])
    BY <2>1 DEF ReaderType
  <2>5. rpc = "archive" => pos <= Len(data'[afd]) /\ afd # active'
    BY <2>2, <2>3 DEF ReaderType
  <2>6. last \in 0 .. total'
    BY <1>a, <1>b
  <2> QED BY <1>a, <1>c, <2>4, <2>5, <2>6 DEF ReaderType
<1>2. ReaderInv'
  <2> SUFFICES ASSUME excuse' = {} PROVE ReaderInv'
    BY DEF ReaderInv
  <2>0. excuse = {} /\ (lastIdent # None => Spared(lastIdent))
    BY <1>c, SparedFiles
  <2>1. SeekInv'
    BY <1>a, <2>0 DEF ReaderInv, SeekInv
  <2>2. ASSUME Settled PROVE Settled'
    <3>1. CASE lastIdent = None
      BY <1>a, <2>2, <3>1 DEF Settled
    <3>2. CASE lastIdent # None
      <4>1. PICK f : f = lastIdent
        OBVIOUS
      <4>2. Done(f) /\ Marked(f) /\ NewerAhead(f) /\ Spared(f)
        BY <2>0, <2>2, <3>2, <4>1 DEF Settled
      <4>3. f = active => wpc # "open"
        BY <2>0, <3>2, <4>1, <4>2 DEF FilesInv, MarkInv
      <4>4. Done(f)' /\ Marked(f)' /\ NewerAhead(f)'
        BY <1>a, <4>2, <4>3, WriterSpares
      <4>5. f = lastIdent'
        BY <1>a, <4>1
      <4> QED BY <3>2, <4>1, <4>4, <4>5 DEF Settled
    <3> QED BY <3>1, <3>2
  <2>3. ASSUME rpc = "archive", InArchive PROVE InArchive'
    <3>1. PICK f : f = afd
      OBVIOUS
    <3>2. f = afd' /\ f # None /\ Spared(f) /\ f # active /\ pos \in 0 .. Len(data[f])
      BY <1>a, <1>d, <2>3, <3>1, LineTyped DEF ReaderType, FilesInv, Spared
    <3>3. ReadTo(f, pos)' /\ NewerAhead(f)'
      <4>1. PICK k : k = pos
        OBVIOUS
      <4>2. ReadTo(f, k)' /\ NewerAhead(f)'
        BY <1>a, <2>3, <3>1, <3>2, <4>1, WriterSpares DEF InArchive
      <4>3. k = pos'
        BY <1>a, <4>1
      <4> QED BY <4>2, <4>3
    <3>4. ASSUME vfd # None PROVE Coming'
      <4>1. PICK g : g = vfd
        OBVIOUS
      <4>2. g = vfd' /\ g # None /\ Spared(g) /\ Ahead(g) /\ g # f /\ NewerAhead(g) /\ Precedes(f, g)
            /\ (g = active => archive \in {f, None}) /\ (f = archive => g = active)
        BY <1>a, <1>d, <2>3, <3>1, <3>4, <4>1 DEF InArchive, Coming
      <4>3. Ahead(g)' /\ NewerAhead(g)'
        BY <1>a, <4>2, WriterSpares
      <4>4. (g = active' => archive' \in {f, None}) /\ (f = archive' => g = active')
        BY <3>2, <4>2 DEF Writing, Makes, Opens, Writes, Marks, Removes, Renames, Aborts, Spared
      <4>5. Precedes(f, g)'
        <5> SUFFICES ASSUME NEW m \in Nat, NEW n \in Nat, Has(data', f, m), Has(data', g, n) PROVE m < n
          BY DEF Precedes, In
        <5>1. Has(data, f, m)
          BY <3>2, HasGrown DEF Spared
        <5>2. Has(data, g, n) \/ n = total + 1
          BY <4>2, HasGrown DEF Spared
        <5>3. m <= total
          BY <3>2, <5>1 DEF Has, FilesInv, LinesInv, LineInv, Upto, Spared
        <5> QED BY <1>a, <4>2, <5>1, <5>2, <5>3 DEF Precedes, In
      <4> QED BY <3>2, <4>2, <4>3, <4>4, <4>5 DEF Coming
    <3> QED BY <1>a, <3>2, <3>3, <3>4 DEF InArchive
  <2>4. ASSUME vfd # None, AtActive PROVE AtActive'
    <3>1. PICK g : g = vfd
      OBVIOUS
    <3>2. g = vfd' /\ Spared(g) /\ Ahead(g) /\ NewerAhead(g) /\ OlderDone(g)
      BY <1>a, <1>d, <2>4, <3>1 DEF AtActive
    <3>3. Ahead(g)' /\ NewerAhead(g)' /\ OlderDone(g)'
      BY <1>a, <3>2, WriterSpares
    <3> QED BY <3>2, <3>3 DEF AtActive
  <2>5. ASSUME rpc \in {"scan", "tail"}, InActive PROVE InActive'
    <3>1. PICK g : g = vfd
      OBVIOUS
    <3>2. PICK k : k = pos
      OBVIOUS
    <3>3. g = vfd' /\ k = pos' /\ Spared(g) /\ k \in 0 .. Len(data[g]) /\ ReadTo(g, k) /\ NewerAhead(g) /\ OlderDone(g)
      BY <1>a, <1>d, <2>5, <3>1, <3>2, LineTyped DEF InActive, ReaderType, FilesInv, Spared
    <3>4. ReadTo(g, k)' /\ NewerAhead(g)' /\ OlderDone(g)'
      BY <1>a, <3>3, WriterSpares
    <3> QED BY <3>3, <3>4 DEF InActive
  <2> QED BY <1>a, <2>0, <2>1, <2>2, <2>3, <2>4, <2>5 DEF ReaderInv
<1> QED BY <1>1, <1>2

-----------------------------------------------------------------------------
(* The steps of the reader, by what they do to it.                         *)

Still == UNCHANGED <<req, rpc, afd, vfd, pos, lastIdent, seeked, last, excuse>>
Begins == rpc = "off" /\ rpc' = "snapshot" /\ UNCHANGED <<req, afd, vfd, pos, lastIdent, seeked, last, excuse>>
Looks ==
    /\ rpc = "snapshot" /\ wpc = "free" /\ vfd' = active /\ pos' = 0
    /\ \/ ShouldReplay(archive) /\ afd' = archive /\ rpc' = "archive"
       \/ ~ShouldReplay(archive) /\ afd' = None /\ rpc' = "active"
    /\ UNCHANGED <<req, lastIdent, seeked, last, excuse>>
Reads(f) ==
    /\ pos < Len(data[f]) /\ data[f][pos + 1] # Marker /\ pos' = pos + 1
    /\ last' = IF Before(data[f][pos + 1]) THEN last ELSE data[f][pos + 1]
    /\ UNCHANGED <<req, rpc, afd, vfd, lastIdent, seeked, excuse>>
Turns ==
    /\ rpc = "archive" /\ (pos < Len(data[afd]) => data[afd][pos + 1] = Marker)
    /\ lastIdent' = afd /\ afd' = None /\ rpc' = "active"
    /\ UNCHANGED <<req, vfd, pos, seeked, last, excuse>>
Misses ==
    /\ rpc = "active" /\ vfd = None /\ rpc' = "wait" /\ seeked' = TRUE
    /\ last' = IF FromEnd /\ ~seeked THEN total ELSE last
    /\ excuse' = excuse \cup (IF FromEnd /\ Zero THEN {"late"} ELSE {})
    /\ UNCHANGED <<req, afd, vfd, pos, lastIdent>>
Scans ==
    /\ rpc = "active" /\ vfd # None /\ rpc' = "scan" /\ lastIdent' = vfd
    /\ \/ /\ FromEnd /\ ~seeked
          /\ pos' = Len(data[vfd]) /\ last' = EndOf(vfd) /\ seeked' = TRUE
          /\ excuse' = IF Marked(vfd) THEN excuse \cup {"deaf"} ELSE excuse
       \/ ~(FromEnd /\ ~seeked) /\ pos' = 0 /\ UNCHANGED <<last, seeked, excuse>>
    /\ UNCHANGED <<req, afd, vfd>>
Returns ==
    /\ rpc = "scan" /\ pos < Len(data[vfd]) /\ data[vfd][pos + 1] = Marker
    /\ vfd' = None /\ rpc' = "snapshot"
    /\ UNCHANGED <<req, afd, pos, lastIdent, seeked, last, excuse>>
Waits ==
    /\ \/ rpc = "scan" /\ rpc' = "tail"
       \/ rpc = "tail" /\ rpc' = "scan"
       \/ rpc = "wait" /\ rpc' = "snapshot"
    /\ UNCHANGED <<req, afd, vfd, pos, lastIdent, seeked, last, excuse>>
Ends ==
    /\ rpc' \in {"done", "closed"} /\ afd' = None /\ vfd' = None /\ pos' = 0
    /\ lastIdent' = None /\ seeked' = FALSE /\ UNCHANGED <<req, last, excuse>>
Reading ==
    \/ Still \/ Begins \/ Looks \/ (rpc = "archive" /\ Reads(afd)) \/ (rpc = "scan" /\ Reads(vfd))
    \/ Turns \/ Misses \/ Scans \/ Returns \/ Waits \/ Ends

fileState == <<data, active, archive, wpc, wfile, total, gone>>

LEMMA ReaderSteps ==
    ASSUME [Next]_vars, ~WriterNext
    PROVE  /\ Reading /\ UNCHANGED fileState
           /\ (waiter' = waiter \/ waiter' \in {"read", "block", "done"})
<1> USE DEF fileState, fileVars, writerVars, Reading
<1>1. CASE Subscribe
  BY <1>1 DEF Subscribe, Begins, waitVars
<1>2. CASE OpenSnapshot
  BY <1>2 DEF OpenSnapshot, Looks, waitVars
<1>3. CASE ReadArchive \/ ReadActive
  BY <1>3 DEF ReadArchive, ReadActive, Deliver, ReachUntil, Finish, More, Line, Reads, Ends, waitVars
<1>4. CASE ArchiveRead
  BY <1>4 DEF ArchiveRead, More, Line, Turns, waitVars
<1>5. CASE NoActive
  BY <1>5 DEF NoActive, Misses, waitVars
<1>6. CASE ScanActive
  BY <1>6 DEF ScanActive, Scans, waitVars
<1>7. CASE SeeMarker
  BY <1>7 DEF SeeMarker, More, Line, Returns, waitVars
<1>8. CASE EndOfActive \/ TakeToken
  BY <1>8 DEF EndOfActive, TakeToken, Waits, waitVars
<1>9. CASE OneShotDone \/ CloseSubscription
  BY <1>9 DEF OneShotDone, CloseSubscription, Finish, Ends, waitVars
<1>10. CASE Arm \/ Inotify \/ Poll
  BY <1>10 DEF Arm, Inotify, Poll, readerVars, Still, waitVars
<1>11. CASE Reach \/ BeginWait \/ ReadState \/ Wakes
  BY <1>11 DEF Reach, BeginWait, ReadState, Wakes, readerVars, Still
<1>12. CASE UNCHANGED vars
  BY <1>12 DEF vars, readerVars, Still, waitVars
<1> QED BY <1>1, <1>2, <1>3, <1>4, <1>5, <1>6, <1>7, <1>8, <1>9, <1>10, <1>11, <1>12
        DEF Next, ReaderNext, WatcherNext, WaitNext, Rest

LEMMA ReadingFiles ==
    ASSUME FilesInv, ReaderType, Reading, UNCHANGED fileState, waiter' = waiter \/ waiter' \in {"read", "block", "done"}
    PROVE  FilesInv' /\ excuse \subseteq excuse' /\ ReaderType'
<1>a. UNCHANGED <<data, active, archive, wpc, wfile, total, gone>>
  BY DEF fileState
<1>b. /\ Len(data) \in Nat /\ total \in Nat /\ last \in 0 .. total /\ pos \in Nat
      /\ \A f \in {active, archive, wfile, afd, vfd, lastIdent} : f \in {None} \cup Files
      /\ active # None => active # archive
  BY LineTyped DEF FilesInv, FileType, ReaderType
<1>1. excuse \subseteq excuse'
  BY DEF Reading, Still, Begins, Looks, Reads, Turns, Misses, Scans, Returns, Waits, Ends
<1>2. \A f \in {active', archive', wfile', afd', vfd', lastIdent'} : f \in {None} \cup Files
  BY <1>a, <1>b DEF Reading, Still, Begins, Looks, Reads, Turns, Misses, Scans, Returns, Waits, Ends
<1>3. FileType' /\ WriterInv' /\ GoneInv'
  BY <1>a, <1>2 DEF FilesInv, FileType, WriterInv, GoneInv, Files, In, Marked
<1>4. LinesInv' /\ SplitInv'
  BY <1>a DEF FilesInv, LinesInv, LineInv, Files, Upto, Rises, Topped, Marked, In, SplitInv, SplitAt
<1>5. MarkInv'
  BY <1>a, <1>1 DEF FilesInv, MarkInv, EndMarked, Marked, Files, In
<1>6. FilesInv'
  BY <1>3, <1>4, <1>5 DEF FilesInv
<1>7. ReaderType'
  <2>a. /\ Len(data[afd]) \in Nat \/ afd = None
        /\ Len(data[vfd]) \in Nat \/ vfd = None
    BY <1>b, LineTyped DEF FilesInv
  <2>1. CASE Still \/ Begins \/ Turns \/ Returns \/ Waits \/ Ends
    <3>1. CASE Still
      BY <1>a, <3>1 DEF ReaderType, Still
    <3>2. CASE Begins
      BY <1>a, <3>2 DEF ReaderType, Begins
    <3>3. CASE Turns
      BY <1>a, <3>3 DEF ReaderType, Turns
    <3>4. CASE Returns
      BY <1>a, <3>4 DEF ReaderType, Returns
    <3>5. CASE Waits
      BY <1>a, <3>5 DEF ReaderType, Waits
    <3>6. CASE Ends
      BY <1>a, <3>6 DEF ReaderType, Ends
    <3> QED BY <2>1, <3>1, <3>2, <3>3, <3>4, <3>5, <3>6
  <2>2. CASE Looks
    <3>1. archive # None => Len(data[archive]) \in Nat
      BY <1>b, LineTyped DEF FilesInv
    <3> QED BY <1>a, <1>b, <2>2, <3>1 DEF ReaderType, Looks, ShouldReplay
  <2>3. ASSUME NEW f, f \in {afd, vfd}, Reads(f), f = IF rpc = "archive" THEN afd ELSE vfd, rpc \in {"archive", "scan"}
        PROVE  ReaderType'
    <3>1. f \in Files /\ Len(data[f]) \in Nat /\ pos < Len(data[f])
      BY <1>b, <2>3, LineTyped DEF ReaderType, FilesInv, Reads
    <3>2. data[f][pos + 1] \in 0 .. total
      BY <1>b, <3>1, LineTyped DEF FilesInv, LinesInv, LineInv, Upto
    <3>3. last' \in 0 .. total
      BY <1>b, <2>3, <3>2 DEF Reads
    <3>4. pos' \in Nat /\ pos' <= Len(data[f])
      BY <1>b, <2>3, <3>1 DEF Reads
    <3> QED BY <1>a, <2>3, <3>1, <3>3, <3>4 DEF ReaderType, Reads
  <2>4. CASE Misses
    <3>1. last' \in 0 .. total
      BY <1>b, <2>4 DEF Misses
    <3> QED BY <1>a, <2>4, <3>1 DEF ReaderType, Misses
  <2>5. CASE Scans
    <3>1. EndOf(vfd) \in 0 .. total
      <4>1. vfd \in Files
        BY <1>b, <2>5 DEF Scans
      <4>2. CASE NumbersIn(vfd) = {}
        BY <1>b, <4>2 DEF EndOf
      <4>3. CASE NumbersIn(vfd) # {}
        <5>1. Greatest(NumbersIn(vfd)) \in Nat /\ In(vfd, Greatest(NumbersIn(vfd)))
          BY <4>1, <4>3, GreatestIn DEF FilesInv, LinesInv, LineInv
        <5>2. Greatest(NumbersIn(vfd)) <= total
          BY <4>1, <5>1 DEF FilesInv, LinesInv, LineInv, Upto, In, Has
        <5> QED BY <1>b, <4>3, <5>1, <5>2 DEF EndOf
      <4> QED BY <4>2, <4>3
    <3>2. last' \in 0 .. total /\ pos' \in Nat /\ pos' <= Len(data[vfd])
      BY <1>b, <2>a, <2>5, <3>1 DEF Scans
    <3> QED BY <1>a, <2>5, <3>2 DEF ReaderType, Scans
  <2> QED BY <2>1, <2>2, <2>3, <2>4, <2>5 DEF Reading
<1> QED BY <1>1, <1>6, <1>7

-----------------------------------------------------------------------------
(* What a step of the reader does to what it has read.                     *)

LEMMA NewerThan ==
    ASSUME FilesInv, NEW f \in Files, f # active, NEW m \in Nat, In(f, m)
    PROVE  /\ \A n \in Nat : In(active, n) => m < n
           /\ f # archive => \A n \in Nat : In(archive, n) => m < n
<1>1. PICK mid \in Nat : SplitAt(mid)
  BY DEF FilesInv, SplitInv
<1>2. gone \in Nat /\ total \in Nat
  BY LineTyped DEF FilesInv
<1>3. CASE f = archive
  BY <1>1, <1>2, <1>3 DEF SplitAt
<1>4. CASE f # archive
  <2>1. m <= gone
    BY <1>4 DEF FilesInv, GoneInv
  <2> QED BY <1>1, <1>2, <1>4, <2>1 DEF SplitAt
<1> QED BY <1>3, <1>4

LEMMA ReadOn ==
    ASSUME FilesInv, NEW f \in Files, NEW k, k = pos', ReadTo(f, pos), Reads(f), UNCHANGED data,
           last \in Nat, pos \in Nat, NEW m, m = data[f][pos + 1]
    PROVE  /\ m \in Nat /\ In(f, m) /\ m > last /\ last' \in {last, m} /\ last' >= last
           /\ ReadTo(f, k)'
<1>1. Len(data[f]) \in Nat /\ f # None /\ \A i \in 1 .. Len(data[f]) : data[f][i] \in Nat
  BY LineTyped DEF FilesInv
<1>2. pos + 1 \in 1 .. Len(data[f]) /\ m # Marker /\ k = pos + 1 /\ last' = (IF Before(m) THEN last ELSE m) /\ req' = req
  BY <1>1 DEF Reads
<1>3. m \in Nat /\ In(f, m) /\ m > last
  BY <1>1, <1>2 DEF ReadTo, In, Has
<1>4. last' \in {last, m} /\ last' >= last /\ last' \in Nat
  BY <1>2, <1>3
<1>5. ASSUME NEW i \in 1 .. Len(data[f])
      PROVE  IF i <= k THEN data[f][i] # Marker /\ (data[f][i] <= last' \/ Before(data[f][i]))
                       ELSE data[f][i] = Marker \/ data[f][i] > last'
  <2>1. data[f][i] \in Nat /\ i \in Nat
    BY <1>1
  <2>2. CASE i <= pos
    BY <1>2, <1>4, <2>1, <2>2 DEF ReadTo
  <2>3. CASE i = pos + 1
    BY <1>2, <1>3, <2>3
  <2>4. CASE i > pos + 1
    <3>1. data[f][i] = Marker \/ data[f][i] > last
      BY <2>4 DEF ReadTo
    <3>2. data[f][i] = Marker \/ data[f][i] > m
      BY <1>2, <2>4 DEF FilesInv, LinesInv, LineInv, Rises
    <3> QED BY <1>2, <1>4, <2>4, <3>1, <3>2
  <2> QED BY <2>1, <2>2, <2>3, <2>4
<1>6. ReadTo(f, k)'
  BY <1>2, <1>5 DEF ReadTo, Before
<1> QED BY <1>3, <1>4, <1>6

LEMMA AllRead ==
    ASSUME FilesInv, excuse = {}, NEW f \in Files, pos \in Nat, ReadTo(f, pos),
           pos < Len(data[f]) => data[f][pos + 1] = Marker
    PROVE  Done(f)
<1>1. Len(data[f]) \in Nat /\ EndMarked(f)
  BY LineTyped DEF FilesInv, MarkInv
<1>2. ASSUME NEW i \in 1 .. Len(data[f]), data[f][i] # Marker PROVE i <= pos
  BY <1>1, <1>2 DEF EndMarked
<1> QED BY <1>2 DEF Done, In, Has, ReadTo

LEMMA ReadingReader ==
    ASSUME FilesInv, ReaderType, ReaderInv, Reading, UNCHANGED fileState, excuse \subseteq excuse'
    PROVE  ReaderInv'
<1> SUFFICES ASSUME excuse' = {} PROVE ReaderInv'
  BY DEF ReaderInv
<1>a. UNCHANGED <<data, active, archive, wpc, wfile, total, gone>> /\ Off' = Off /\ excuse = {} /\ excuse' = excuse
  BY DEF fileState, Off
<1>b. /\ Len(data) \in Nat /\ total \in Nat /\ gone \in Nat /\ last \in Nat /\ last <= total /\ pos \in Nat
      /\ \A f \in {active, archive, wfile, afd, vfd, lastIdent} : f \in {None} \cup Files
      /\ active # None => active # archive
  BY LineTyped DEF FilesInv, FileType, ReaderType
<1>c. req' = req /\ (FromEnd' <=> FromEnd) /\ \A n : Before(n)' <=> Before(n)
  BY DEF Reading, Still, Begins, Looks, Reads, Turns, Misses, Scans, Returns, Waits, Ends, FromEnd, Before
<1>d. SeekInv
  BY <1>a DEF ReaderInv
<1>e. ASSUME last' = last, NEW f
      PROVE  /\ Ahead(f)' <=> Ahead(f)
             /\ Done(f)' <=> Done(f)
             /\ Marked(f)' <=> Marked(f)
             /\ NewerAhead(f)' <=> NewerAhead(f)
             /\ OlderDone(f)' <=> OlderDone(f)
             /\ \A k : ReadTo(f, k)' <=> ReadTo(f, k)
  BY <1>a, <1>c, <1>e DEF Ahead, Done, Marked, NewerAhead, OlderDone, ReadTo, In
<1>f. ASSUME NEW f, NEW g PROVE Precedes(f, g)' <=> Precedes(f, g)
  BY <1>a DEF Precedes, In
<1>1. CASE Still
  BY <1>a, <1>c, <1>d, <1>1 DEF Still, ReaderInv, SeekInv, InArchive, Coming, AtActive, InActive, Settled, In,
     Ahead, Done, Marked, NewerAhead, OlderDone, ReadTo, Precedes
<1>2. CASE Begins
  BY <1>a, <1>c, <1>d, <1>2 DEF Begins, ReaderInv, SeekInv, Settled, ReaderType, Off
<1>3. CASE Looks
  <2>1. Settled /\ wpc = "free" /\ last' = last /\ lastIdent' = lastIdent /\ seeked' = seeked /\ pos' = 0
    BY <1>a, <1>3 DEF Looks, ReaderInv
  <2>2. lastIdent # None => lastIdent # active
    BY <1>a, <1>b, <2>1 DEF Settled, FilesInv, MarkInv
  <2>3. Ahead(active) /\ (lastIdent = None \/ archive # lastIdent => Ahead(archive))
    <3>1. CASE lastIdent = None
      BY <2>1, <3>1 DEF Settled, Ahead, In, Has, Marker
    <3>2. CASE lastIdent # None
      BY <2>1, <2>2, <3>2 DEF Settled, NewerAhead
    <3> QED BY <3>1, <3>2
  <2>4. PICK f : f = archive
    OBVIOUS
  <2>5. PICK g : g = active
    OBVIOUS
  <2>6. CASE ShouldReplay(archive) /\ afd' = archive /\ rpc' = "archive"
    <3>1. archive # None /\ ~(FromEnd /\ lastIdent = None) /\ Ahead(archive)
      BY <2>3, <2>6 DEF ShouldReplay, Zero
    <3>2. SeekInv'
      BY <1>3, <1>c, <1>d, <2>1, <2>6, <3>1 DEF SeekInv, Off, Looks
    <3>3. archive # active /\ archive \in Files
      BY <1>b, <3>1
    <3>4. ReadTo(f, 0)
      BY <2>4, <3>1, <3>3, LineTyped DEF ReadTo, Ahead, In, Has, FilesInv
    <3>5. NewerAhead(f) /\ Ahead(g) /\ NewerAhead(g)
      BY <2>3, <2>4, <2>5 DEF NewerAhead
    <3>6. Precedes(f, g)
      BY <2>4, <2>5, <3>3, NewerThan DEF Precedes
    <3>7. ReadTo(f, 0)' /\ NewerAhead(f)' /\ Ahead(g)' /\ NewerAhead(g)' /\ Precedes(f, g)'
      BY <1>e, <1>f, <2>1, <3>4, <3>5, <3>6
    <3>8. f = afd' /\ g = vfd' /\ pos' = 0 /\ f = archive' /\ g = active' /\ (g # None => g # f)
      BY <1>3, <1>a, <1>b, <2>1, <2>4, <2>5, <2>6 DEF Looks
    <3>9. InArchive'
      BY <3>7, <3>8 DEF InArchive, Coming
    <3> QED BY <2>6, <3>2, <3>9 DEF ReaderInv
  <2>7. CASE ~ShouldReplay(archive) /\ afd' = None /\ rpc' = "active"
    <3>1. SeekInv'
      BY <1>3, <1>c, <1>d, <2>1, <2>7 DEF SeekInv, Off, Looks
    <3>2. g = vfd' /\ g = active' /\ f = archive'
      BY <1>3, <1>a, <2>4, <2>5 DEF Looks
    <3>3. ASSUME ~(FromEnd /\ ~seeked) PROVE IF vfd' = None THEN Settled' ELSE AtActive'
      <4>1. ~(FromEnd /\ lastIdent = None)
        BY <1>3, <1>d, <3>3 DEF SeekInv, Looks, Off
      <4>2. Done(f)
        BY <2>1, <2>4, <2>7, <4>1 DEF ShouldReplay, Zero, Settled, Done, In, Has
      <4>3. Ahead(g)' /\ NewerAhead(g)' /\ OlderDone(g)'
        BY <1>e, <2>1, <2>3, <2>4, <2>5, <4>2 DEF NewerAhead, OlderDone
      <4>4. Settled'
        <5>1. PICK h : h = lastIdent
          OBVIOUS
        <5>2. h = lastIdent' /\ (h = None => last = 0) /\ (h # None => Done(h) /\ Marked(h) /\ NewerAhead(h))
          BY <2>1, <5>1 DEF Settled
        <5>3. h # None => Done(h)' /\ Marked(h)' /\ NewerAhead(h)'
          BY <1>e, <2>1, <5>2
        <5> QED BY <2>1, <5>2, <5>3 DEF Settled
      <4> QED BY <3>2, <4>3, <4>4 DEF AtActive
    <3> QED BY <1>c, <2>1, <2>7, <3>1, <3>3 DEF ReaderInv
  <2> QED BY <1>3, <2>6, <2>7 DEF Looks
<1>4. CASE rpc = "archive" /\ Reads(afd)
  <2>1. PICK f : f = afd
    OBVIOUS
  <2>2. PICK k : k = pos'
    OBVIOUS
  <2>3. PICK m : m = data[f][pos + 1]
    OBVIOUS
  <2>4. /\ f = afd' /\ f # None /\ f \in Files /\ f # active /\ Reads(f) /\ UNCHANGED <<rpc, vfd, lastIdent, seeked>>
        /\ ReadTo(f, pos) /\ NewerAhead(f) /\ (vfd # None => Coming)
    BY <1>4, <1>a, <1>b, <2>1 DEF ReaderType, ReaderInv, InArchive, Reads
  <2>5. m \in Nat /\ In(f, m) /\ m > last /\ last' \in {last, m} /\ last' >= last /\ ReadTo(f, k)'
    BY <1>a, <1>b, <2>2, <2>3, <2>4, ReadOn
  <2>6. /\ \A n \in Nat : In(active, n) => m < n
        /\ f # archive => \A n \in Nat : In(archive, n) => m < n
    BY <2>4, <2>5, NewerThan
  <2>7. Ahead(active)' /\ (f # archive => Ahead(archive)')
    BY <1>a, <1>b, <2>4, <2>5, <2>6 DEF NewerAhead, Ahead, In
  <2>8. ASSUME vfd # None PROVE Coming'
    <3>1. PICK g : g = vfd
      OBVIOUS
    <3>2. g = vfd' /\ Ahead(g) /\ g # f /\ Precedes(f, g) /\ (g = active => archive \in {f, None}) /\ (f = archive => g = active)
      BY <2>1, <2>4, <2>8, <3>1 DEF Coming
    <3>3. Ahead(g)'
      BY <1>a, <1>b, <2>5, <3>2 DEF Ahead, Precedes, In
    <3>4. NewerAhead(g)'
      BY <1>a, <2>7, <3>2 DEF NewerAhead
    <3> QED BY <1>a, <1>f, <2>4, <3>2, <3>3, <3>4 DEF Coming
  <2>9. InArchive'
    BY <1>a, <2>2, <2>4, <2>5, <2>7, <2>8 DEF InArchive, NewerAhead
  <2>10. SeekInv'
    BY <1>4, <1>a, <1>c, <1>d, <2>4 DEF SeekInv, Off
  <2> QED BY <1>4, <2>4, <2>9, <2>10 DEF ReaderInv
<1>5. CASE rpc = "scan" /\ Reads(vfd)
  <2>1. PICK f : f = vfd
    OBVIOUS
  <2>2. PICK k : k = pos'
    OBVIOUS
  <2>3. PICK m : m = data[f][pos + 1]
    OBVIOUS
  <2>4. /\ f = vfd' /\ f # None /\ f \in Files /\ Reads(f) /\ UNCHANGED <<rpc, afd, lastIdent, seeked>>
        /\ ReadTo(f, pos) /\ NewerAhead(f) /\ OlderDone(f)
    BY <1>5, <1>a, <1>b, <2>1 DEF ReaderType, ReaderInv, InActive, Reads
  <2>5. m \in Nat /\ In(f, m) /\ m > last /\ last' \in {last, m} /\ last' >= last /\ ReadTo(f, k)'
    BY <1>a, <1>b, <2>2, <2>3, <2>4, ReadOn
  <2>6. f # active => /\ \A n \in Nat : In(active, n) => m < n
                      /\ f # archive => \A n \in Nat : In(archive, n) => m < n
    BY <2>4, <2>5, NewerThan
  <2>7. NewerAhead(f)'
    BY <1>a, <1>b, <2>4, <2>5, <2>6 DEF NewerAhead, Ahead, In
  <2>8. OlderDone(f)'
    BY <1>a, <1>b, <1>c, <2>4, <2>5 DEF OlderDone, Done, In
  <2>9. InActive'
    BY <2>2, <2>4, <2>5, <2>7, <2>8 DEF InActive
  <2>10. SeekInv'
    BY <1>5, <1>a, <1>c, <1>d, <2>4 DEF SeekInv, Off
  <2> QED BY <1>5, <2>4, <2>9, <2>10 DEF ReaderInv
<1>6. CASE Turns
  <2>1. PICK f : f = afd
    OBVIOUS
  <2>2. /\ f = lastIdent' /\ f # None /\ f \in Files /\ f # active /\ UNCHANGED <<vfd, pos, seeked, last>> /\ rpc' = "active"
        /\ ReadTo(f, pos) /\ NewerAhead(f) /\ (vfd # None => Coming)
    BY <1>6, <1>a, <1>b, <2>1 DEF ReaderType, ReaderInv, InArchive, Turns
  <2>3. Done(f)
    BY <1>6, <1>a, <1>b, <2>1, <2>2, AllRead DEF Turns
  <2>4. Marked(f)
    BY <2>2 DEF FilesInv, LinesInv, LineInv
  <2>5. Settled'
    BY <1>e, <2>2, <2>3, <2>4 DEF Settled
  <2>6. ASSUME vfd # None PROVE AtActive'
    <3>1. PICK g : g = vfd
      OBVIOUS
    <3>2. g = vfd' /\ Ahead(g) /\ NewerAhead(g) /\ (g = active => archive \in {f, None})
      BY <2>1, <2>2, <2>6, <3>1 DEF Coming
    <3>3. OlderDone(g)
      BY <2>3, <3>2 DEF OlderDone, Done, In, Has
    <3> QED BY <1>e, <2>2, <3>2, <3>3 DEF AtActive
  <2>7. SeekInv'
    BY <1>6, <1>a, <1>c, <1>d, <2>2 DEF SeekInv, Off, Turns
  <2> QED BY <2>2, <2>5, <2>6, <2>7 DEF ReaderInv
<1>7. CASE Misses
  <2>1. ~(FromEnd /\ lastIdent = None)
    BY <1>7, <1>a DEF Misses, Zero
  <2>2. ~(FromEnd /\ ~seeked)
    BY <1>7, <1>d, <2>1 DEF SeekInv, Misses, Off
  <2>3. Settled /\ last' = last /\ lastIdent' = lastIdent /\ rpc' = "wait" /\ seeked'
    BY <1>7, <1>a, <2>2 DEF Misses, ReaderInv
  <2>4. Settled'
    <3>1. PICK h : h = lastIdent
      OBVIOUS
    <3>2. h = lastIdent' /\ (h = None => last = 0) /\ (h # None => Done(h) /\ Marked(h) /\ NewerAhead(h))
      BY <2>3, <3>1 DEF Settled
    <3>3. h # None => Done(h)' /\ Marked(h)' /\ NewerAhead(h)'
      BY <1>e, <2>3, <3>2
    <3> QED BY <2>3, <3>2, <3>3 DEF Settled
  <2>5. SeekInv'
    BY <1>c, <2>1, <2>3 DEF SeekInv
  <2> QED BY <2>3, <2>4, <2>5 DEF ReaderInv
<1>8. CASE Scans
  <2>1. PICK g : g = vfd
    OBVIOUS
  <2>2. g = vfd' /\ g = lastIdent' /\ g # None /\ g \in Files /\ rpc' = "scan"
    BY <1>8, <1>b, <2>1 DEF Scans
  <2>3. CASE FromEnd /\ ~seeked /\ pos' = Len(data[vfd]) /\ last' = EndOf(vfd) /\ seeked' = TRUE
             /\ excuse' = IF Marked(vfd) THEN excuse \cup {"deaf"} ELSE excuse
    <3>1. ~Marked(g)
      BY <2>1, <2>3
    <3>2. g = active
      BY <2>2, <3>1 DEF FilesInv, LinesInv, LineInv
    <3>3. PICK mid \in Nat : SplitAt(mid)
      BY DEF FilesInv, SplitInv
    <3>4. last' = total
      <4>1. CASE NumbersIn(g) = {}
        BY <2>1, <2>3, <4>1 DEF EndOf
      <4>2. CASE NumbersIn(g) # {}
        <5>1. PICK t : t = Greatest(NumbersIn(g))
          OBVIOUS
        <5>2. t \in Nat /\ In(g, t) /\ \A n \in Nat : In(g, n) => n <= t
          BY <2>2, <4>2, <5>1, GreatestIn DEF FilesInv, LinesInv, LineInv
        <5>3. mid < t /\ t <= total
          BY <3>2, <3>3, <5>2 DEF SplitAt
        <5>4. In(g, total)
          BY <1>b, <3>2, <3>3, <5>2, <5>3 DEF SplitAt
        <5>5. t = total
          BY <1>b, <5>2, <5>3, <5>4
        <5> QED BY <2>1, <2>3, <4>2, <5>1, <5>5 DEF EndOf
      <4> QED BY <4>1, <4>2
    <3>5. ReadTo(g, pos)'
      <4>1. pos' = Len(data[g]) /\ Len(data[g]) \in Nat /\ DOMAIN data[g] = 1 .. Len(data[g])
        BY <2>1, <2>2, <2>3, LineTyped DEF FilesInv
      <4>2. ASSUME NEW i \in 1 .. Len(data[g]) PROVE data[g][i] # Marker /\ data[g][i] <= total /\ i <= pos'
        BY <2>2, <3>1, <4>1 DEF Marked, FilesInv, LinesInv, LineInv, Upto
      <4> QED BY <1>a, <3>4, <4>2 DEF ReadTo
    <3>6. NewerAhead(g)'
      BY <1>a, <3>2 DEF NewerAhead
    <3>7. OlderDone(g)'
      BY <1>a, <1>b, <3>3, <3>4 DEF OlderDone, Done, In, SplitAt
    <3>8. InActive'
      BY <2>2, <3>5, <3>6, <3>7 DEF InActive
    <3>9. SeekInv'
      BY <2>2, <2>3 DEF SeekInv
    <3> QED BY <2>2, <3>8, <3>9 DEF ReaderInv
  <2>4. CASE ~(FromEnd /\ ~seeked) /\ pos' = 0 /\ UNCHANGED <<last, seeked, excuse>>
    <3>1. Ahead(g) /\ NewerAhead(g) /\ OlderDone(g)
      BY <1>8, <1>a, <2>1, <2>4 DEF ReaderInv, AtActive, Scans
    <3>2. ReadTo(g, 0)
      BY <2>2, <3>1, LineTyped DEF ReadTo, Ahead, In, Has, FilesInv
    <3>3. ReadTo(g, 0)' /\ NewerAhead(g)' /\ OlderDone(g)'
      BY <1>e, <2>4, <3>1, <3>2
    <3>4. InActive'
      BY <2>2, <2>4, <3>3 DEF InActive
    <3>5. SeekInv'
      BY <1>c, <2>2, <2>4 DEF SeekInv
    <3> QED BY <2>2, <3>4, <3>5 DEF ReaderInv
  <2> QED BY <1>8, <2>3, <2>4 DEF Scans
<1>9. CASE Returns
  <2>1. PICK f : f = vfd
    OBVIOUS
  <2>2. /\ f = lastIdent' /\ f # None /\ f \in Files /\ UNCHANGED <<pos, seeked, last, lastIdent>> /\ rpc' = "snapshot"
        /\ ReadTo(f, pos) /\ NewerAhead(f)
    BY <1>9, <1>a, <1>b, <2>1 DEF ReaderType, ReaderInv, InActive, Returns
  <2>3. Done(f)
    BY <1>9, <1>a, <1>b, <2>1, <2>2, AllRead DEF Returns
  <2>4. Marked(f)
    <3>1. Len(data[f]) \in Nat /\ DOMAIN data[f] = 1 .. Len(data[f])
      BY <2>2, LineTyped DEF FilesInv
    <3>2. pos + 1 \in 1 .. Len(data[f]) /\ data[f][pos + 1] = Marker
      BY <1>9, <1>b, <2>1, <3>1 DEF Returns
    <3> QED BY <3>1, <3>2 DEF Marked
  <2>5. Settled'
    BY <1>e, <2>2, <2>3, <2>4 DEF Settled
  <2>6. SeekInv'
    BY <1>9, <1>a, <1>c, <1>d, <2>2 DEF SeekInv, Off, Returns
  <2> QED BY <2>2, <2>5, <2>6 DEF ReaderInv
<1>10. CASE Waits
  <2>1. UNCHANGED <<afd, vfd, pos, lastIdent, seeked, last>>
    BY <1>10 DEF Waits
  <2>2. SeekInv'
    BY <1>10, <1>c, <1>d, <2>1 DEF SeekInv, Off, Waits
  <2>3. rpc \in {"scan", "tail"} => InActive'
    BY <1>a, <1>c, <2>1 DEF ReaderInv, InActive, ReadTo, NewerAhead, OlderDone, Ahead, Done, In
  <2>4. rpc = "wait" => Settled'
    BY <1>a, <1>c, <2>1 DEF ReaderInv, Settled, Marked, NewerAhead, Ahead, Done, In
  <2> QED BY <1>10, <2>2, <2>3, <2>4 DEF ReaderInv, Waits
<1>11. CASE Ends
  BY <1>a, <1>11 DEF Ends, ReaderInv, SeekInv, Off
<1> QED BY <1>1, <1>2, <1>3, <1>4, <1>5, <1>6, <1>7, <1>8, <1>9, <1>10, <1>11 DEF Reading

-----------------------------------------------------------------------------
(* The theorems.                                                           *)

LEMMA InitInv ==
    ASSUME Init
    PROVE  LogInv
<1>a. Stock \in Nat /\ MaxEvents \in Nat
  BY Bounds
<1>0. Stock <= MaxEvents
  BY EventLogAssumption
<1>1. ASSUME Stock = 0 PROVE FilesInv
  <2>1. data = <<>> /\ active = None /\ total = 0
    BY <1>1 DEF Init
  <2>2. Len(data) = 0 /\ data \in Seq(Seq(0 .. MaxEvents)) /\ Files = {}
    BY <2>1 DEF Files
  <2>3. FileType /\ WriterInv
    BY <1>a, <2>1, <2>2 DEF Init, FileType, WriterInv
  <2>4. LinesInv /\ GoneInv /\ MarkInv
    BY <2>1, <2>2 DEF Init, LinesInv, GoneInv, MarkInv
  <2>5. SplitInv
    <3>1. SplitAt(0)
      BY <2>1 DEF Init, SplitAt, In, Has
    <3> QED BY <3>1 DEF SplitInv
  <2> QED BY <2>3, <2>4, <2>5 DEF FilesInv
<1>2. ASSUME Stock # 0 PROVE FilesInv
  <2>1. PICK d : d = [i \in 1 .. Stock |-> i]
    OBVIOUS
  <2>2. data = <<d>> /\ active = 1 /\ total = Stock /\ gone = 0 /\ archive = None /\ wpc = "free" /\ excuse = {}
    BY <1>2, <2>1 DEF Init
  <2>3. d \in Seq(0 .. MaxEvents) /\ Len(d) = Stock /\ DOMAIN d = 1 .. Stock /\ \A i \in 1 .. Stock : d[i] = i
    <3>1. d \in [1 .. Stock -> 0 .. MaxEvents]
      BY <1>0, <1>a, <2>1
    <3> QED BY <1>a, <2>1, <3>1
  <2>4. Len(data) = 1 /\ data \in Seq(Seq(0 .. MaxEvents)) /\ data[1] = d
    BY <2>2, <2>3
  <2>5. Files = {1}
    BY <2>4 DEF Files
  <2>6. FileType /\ WriterInv
    BY <1>0, <1>a, <2>2, <2>4, <2>5 DEF Init, FileType, WriterInv, None
  <2>7. \A n \in Nat : In(1, n) <=> 0 < n /\ n <= Stock
    BY <1>a, <2>3, <2>4 DEF In, Has, None, Marker
  <2>8. ~Marked(1)
    BY <1>a, <2>3, <2>4 DEF Marked, Marker
  <2>9. LineInv(1)
    <3>1. Upto(1)
      BY <1>a, <2>2, <2>3, <2>4 DEF Upto
    <3>2. Rises(1)
      BY <1>a, <2>3, <2>4 DEF Rises
    <3>3. Topped(1)
      BY <1>2, <1>a, <2>7 DEF Topped
    <3> QED BY <2>2, <3>1, <3>2, <3>3 DEF LineInv
  <2>10. SplitInv
    <3>1. SplitAt(0)
      BY <1>a, <2>2, <2>7 DEF SplitAt, In, Has
    <3> QED BY <3>1 DEF SplitInv
  <2>11. MarkInv
    <3>1. EndMarked(1)
      BY <1>a, <2>3, <2>4 DEF EndMarked, Marker
    <3> QED BY <1>2, <1>a, <2>2, <2>5, <2>8, <3>1 DEF MarkInv
  <2>12. LinesInv /\ GoneInv
    BY <2>2, <2>5, <2>9 DEF LinesInv, GoneInv
  <2> QED BY <2>6, <2>10, <2>11, <2>12 DEF FilesInv
<1>3. ReaderType
  <2>1. /\ excuse = {} /\ req \in Requests /\ rpc = "off" /\ last = 0 /\ pos = 0 /\ ~seeked /\ seeked \in BOOLEAN
        /\ waiter = "off" /\ afd = None /\ vfd = None /\ lastIdent = None /\ total = Stock
    BY DEF Init
  <2> QED BY <1>a, <2>1 DEF ReaderType
<1>4. ReaderInv
  BY DEF Init, ReaderInv, SeekInv, Off
<1> QED BY <1>1, <1>2, <1>3, <1>4 DEF LogInv, FilesInv

LEMMA StepInv ==
    ASSUME LogInv, [Next]_vars
    PROVE  LogInv'
<1>1. FilesInv /\ ReaderType /\ ReaderInv
  BY DEF LogInv, FilesInv
<1>2. CASE WriterNext
  <2>1. Writing /\ UNCHANGED <<readerVars, waitVars>> /\ (wpc = "free" => total < MaxEvents)
    BY <1>1, <1>2, WriterSteps DEF FilesInv
  <2>2. FilesInv'
    BY <1>1, <2>1, WritingKeeps
  <2>3. ReaderType' /\ ReaderInv'
    BY <1>1, <2>1, <2>2, WritingReader DEF FilesInv
  <2> QED BY <2>2, <2>3 DEF LogInv, FilesInv
<1>3. CASE ~WriterNext
  <2>1. Reading /\ UNCHANGED fileState /\ (waiter' = waiter \/ waiter' \in {"read", "block", "done"})
    BY <1>3, ReaderSteps
  <2>2. FilesInv' /\ excuse \subseteq excuse' /\ ReaderType'
    BY <1>1, <2>1, ReadingFiles
  <2>3. ReaderInv'
    BY <1>1, <2>1, <2>2, ReadingReader
  <2> QED BY <2>2, <2>3 DEF LogInv, FilesInv
<1> QED BY <1>2, <1>3

\* The invariant holds at every step of the appends, the rotations and the
\* reads, however appends are cut and inodes reused (eventlog.Writer, Reader).
THEOREM LogInvariant == Spec => []LogInv
<1>1. Init => LogInv
  BY InitInv
<1>2. LogInv /\ [Next]_vars => LogInv'
  BY StepInv
<1> QED BY <1>1, <1>2, PTL DEF Spec

LEMMA InvSafe ==
    ASSUME LogInv
    PROVE  LogSafety
<1>1. FilesInv /\ FileType
  BY DEF LogInv, FilesInv
<1>a. /\ Len(data) \in Nat /\ total \in Nat /\ gone \in Nat /\ DOMAIN data = Files
      /\ active \in {None} \cup Files /\ archive \in {None} \cup Files
  BY <1>1, LineTyped DEF FileType, Files
<1>2. TypeOK
  <2>1. wpc # "free" => wfile # None
    BY DEF LogInv, WriterInv
  <2> QED BY <1>1, <1>a, <2>1 DEF LogInv, FileType, WriterInv, ReaderType, TypeOK
<1>3. ASSUME NEW f \in {None} \cup Files PROVE \A n : n \in Held(f) <=> n \in Nat /\ In(f, n)
  <2>1. CASE f = None
    BY <2>1 DEF Held, In, Has
  <2>2. CASE f # None
    <3>1. /\ f \in Files /\ DOMAIN data[f] = 1 .. Len(data[f])
          /\ \A i \in 1 .. Len(data[f]) : data[f][i] \in Nat
      BY <1>1, <2>2, LineTyped
    <3> QED BY <2>2, <3>1 DEF Held, NumbersIn, In, Has
  <2> QED BY <2>1, <2>2
<1>4. PICK mid \in Nat : SplitAt(mid)
  BY DEF LogInv, SplitInv
<1>5. Held(archive) \cup Held(active) = gone + 1 .. total
  <2>1. ASSUME NEW n PROVE n \in Held(archive) \cup Held(active) <=> n \in gone + 1 .. total
    <3>1. n \in Held(archive) \cup Held(active) <=> n \in Nat /\ (In(archive, n) \/ In(active, n))
      BY <1>3, <1>a
    <3>2. ASSUME n \in Nat PROVE In(archive, n) \/ In(active, n) <=> gone < n /\ n <= total
      BY <1>4, <1>a, <3>2 DEF SplitAt
    <3>3. n \in gone + 1 .. total <=> n \in Nat /\ gone < n /\ n <= total
      BY <1>a
    <3> QED BY <3>1, <3>2, <3>3
  <2> QED BY <2>1
<1>6. ASSUME NEW f \in {archive, active} \ {None} PROVE Ascending(f)
  <2>1. f \in Files /\ DOMAIN data[f] = 1 .. Len(data[f])
    BY <1>1, <1>a, LineTyped
  <2> QED BY <2>1 DEF Ascending, LogInv, LinesInv, LineInv, Rises
<1>7. \A m \in Held(archive), n \in Held(active) : m < n
  BY <1>3, <1>4, <1>a DEF SplitAt
<1> QED BY <1>2, <1>5, <1>6, <1>7 DEF LogSafety, NewestKept

\* Wherever a rotation is cut, the two paths hold the newest events, in their
\* order and without a hole (Writer.Append, rotateLocked).
THEOREM LogSafe == Spec => []LogSafety
<1>1. LogInv => LogSafety
  BY InvSafe
<1> QED BY <1>1, LogInvariant, PTL

LEMMA NoHole ==
    ASSUME FilesInv, NEW f \in Files, ReadTo(f, pos), OlderDone(f), Reads(f), last \in Nat, pos \in Nat,
           NEW m, m = data[f][pos + 1], NEW n \in Nat, last < n, n < m, n > gone
    PROVE  Before(n)
<1>a. /\ Len(data[f]) \in Nat /\ f # None /\ total \in Nat /\ gone \in Nat /\ pos + 1 \in 1 .. Len(data[f])
      /\ m # Marker /\ \A i \in 1 .. Len(data[f]) : data[f][i] \in Nat
  BY LineTyped DEF FilesInv, Reads
<1>1. m \in Nat /\ m <= total /\ In(f, m)
  BY <1>a DEF FilesInv, LinesInv, LineInv, Upto, In, Has
<1>2. In(archive, n) \/ In(active, n)
  <2>1. PICK mid \in Nat : SplitAt(mid)
    BY DEF FilesInv, SplitInv
  <2> QED BY <1>a, <1>1, <2>1 DEF SplitAt
<1>3. ASSUME In(f, n) PROVE Before(n)
  <2>1. PICK j \in 1 .. Len(data[f]) : data[f][j] = n
    BY <1>3 DEF In, Has
  <2>2. n # Marker
    BY DEF Marker
  <2>3. j <= pos
    <3>1. CASE j = pos + 1
      BY <2>1, <3>1
    <3>2. CASE j > pos + 1
      BY <1>a, <1>1, <2>1, <2>2, <3>2 DEF FilesInv, LinesInv, LineInv, Rises
    <3> QED BY <2>1, <3>1, <3>2
  <2> QED BY <2>1, <2>3 DEF ReadTo
<1>4. CASE f = active
  BY <1>2, <1>3, <1>4 DEF OlderDone, Done
<1>5. CASE f # active
  <2>1. ~In(active, n) /\ (f # archive => ~In(archive, n))
    BY <1>1, <1>5, NewerThan
  <2> QED BY <1>2, <1>3, <2>1
<1> QED BY <1>4, <1>5

LEMMA StepsInOrder ==
    ASSUME LogInv, [Next]_vars
    PROVE  InOrder
<1> SUFFICES ASSUME last' # last, excuse' = {}
             PROVE  /\ last' > last
                    /\ \/ last = 0 /\ FromEnd
                       \/ \A n \in last + 1 .. last' - 1 : n <= gone \/ Before(n)
  BY DEF InOrder
<1>a. /\ FilesInv /\ ReaderType /\ ReaderInv /\ last \in Nat /\ pos \in Nat /\ gone \in Nat
      /\ \A f \in {afd, vfd} : f \in {None} \cup Files
  BY LineTyped DEF LogInv, FilesInv, ReaderType, FileType
<1>1. ~WriterNext
  BY <1>a, WriterSteps DEF FilesInv, readerVars
<1>2. Reading /\ UNCHANGED fileState /\ (waiter' = waiter \/ waiter' \in {"read", "block", "done"})
  BY <1>1, ReaderSteps
<1>3. excuse = {} /\ last' \in Nat
  <2>1. excuse \subseteq excuse' /\ FilesInv' /\ ReaderType'
    BY <1>2, <1>a, ReadingFiles
  <2>2. last' \in 0 .. total' /\ total' = total /\ total \in Nat
    BY <1>2, <1>a, <2>1, LineTyped DEF ReaderType, fileState, FilesInv
  <2> QED BY <2>1, <2>2
<1>4. ASSUME NEW f \in Files, ReadTo(f, pos), OlderDone(f), Reads(f)
      PROVE  last' > last /\ \A n \in last + 1 .. last' - 1 : n <= gone \/ Before(n)
  <2>1. PICK m : m = data[f][pos + 1]
    OBVIOUS
  <2>2. last' = m /\ UNCHANGED data
    BY <1>2, <1>4, <2>1 DEF Reads, fileState
  <2>3. m \in Nat /\ m > last
    BY <1>4, <1>a, <2>1, <2>2, ReadOn
  <2>4. ASSUME NEW n \in last + 1 .. m - 1, ~(n <= gone) PROVE Before(n)
    <3>1. n \in Nat /\ last < n /\ n < m /\ n > gone
      BY <1>a, <2>3, <2>4
    <3> QED BY <1>4, <1>a, <2>1, <3>1, NoHole
  <2> QED BY <2>2, <2>3, <2>4
<1>5. CASE rpc = "archive" /\ Reads(afd)
  <2>1. afd \in Files /\ afd # active /\ ReadTo(afd, pos)
    BY <1>3, <1>5, <1>a DEF ReaderType, ReaderInv, InArchive
  <2> QED BY <1>4, <1>5, <2>1 DEF OlderDone
<1>6. CASE rpc = "scan" /\ Reads(vfd)
  <2>1. vfd \in Files /\ ReadTo(vfd, pos) /\ OlderDone(vfd)
    BY <1>3, <1>6, <1>a DEF ReaderType, ReaderInv, InActive
  <2> QED BY <1>4, <1>6, <2>1
<1>7. CASE Misses \/ Scans
  <2>1. FromEnd /\ ~seeked /\ rpc = "active"
    BY <1>7 DEF Misses, Scans
  <2>2. lastIdent = None /\ last = 0
    BY <1>3, <1>a, <2>1 DEF ReaderInv, SeekInv, Off
  <2> QED BY <1>3, <1>a, <2>1, <2>2
<1> QED BY <1>2, <1>5, <1>6, <1>7 DEF Reading, Still, Begins, Looks, Turns, Returns, Waits, Ends

LEMMA EndsComplete ==
    ASSUME LogInv, [Next]_vars
    PROVE  OneShotComplete
<1> SUFFICES ASSUME rpc # "done", rpc' = "done", vfd # None, req.until = 0, excuse = {}
             PROVE  last = total \/ Before(total)
  BY DEF OneShotComplete
<1>a. /\ FilesInv /\ ReaderType /\ ReaderInv /\ last \in Nat /\ last <= total /\ pos \in Nat /\ gone \in Nat /\ total \in Nat
      /\ vfd \in Files
  BY LineTyped DEF LogInv, FilesInv, ReaderType, FileType
<1>1. rpc = "scan" /\ ~More(vfd)
  <2>1. ~WriterNext
    BY <1>a, WriterSteps DEF FilesInv, readerVars
  <2>2. ReadArchive \/ ReadActive \/ OneShotDone
    BY <2>1 DEF Next, ReaderNext, WatcherNext, WaitNext, Rest, vars, readerVars, Subscribe, OpenSnapshot, ArchiveRead,
       NoActive, ScanActive, SeeMarker, EndOfActive, TakeToken, CloseSubscription, Finish, Arm, Inotify, Poll,
       Reach, BeginWait, ReadState, Wakes
  <2> QED BY <2>2 DEF ReadArchive, ReadActive, OneShotDone, Deliver, ReachUntil, Past
<1>2. ReadTo(vfd, pos) /\ OlderDone(vfd)
  BY <1>1, <1>a DEF ReaderInv, InActive
<1>3. Len(data[vfd]) \in Nat /\ DOMAIN data[vfd] = 1 .. Len(data[vfd]) /\ pos >= Len(data[vfd])
  BY <1>1, <1>a, LineTyped DEF FilesInv, More
<1>4. ASSUME NEW i \in 1 .. Len(data[vfd]) PROVE data[vfd][i] # Marker /\ (data[vfd][i] <= last \/ Before(data[vfd][i]))
  BY <1>2, <1>3, <1>a DEF ReadTo
<1>5. ~Marked(vfd)
  BY <1>3, <1>4 DEF Marked
<1>6. vfd = active /\ Done(archive)
  BY <1>2, <1>5, <1>a DEF FilesInv, LinesInv, LineInv, OlderDone
<1>7. CASE total = 0
  BY <1>7, <1>a
<1>8. CASE total # 0
  <2>1. gone < total
    BY <1>8, <1>a DEF FilesInv, MarkInv
  <2>2. In(archive, total) \/ In(active, total)
    <3>1. PICK mid \in Nat : SplitAt(mid)
      BY <1>a DEF FilesInv, SplitInv
    <3> QED BY <1>a, <2>1, <3>1 DEF SplitAt
  <2>3. total <= last \/ Before(total)
    BY <1>4, <1>6, <1>a, <2>2 DEF Done, In, Has
  <2> QED BY <1>a, <2>3
<1> QED BY <1>7, <1>8

\* A reader delivers the log in its order, each event once and none left out
\* but those a rotation dropped, and a one-shot read that ends has delivered
\* all there is (Reader.scanLoop).
THEOREM ReadsHold == Spec => ReadsInOrder
<1>1. LogInv /\ [Next]_vars => [InOrder /\ OneShotComplete]_vars
  BY StepsInOrder, EndsComplete
<1> QED BY <1>1, LogInvariant, PTL DEF Spec, ReadsInOrder
=============================================================================
