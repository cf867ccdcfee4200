----------------------------- MODULE TuiPreview -----------------------------
(***************************************************************************)
(* The preview pane of `cmdman tui` (tui/runtime.go): the log reader or    *)
(* the raw attach stream that follows the selected command.                *)
(*                                                                         *)
(* Opening a stream, reading a line of it, draining a raw one and the      *)
(* repaint tick run off the Update loop and answer with a message; the     *)
(* selection may have moved, and moved back, before one lands.             *)
(***************************************************************************)
EXTENDS Integers, FiniteSets

CONSTANTS
    PCmds,          \* the commands of the list
    MaxMoves,       \* bound: keys and list loads that may move the preview
    MaxLines        \* bound: lines a log stream yields

ASSUME PreviewAssumption ==
    MaxMoves \in Nat /\ MaxLines \in Nat /\ PCmds \cap {"none", "header"} = {}

VARIABLES
    kind,      \* what each row is previewed as: "raw" (running under a
               \* terminal), "log", "none" (no log storage), "gone"
    sel,       \* the selected command, "header" for a project's row
    tab,       \* the active tab
    preview,   \* previewState
    disabled,  \* termPreviewDisabled
    lastGen,   \* previewGen
    stream,    \* every stream asked for
    moves,     \* how many moves were made
    bounced,   \* the preview came back to a command it still had work for
    crashed    \* a command panicked, which ends the program

previewVars == <<kind, sel, tab, preview, disabled, lastGen, stream, moves, bounced, crashed>>

Ids   == 1..(MaxMoves + 2)
Empty == [cmd |-> "none", status |-> "empty", terminal |-> FALSE, log |-> 0, raw |-> 0,
          streaming |-> FALSE, gen |-> 0]
\* A stream: whose it is, how far its opening got, what reads it.
Unused == [cmd |-> "none", raw |-> FALSE, st |-> "unused", closed |-> FALSE, left |-> 0,
           reads |-> 0, lines |-> 0, drain |-> FALSE, tick |-> FALSE, gen |-> 0]

PreviewInit ==
    /\ kind \in [PCmds -> {"raw", "log", "none"}]
    /\ sel = "header" /\ tab = "commands" /\ preview = Empty
    /\ disabled = FALSE /\ lastGen = 0
    /\ stream = [i \in Ids |-> Unused]
    /\ moves = 0 /\ bounced = FALSE /\ crashed = FALSE

Free   == {i \in Ids : stream[i].st = "unused"}
NextId == CHOOSE i \in Free : \A j \in Free : i <= j
Live   == ~crashed

----------------------------------------------------------------------------
(* reconcilePreview, after any key and any list load.                       *)

StopPreview(p, s) == [i \in Ids |->
    IF i # 0 /\ i \in {p.log, p.raw} THEN [s[i] EXCEPT !.closed = TRUE] ELSE s[i]]

TerminalView(c, k, off) == k[c] = "raw" /\ ~off

\* Work for c that an earlier preview of it left in flight.
Unfinished(c) == \E i \in Ids : /\ stream[i].cmd = c
                                /\ \/ stream[i].st \in {"opening", "msg"}
                                   \/ stream[i].reads + stream[i].lines > 0

Reconciled(p, c, k, t, off, s) ==
    IF t # "commands" \/ (c # "header" /\ p.cmd = c)
    THEN preview' = p /\ stream' = s /\ UNCHANGED bounced
    ELSE LET s1 == StopPreview(p, s) IN
      IF c = "header" THEN preview' = Empty /\ stream' = s1 /\ UNCHANGED bounced
      ELSE LET term == TerminalView(c, k, off) IN
        /\ bounced' = (bounced \/ Unfinished(c))
        /\ IF ~term /\ k[c] = "none"
           THEN preview' = [Empty EXCEPT !.cmd = c, !.status = "nostore"] /\ stream' = s1
           ELSE /\ Free # {}
                /\ preview' = [Empty EXCEPT !.cmd = c, !.status = "loading", !.terminal = term]
                /\ stream' = [s1 EXCEPT ![NextId] = [Unused EXCEPT !.cmd = c, !.raw = term,
                                                    !.st = "opening", !.left = MaxLines]]

Listed(k) == {c \in PCmds : k[c] # "gone"} \cup {"header"}
Move == Live /\ moves < MaxMoves /\ moves' = moves + 1

\* j, k, fold, filter: the selection moves to another row.
Select(c) ==
    /\ Move /\ tab = "commands" /\ c \in Listed(kind) /\ c # sel /\ sel' = c
    /\ Reconciled(preview, c, kind, tab, disabled, stream)
    /\ UNCHANGED <<kind, tab, disabled, lastGen, crashed>>

SwitchTab ==
    /\ Move /\ tab' = IF tab = "commands" THEN "compose" ELSE "commands"
    /\ Reconciled(preview, sel, kind, tab', disabled, stream)
    /\ UNCHANGED <<kind, sel, disabled, lastGen, crashed>>

\* A list load: a row may come to be previewed another way, or go; the
\* selection stays with its command, and falls to another row without it.
ListLoaded(c, k) ==
    LET listed == [kind EXCEPT ![c] = k] IN
    /\ Move /\ k # kind[c]
    /\ kind' = listed
    /\ sel' \in IF sel \in Listed(listed) THEN {sel} ELSE Listed(listed)
    /\ Reconciled(preview, sel', listed, tab, disabled, stream)
    /\ UNCHANGED <<tab, disabled, lastGen, crashed>>

----------------------------------------------------------------------------
(* Log readers.                                                             *)

OpenReturns(i, st) ==
    /\ stream[i].st = "opening" /\ st \in {"msg", "failed"}
    /\ stream' = [stream EXCEPT ![i].st = st]
    /\ UNCHANGED <<kind, sel, tab, preview, disabled, lastGen, moves, bounced, crashed>>

Discarded(i) == [stream EXCEPT ![i].st = "open", ![i].closed = TRUE]
Rest == <<kind, sel, tab, disabled, moves, bounced, crashed>>

KeepsFormer(p, s) == s
CloseFormer(p, s) == [j \in Ids |-> IF j = p.log THEN [s[j] EXCEPT !.closed = TRUE] ELSE s[j]]

OpenFailed == [preview EXCEPT !.status = "error"]

PreviewOpened(i) ==
    /\ Live /\ ~stream[i].raw /\ stream[i].st \in {"msg", "failed"}
    /\ IF stream[i].cmd # preview.cmd THEN stream' = Discarded(i) /\ UNCHANGED preview
       ELSE IF stream[i].st = "failed"
       THEN stream' = Discarded(i) /\ preview' = OpenFailed
       ELSE /\ preview' = [preview EXCEPT !.log = i]
            /\ stream' = [CloseFormer(preview, stream) EXCEPT ![i].st = "open", ![i].reads = 1]
    /\ UNCHANGED <<Rest, lastGen>>

\* readLineCmd returns a line, also one buffered in a stream closed meanwhile,
\* or the end of the stream, which is a message that changes nothing.
LineRead(i) ==
    /\ stream[i].reads > 0 /\ stream[i].left > 0
    /\ stream' = [stream EXCEPT ![i].reads = @ - 1, ![i].lines = @ + 1, ![i].left = @ - 1]
    /\ UNCHANGED <<Rest, lastGen, preview>>

ReadEnds(i) ==
    /\ stream[i].reads > 0 /\ (stream[i].left = 0 \/ stream[i].closed)
    /\ stream' = [stream EXCEPT ![i].reads = @ - 1]
    /\ UNCHANGED <<Rest, lastGen, preview>>

OwnLine(i) == stream[i].cmd = preview.cmd

PreviewLine(i) ==
    /\ Live /\ stream[i].lines > 0
    /\ LET s == [stream EXCEPT ![i].lines = @ - 1] IN
       \/ ~OwnLine(i) /\ stream' = s /\ UNCHANGED <<preview, crashed>>
       \/ OwnLine(i) /\ stream' = s /\ preview' = [preview EXCEPT !.status = "error"]
                     /\ UNCHANGED crashed
       \/ /\ OwnLine(i)
          /\ preview' = [preview EXCEPT !.status = "ok"]
          /\ IF preview.log = 0 THEN crashed' = TRUE /\ stream' = s
             ELSE stream' = [s EXCEPT ![preview.log].reads = @ + 1] /\ UNCHANGED crashed
    /\ UNCHANGED <<kind, sel, tab, disabled, lastGen, moves, bounced>>

----------------------------------------------------------------------------
(* Terminal view.                                                           *)

NextGen == lastGen + 1

RawOpened(i) ==
    /\ Live /\ stream[i].raw /\ stream[i].st \in {"msg", "failed"}
    /\ IF stream[i].cmd # preview.cmd
       THEN stream' = Discarded(i) /\ UNCHANGED <<preview, lastGen>>
       ELSE IF stream[i].st = "failed"
       THEN stream' = Discarded(i) /\ preview' = OpenFailed /\ UNCHANGED lastGen
       ELSE /\ lastGen' = NextGen
            /\ preview' = [preview EXCEPT !.raw = i, !.status = "ok", !.streaming = TRUE,
                                          !.gen = NextGen]
            /\ stream' = [j \in Ids |->
                   IF j = i THEN [stream[i] EXCEPT !.st = "open", !.drain = TRUE,
                                                   !.tick = TRUE, !.gen = NextGen]
                   ELSE IF j = preview.raw THEN [stream[j] EXCEPT !.closed = TRUE]
                   ELSE stream[j]]
    /\ UNCHANGED Rest

Current(i) == stream[i].cmd = preview.cmd /\ stream[i].gen = preview.gen

\* The emulator panicked: no terminal view again, and the log in its place.
FallBack(s) ==
    /\ disabled' = TRUE
    /\ Reconciled(Empty, sel, kind, tab, TRUE, StopPreview(preview, s))

RawTick(i) ==
    /\ Live /\ stream[i].tick
    /\ \/ /\ ~(Current(i) /\ preview.streaming)
          /\ stream' = [stream EXCEPT ![i].tick = FALSE]
          /\ UNCHANGED <<preview, disabled, bounced>>
       \/ Current(i) /\ preview.streaming /\ UNCHANGED <<stream, preview, disabled, bounced>>
       \/ Current(i) /\ preview.streaming /\ FallBack([stream EXCEPT ![i].tick = FALSE])
    /\ UNCHANGED <<kind, sel, tab, lastGen, moves, crashed>>

\* The drain is over: the stream's end, an error, or a panic.
RawClosed(i, how) ==
    /\ Live /\ stream[i].drain
    /\ LET s == [stream EXCEPT ![i].drain = FALSE] IN
       IF ~Current(i) THEN stream' = s /\ UNCHANGED <<preview, disabled, bounced>>
       ELSE \/ how = "end" /\ stream' = s /\ preview' = [preview EXCEPT !.streaming = FALSE]
               /\ UNCHANGED <<disabled, bounced>>
            \/ how = "error" /\ stream' = s /\ preview' = [preview EXCEPT !.status = "error"]
               /\ UNCHANGED <<disabled, bounced>>
            \/ how = "panic" /\ FallBack(s)
    /\ UNCHANGED <<kind, sel, tab, lastGen, moves, crashed>>

PreviewNext ==
    \/ \E c \in PCmds \cup {"header"} : Select(c)
    \/ SwitchTab
    \/ \E c \in PCmds, k \in {"raw", "log", "gone"} : ListLoaded(c, k)
    \/ \E i \in Ids : \/ \E st \in {"msg", "failed"} : OpenReturns(i, st)
                      \/ PreviewOpened(i) \/ LineRead(i) \/ ReadEnds(i) \/ PreviewLine(i)
                      \/ RawOpened(i) \/ RawTick(i)
                      \/ \E how \in {"end", "error", "panic"} : RawClosed(i, how)

PreviewSpec == PreviewInit /\ [][PreviewNext]_previewVars

----------------------------------------------------------------------------
(* Properties.                                                              *)

PreviewTypeOK ==
    /\ sel \in PCmds \cup {"header"} /\ tab \in {"commands", "compose"}
    /\ preview.status \in {"empty", "loading", "ok", "error", "nostore"}
    /\ preview.log \in Ids \cup {0} /\ preview.raw \in Ids \cup {0}
    /\ \A i \in Ids : stream[i].reads \in Nat /\ stream[i].lines \in Nat

\* Every log reader and attach session that was opened is closed, held by the
\* preview, or in a message on its way to it: moving fast over the list
\* leaves none behind at the monitors.
NoStreamLeaks == \A i \in Ids :
    stream[i].st = "open" => stream[i].closed \/ i \in {preview.log, preview.raw}

\* "Loading" has something to wait for: an open of the command in flight, or
\* a reader that has not yielded yet.
LoadingAnswered == preview.status = "loading" =>
    \/ preview.log # 0
    \/ \E i \in Ids : /\ stream[i].cmd = preview.cmd
                      /\ stream[i].st \in {"opening", "msg", "failed"}

\* One loop repaints the shown terminal, and one reads the shown log, unless
\* the preview came back to a command it still had work for.
Painting(i) == stream[i].tick /\ Current(i) /\ preview.streaming
Reading(i) == stream[i].cmd = preview.cmd /\ stream[i].reads + stream[i].lines > 0
OneLoop ==
    /\ \A i, j \in Ids : Painting(i) /\ Painting(j) => i = j
    /\ ~bounced => \A i \in Ids :
          Reading(i) => i = preview.log /\ stream[i].reads + stream[i].lines = 1

\* The one panic there is (PreviewNeverCrashes) needs a preview that came back
\* to a command it still had work for: the line of an earlier reader is what
\* asks a preview without a stream for the next one (readLineCmd).
CrashAfterReturn == crashed => bounced

\* A panic of the emulator turns the terminal view off for the session, the
\* opens still in flight included.
DisabledForGood == disabled => ~preview.terminal

\* "A passive preview must never crash the TUI" (drainRawCmd).
PreviewNeverCrashes == ~crashed
=============================================================================
