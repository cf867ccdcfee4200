------------------------------- MODULE Attach -------------------------------
(***************************************************************************)
(* An attach to a command (cli/attach.go), the detach keys it watches for  *)
(* (cli/attach_detachkeys.go), and the sticky loop around it, which waits  *)
(* at a prompt while the command is down (cli/sticky.go).                  *)
(*                                                                         *)
(* What is typed goes through one pipe, whose next reader is the attach or *)
(* the prompt of the moment.  A reader takes what is there in chunks,      *)
(* looks for the detach keys byte by byte and hands on a buffer at a time. *)
(* The terminal's modes, its size and what the command prints are left     *)
(* out.                                                                    *)
(***************************************************************************)
EXTENDS Integers, Sequences, SequencesExt

CONSTANTS
    DetachKeys,   \* the sequence that detaches
    KeySet,       \* the keys that are typed, "r" among them
    BufCap,       \* the size of the buffer a Read is given
    MaxTyped, MaxSessions

\* The first of the detach keys is not among the others but for the last, as in
\* the default: a byte that ends a match is looked at as a first key only.
ASSUME DetachKeysAssumption ==
    /\ DetachKeys \in Seq(KeySet) /\ DetachKeys # <<>>
    /\ \A n \in 2 .. Len(DetachKeys) - 1 : DetachKeys[n] # DetachKeys[1]
    /\ BufCap \in Nat \ {0}

VARIABLES
    pipe,         \* what is typed and not taken, and whether stdin has ended
    rd,           \* the reader of the moment
    session,      \* the attach or the sticky loop
    remote,       \* the command, and whether the stream to it has ended
    typedN, sessions

attachVars == <<pipe, rd, session, remote, typedN, sessions>>

\* A detachKeyReader: the bytes it has buffered, how much of the detach keys the
\* last of them are, what it is about to return (out) and what did not fit.
\* taken and sent are history: what this reader took and the command got of it.
NoReader ==
    [on |-> FALSE, buf |-> <<>>, match |-> 0, out |-> <<>>, pending |-> <<>>, detached |-> FALSE,
     taken |-> <<>>, sent |-> <<>>]
NewReader == [NoReader EXCEPT !.on = TRUE]
Exhausted == pipe.eof /\ pipe.keys = <<>>

AttachInit ==
    /\ pipe = [keys |-> <<>>, eof |-> FALSE]
    /\ rd = NoReader
    /\ session \in {[phase |-> "look", sticky |-> s, errs |-> <<>>, res |-> "none", force |-> 0] :
                  s \in BOOLEAN}
    /\ remote \in {[up |-> u, over |-> TRUE] : u \in BOOLEAN}
    /\ typedN = 0 /\ sessions = 0

-----------------------------------------------------------------------------
(* The reader                                                              *)

\* What does not fit in the caller's buffer spills over.
Emit(r, bytes) ==
    LET room == BufCap - Len(r.out)
        k == IF r.pending # <<>> THEN 0 ELSE IF Len(bytes) < room THEN Len(bytes) ELSE room
    IN  [r EXCEPT !.out = @ \o SubSeq(bytes, 1, k), !.pending = @ \o SubSeq(bytes, k + 1, Len(bytes))]

\* The byte goes on a match, ends one and begins another, or is none of it.
KeyMatched(r, b) ==
    LET r1 == [r EXCEPT !.taken = Append(@, b)]
        flushed == Emit([r1 EXCEPT !.match = 0], SubSeq(DetachKeys, 1, r.match))
    IN  IF b = DetachKeys[r.match + 1]
        THEN IF r.match + 1 = Len(DetachKeys) THEN [r1 EXCEPT !.match = 0, !.detached = TRUE]
             ELSE [r1 EXCEPT !.match = @ + 1]
        ELSE IF r.match > 0 /\ b = DetachKeys[1] THEN [flushed EXCEPT !.match = 1]
        ELSE Emit(flushed, <<b>>)

\* Read has something to return and would block, or its buffer is full.
BufFull(r) == r.pending # <<>> \/ Len(r.out) = BufCap
ReadReturns(r) == r.detached \/ BufFull(r) \/ (r.out # <<>> /\ r.buf = <<>>)

\* The next Read begins with what the last one had no room for.
Again(r) ==
    LET k == IF Len(r.pending) < BufCap THEN Len(r.pending) ELSE BufCap IN
    [r EXCEPT !.out = SubSeq(r.pending, 1, k), !.pending = SubSeq(@, k + 1, Len(@))]

ReaderOn == rd.on /\ session.phase \in {"attached", "ending", "prompt"}

KeysBuffered ==
    /\ ReaderOn /\ ~ReadReturns(rd) /\ rd.buf = <<>>
    /\ \E n \in 1 .. Len(pipe.keys) :
        /\ rd' = [rd EXCEPT !.buf = SubSeq(pipe.keys, 1, n)]
        /\ pipe' = [pipe EXCEPT !.keys = SubSeq(@, n + 1, Len(@))]
    /\ UNCHANGED <<session, remote, typedN, sessions>>
KeysScanned ==
    /\ ReaderOn /\ ~ReadReturns(rd) /\ rd.buf # <<>>
    /\ rd' = KeyMatched([rd EXCEPT !.buf = Tail(@)], Head(rd.buf))
    /\ UNCHANGED <<pipe, session, remote, typedN, sessions>>

\* At the end of stdin the start of a match is handed on after all.
KeysEnd ==
    /\ ReaderOn /\ ~ReadReturns(rd) /\ rd.buf = <<>> /\ Exhausted
    /\ \/ /\ rd.match > 0
          /\ rd' = Emit([rd EXCEPT !.match = 0], SubSeq(DetachKeys, 1, rd.match))
          /\ session' = session
       \/ /\ rd.match = 0
          /\ rd' = [rd EXCEPT !.on = FALSE]
          /\ session' = IF session.phase # "prompt" THEN session
                        ELSE [session EXCEPT !.phase = "done", !.res = "nobody"]
    /\ UNCHANGED <<pipe, remote, typedN, sessions>>

-----------------------------------------------------------------------------
(* Attach                                                                  *)

\* With no stdin left nobody can answer the prompt.
ToPrompt(a) ==
    IF ~a.sticky THEN [a EXCEPT !.phase = "done", !.res = "error"]
    ELSE IF Exhausted THEN [a EXCEPT !.phase = "done", !.res = "nobody"]
    ELSE [a EXCEPT !.phase = "prompt", !.res = "none"]
ReaderOf(a) == IF a.phase = "prompt" THEN NewReader ELSE rd

\* The sticky loop looks at the command, and one it cannot look at counts as down;
\* a plain attach opens its session.
StickyLooks ==
    /\ session.phase = "look"
    /\ \E running \in {remote.up} \cup (IF session.sticky THEN {FALSE} ELSE {}) :
        /\ session' = IF session.sticky /\ ~running THEN ToPrompt(session) ELSE [session EXCEPT !.phase = "open"]
        /\ rd' = ReaderOf(session')
    /\ UNCHANGED <<pipe, remote, typedN, sessions>>

\* With no stdin left the attach is for output only.
SessionOpens ==
    /\ session.phase = "open" /\ sessions < MaxSessions /\ remote.up
    /\ session' = [session EXCEPT !.phase = "attached", !.errs = <<>>, !.res = "none", !.force = 0]
    /\ rd' = IF Exhausted THEN NoReader ELSE NewReader
    /\ remote' = [remote EXCEPT !.over = FALSE]
    /\ sessions' = sessions + 1
    /\ UNCHANGED <<pipe, typedN>>

OpenFails ==
    /\ session.phase = "open"
    /\ session' = ToPrompt(session) /\ rd' = ReaderOf(session')
    /\ UNCHANGED <<pipe, remote, typedN, sessions>>

\* pumpStdinToStream: what was read is sent before the error of the read counts.
StdinSends ==
    /\ ReaderOn /\ session.phase \in {"attached", "ending"} /\ ReadReturns(rd)
    /\ \E ok \in {TRUE} \cup {~remote.over} :
        LET next == Again([rd EXCEPT !.sent = @ \o rd.out])
            end == IF rd.out # <<>> /\ ~ok THEN "error"
                   ELSE IF rd.detached /\ rd.pending = <<>> THEN "detach" ELSE "none"
        IN  /\ rd' = IF end = "none" THEN next ELSE [next EXCEPT !.on = FALSE]
            /\ session' = IF end = "none" THEN session ELSE [session EXCEPT !.errs = Append(@, end)]
    /\ UNCHANGED <<pipe, remote, typedN, sessions>>

\* pumpStreamToStdout: the stream ends with the command, or breaks.
StreamEnds ==
    /\ session.phase = "attached" /\ ~remote.over
    /\ \E err \in IF remote.up THEN {"error"} ELSE {"eof", "error"} :
          session' = [session EXCEPT !.errs = Append(@, err)]
    /\ remote' = [remote EXCEPT !.over = TRUE]
    /\ UNCHANGED <<pipe, rd, typedN, sessions>>

\* handleAttachSignals: three in a row of the two that ask to end force the exit.
AttachSignalled(s) ==
    /\ session.phase = "attached" /\ session.force < 3
    /\ session' = [session EXCEPT !.force = IF s = "int" THEN @ + 1 ELSE 0]
    /\ UNCHANGED <<pipe, rd, remote, typedN, sessions>>

\* The first thing to happen decides; then everything is joined.
AttachDecides ==
    /\ session.phase = "attached"
    /\ \E res \in (IF session.errs # <<>> THEN {Head(session.errs)} ELSE {})
              \cup (IF session.force = 3 THEN {"force"} ELSE {}) \cup {"ctx"} :
          session' = [session EXCEPT !.phase = "ending", !.res = res]
    /\ UNCHANGED <<pipe, rd, remote, typedN, sessions>>

AttachReturns ==
    /\ session.phase = "ending"
    /\ session' =
          IF session.res \in {"detach", "force", "ctx"} \/ ~session.sticky THEN [session EXCEPT !.phase = "done"]
          ELSE IF session.res = "eof" THEN [session EXCEPT !.phase = "look"]
          ELSE ToPrompt(session)
    /\ rd' = ReaderOf(session')
    /\ remote' = [remote EXCEPT !.over = TRUE]
    /\ UNCHANGED <<pipe, typedN, sessions>>

-----------------------------------------------------------------------------
(* The prompt                                                              *)

\* An r among what was read restarts, ahead of the detach keys behind it.
PromptReads ==
    /\ ReaderOn /\ session.phase = "prompt" /\ ReadReturns(rd)
    /\ IF "r" \in Range(rd.out) THEN /\ session' = [session EXCEPT !.phase = "restart"]
                                     /\ rd' = [rd EXCEPT !.on = FALSE]
       ELSE IF rd.detached THEN /\ session' = [session EXCEPT !.phase = "done", !.res = "detach"]
                                /\ rd' = [rd EXCEPT !.on = FALSE]
       ELSE session' = session /\ rd' = Again([rd EXCEPT !.sent = @ \o rd.out])
    /\ UNCHANGED <<pipe, remote, typedN, sessions>>

PromptCancelled ==
    /\ session.phase = "prompt"
    /\ session' = [session EXCEPT !.phase = "done", !.res = "ctx"]
    /\ UNCHANGED <<pipe, rd, remote, typedN, sessions>>

\* The restart works or is reported to have failed; the loop looks again.
PromptRestarts ==
    /\ session.phase = "restart"
    /\ session' = [session EXCEPT !.phase = "look"]
    /\ \E up \in {remote.up, TRUE} : remote' = [remote EXCEPT !.up = up]
    /\ UNCHANGED <<pipe, rd, typedN, sessions>>

-----------------------------------------------------------------------------
(* The user and the command                                                *)

KeyTyped ==
    /\ typedN < MaxTyped /\ session.phase # "done" /\ ~pipe.eof
    /\ \E k \in KeySet : pipe' = [pipe EXCEPT !.keys = Append(@, k)]
    /\ typedN' = typedN + 1
    /\ UNCHANGED <<rd, session, remote, sessions>>
StdinEnds ==
    /\ ~pipe.eof /\ session.phase # "done"
    /\ pipe' = [pipe EXCEPT !.eof = TRUE]
    /\ UNCHANGED <<rd, session, remote, typedN, sessions>>
CommandExits ==
    /\ remote.up /\ session.phase # "done"
    /\ remote' = [remote EXCEPT !.up = FALSE]
    /\ UNCHANGED <<pipe, rd, session, typedN, sessions>>

AttachNext ==
    \/ KeysBuffered \/ KeysScanned \/ KeysEnd
    \/ StickyLooks \/ SessionOpens \/ OpenFails
    \/ StdinSends \/ StreamEnds \/ AttachDecides \/ AttachReturns
    \/ \E s \in {"int", "other"} : AttachSignalled(s)
    \/ PromptReads \/ PromptCancelled \/ PromptRestarts
    \/ KeyTyped \/ StdinEnds \/ CommandExits

-----------------------------------------------------------------------------
(* Properties                                                              *)

HandedOn(r) == r.sent \o r.out \o r.pending

\* Whatever chunks the keys come in and however small the buffer, what is not
\* detach keys is handed on unchanged and in order, a start of them that came to
\* nothing included, and the keys themselves never are.
KeysHandedOn ==
    rd.on => rd.taken = HandedOn(rd) \o (IF rd.detached THEN DetachKeys ELSE SubSeq(DetachKeys, 1, rd.match))
             \/ (Exhausted /\ rd.match = 0 /\ rd.taken = HandedOn(rd))

\* The reader has seen the detach keys just when they are the last of what it took.
Occurs(s, n) == n + Len(DetachKeys) <= Len(s) /\ SubSeq(s, n + 1, n + Len(DetachKeys)) = DetachKeys
DetachExact ==
    \A n \in 0 .. Len(rd.taken) :
        Occurs(rd.taken, n) => rd.detached /\ n + Len(DetachKeys) = Len(rd.taken)

\* A sticky session outlives its command, every error of the stream and a look
\* at the command that fails: it ends only when the user detaches, forces the
\* exit, cancels, or can no longer answer.
StickyStays ==
    session.phase = "done" /\ session.sticky =>
        \/ session.res = "detach" /\ rd.detached
        \/ session.res = "force" /\ session.force = 3
        \/ session.res = "ctx"
        \/ session.res = "nobody" /\ pipe.eof

AttachSafety == KeysHandedOn /\ DetachExact /\ StickyStays
=============================================================================
