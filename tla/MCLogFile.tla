----------------------------- MODULE MCLogFile -----------------------------
(* A small instance of LogFile: three names, files of at most three bytes. *)
EXTENDS LogFile

Ask(kind, n, follow) == [kind |-> kind, n |-> n, follow |-> follow]
MCReads == {Ask("all", 0, FALSE), Ask("tail", 3, FALSE), Ask("since", 2, FALSE),
            Ask("until", 3, FALSE), Ask("head", 2, FALSE), Ask("start", 0, FALSE),
            Ask("since", 0, TRUE), Ask("tail", 2, TRUE)}
=============================================================================
