--------------------------- MODULE MCDetachedJob ---------------------------
(* A small instance of DetachedJob: two invocations, two records. *)
EXTENDS DetachedJob, TLC

CONSTANTS p1, p2
MCProcs == {p1, p2}
=============================================================================
