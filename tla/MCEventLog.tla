----------------------------- MODULE MCEventLog -----------------------------
(* Small instances of EventLog: every kind of subscription. *)
EXTENDS EventLog

Req(f, s, since, until) == [follow |-> f, fromStart |-> s, since |-> since, until |-> until]
EveryRequest == {Req(TRUE, FALSE, 0, 0), Req(TRUE, TRUE, 0, 0), Req(TRUE, FALSE, 4, 0),
                 Req(TRUE, FALSE, 0, 6), Req(FALSE, FALSE, 0, 0)}
=============================================================================
