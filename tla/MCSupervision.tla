---------------------------- MODULE MCSupervision ----------------------------
(* Supervision for TLC: its processes are model values.  The clients are    *)
(* alike, so of two different operations c1 has the one listed first: a      *)
(* behaviour in which c2 has it is one of these with the names exchanged.    *)
EXTENDS Supervision, TLC

CONSTANTS c1, c2, m1

\* What an earlier start leaves behind: a run is on under m1.  Both clients list it,
\* or one lists it while the other stops it.
UpInit ==
    /\ rec = Row("running", m1, TRUE) /\ cfgDir = TRUE
    /\ pidFile = 1 /\ inodes = 1 /\ sock = m1
    /\ lock = [i \in Inodes |-> IF i = 1 THEN m1 ELSE Nobody]
    /\ mpc = [m \in Monitors |-> IF m = m1 THEN "running" ELSE "unborn"]
    /\ mino = [m \in Monitors |-> IF m = m1 THEN 1 ELSE 0]
    /\ \/ op = [c \in Clients |-> "list"] /\ cpc = [c \in Clients |-> "begin"]
       \/ op = [c \in Clients |-> IF c = c1 THEN "stop" ELSE "list"]
          /\ cpc = [c \in Clients |-> IF c = c1 THEN "stop" ELSE "begin"]
    /\ seen = [c \in Clients |-> Gone] /\ owner = [c \in Clients |-> Nobody]
    /\ cino = [c \in Clients |-> 0]
    /\ late = [c \in Clients |-> FALSE] /\ died = [c \in Clients |-> FALSE]
    /\ progressed = [c \in Clients |-> FALSE] /\ fresh = [c \in Clients |-> TRUE]
    /\ result = [c \in Clients |-> "none"]

Listed == <<"none", "start", "restart", "stop", "list", "rm", "rmf", "replace", "hold">>
InOrder(o, p) == p = "none" \/ \E i, j \in DOMAIN Listed : i <= j /\ Listed[i] = o /\ Listed[j] = p

MCNext == Next /\ InOrder(op'[c1], op'[c2])
MCSpec == (Init \/ UpInit) /\ [][MCNext]_vars /\ \A c \in Clients : WF_vars(Client(c))
=============================================================================
