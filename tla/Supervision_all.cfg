SPECIFICATION MCSpec
CONSTANTS
    c1 = c1
    c2 = c2
    m1 = m1
    m2 = m2
    Nobody = Nobody
    Clients = {c1, c2}
    Monitors = {m1, m2}
    Ops = {"start", "restart", "stop", "list", "rm", "rmf", "replace", "hold"}
    AutoRemove = TRUE
    MaxInodes = 4
INVARIANT TypeOK
INVARIANT SupervisionInv
INVARIANT SupervisorSafety
INVARIANT CleanEndKept
PROPERTY DeadRunSettled
