\* PostgreSQL behind the asynchronous pool: every process decides alone.
SPECIFICATION Spec
CONSTANTS
    c1 = c1
    c2 = c2
    c3 = c3
    c4 = c4
    h1 = h1
    h2 = h2
    Callers = {c1, c2, c3, c4}
    Nobody = Nobody
    Hosts = {h1, h2}
    HostOf <- TwoProcesses
    Deployments <- AsyncPool
    ToolRaises = FALSE
    Crashes = FALSE
    MaxExpiries = 0
INVARIANTS
    NoSecondEffect
CHECK_DEADLOCK FALSE
