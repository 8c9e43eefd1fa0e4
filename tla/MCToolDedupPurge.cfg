\* The SQLite file: a waiting call deletes the record that another call has just rebuilt.
SPECIFICATION Spec
CONSTANTS
    c1 = c1
    c2 = c2
    c3 = c3
    c4 = c4
    h1 = h1
    h2 = h2
    Callers = {c1, c2, c3, c4}
    Nobody = Nobody
    Hosts = {h1, h2}
    HostOf <- TwoProcesses
    Deployments <- SqliteFile
    ToolRaises = FALSE
    Crashes = FALSE
    MaxExpiries = 1
INVARIANTS
    OneEffectPerExpiry
CHECK_DEADLOCK FALSE
