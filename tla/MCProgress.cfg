\* A breaker with three threads, calls that fail, are slow or never report, and then the
\* faults end; a run of the agent loop with two iterations and two tools; two sockets of one
\* user; a chain of two providers that fail up to three times.
SPECIFICATION MCFairSpec
CONSTANTS
    t1 = t1
    t2 = t2
    t3 = t3
    f1 = f1
    f2 = f2
    n1 = n1
    n2 = n2
    Threads = {t1, t2, t3}
    Window = 2
    OpenFor = 2
    HalfOpenMax = 2
    Percent = 50
    MaxEvents = 4
    MaxFaults = 4
    MaxIterations = 2
    MaxAttempts = 2
    TokenLimit = 4
    SpendLimit = 1
    MaxChunks = 2
    Tools = {f1, f2}
    SafeTools = {f1}
    Grounding = TRUE
    Sockets = {n1, n2}
    Timeout = 2
    MaxKeepalives = 1
    ChainLength = 2
    TripAfter = 2
    MaxTold = 3
    MaxLetDowns = 3
CHECK_DEADLOCK TRUE
INVARIANTS
    HalfOpenAllows
    
    
    
PROPERTIES
    OutageNotProlonged
    Recovers
    AgentEnds
    GhostsAreEvicted
