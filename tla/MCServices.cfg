\* Three appends beside each other, the first of the tenant included, connections that fail,
\* and a table that somebody changes behind the code; a client at the event stream of a run
\* with up to two attempts and two steps; two that ask for /ready, of a pool that two checks
\* at once exhaust.
SPECIFICATION MCFairSpec
CONSTANTS
    w1 = w1
    w2 = w2
    w3 = w3
    p1 = p1
    p2 = p2
    Nobody = Nobody
    Writers = {w1, w2, w3}
    Verifiers = {}
    Contents = {"a"}
    Limits = {0}
    MaxId = 4
    Failures = TRUE
    Repairs = TRUE
    WatchedTries = {1, 2}
    MaxAttemptsMade = 2
    MaxStepsDone = 2
    Probers = {p1, p2}
    Order <- TwoServices
    Databases = {"checkpoint"}
    Warnings = {"redis"}
    PoolSize = 4
    SelectWait = 1
    ProbeWait <- ProbeTimes
    Grace = 1
    CacheFor = 2
    HardBudget = 3
    MayFail = {"checkpoint"}
INVARIANTS
    Integrity
    ServingInv
PROPERTIES
    AppendOnly
    AppendsEnd
    ServingEnds
CHECK_DEADLOCK FALSE
