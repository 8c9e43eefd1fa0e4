\* Tool calls over both backends, with errors of the store, of the tool and crashes; two runs
\* of the loop on one thread of checkpoints, with a failing database; three appends beside a
\* client that resumes, and a tool call that is recorded twice; two operators of the kill
\* switch and a request at the gate; three consumptions of a quota, and two requests that are
\* charged to it; a window limiter with and without scripts; two token buckets; two readers
\* of the research page at two servers; two tickets that two bearers show to two servers; a
\* reconciliation beside two processes that append and one that rotates; two writers of two
\* snapshots that share a day, and a reader; two writers of a trace, with failures.
SPECIFICATION MCSpec
CONSTANTS
    c1 = c1
    c2 = c2
    c3 = c3
    c4 = c4
    h1 = h1
    h2 = h2
    q1 = q1
    q2 = q2
    a1 = a1
    a2 = a2
    a3 = a3
    m1 = m1
    m2 = m2
    o1 = o1
    o2 = o2
    r1 = r1
    u1 = u1
    u2 = u2
    u3 = u3
    k1 = k1
    k2 = k2
    d1 = d1
    d2 = d2
    v1 = v1
    v2 = v2
    s1 = s1
    s2 = s2
    y1 = y1
    y2 = y2
    z1 = z1
    z2 = z2
    l1 = l1
    l2 = l2
    i1 = i1
    i2 = i2
    pw1 = pw1
    pw2 = pw2
    pr1 = pr1
    tw1 = tw1
    tw2 = tw2
    Callers = {c1, c2, c3, c4}
    Nobody = Nobody
    Hosts = {h1, h2}
    HostOf <- TwoProcesses
    Deployments <- AllDeployments
    ToolRaises = TRUE
    Crashes = TRUE
    MaxExpiries = 2
    Runs = {q1, q2}
    MaxSeq = 2
    Ttl = 1
    MaxTime = 1
    Appenders = {a1, a2, a3}
    PageLimit = 1
    MaxPages = 3
    Repeats = {m1, m2}
    NoOne = NoOne
    Operators = {o1, o2}
    Requests = {r1}
    MaxEnables = 2
    Consumers = {u1, u2, u3}
    Amounts = {1, 2}
    Budget = 3
    MaxAsked = 6
    Clients = {u1, u2}
    MaxReruns = 1
    RateCallers = {k1, k2}
    Limit = 2
    SlidingWindow = 2
    LockTime = 2
    MaxNow = 3
    Drawers = {d1, d2}
    Capacity <- Buckets2
    PerTick <- Rates2
    Wanted = {1, 2}
    MaxClock = 4
    WebServers = {s1, s2}
    Visitors = {v1, v2}
    Nothing = Nothing
    MaxVisits = 3
    MaxTroubles = 2
    Tickets = {y1, y2}
    Servers = {z1, z2}
    Bearers = {l1, l2}
    MaxTickets = 1
    Processes = {i1, i2}
    Rotators = {i1}
    Tenants = {"a"}
    FullAt = 2
    MaxAppends = 3
    MaxReconciliations = 1
    Snapshots = {"x", "y"}
    DatesOf <- TwoWeeks
    KnowableAt = {Unstated, 3}
    PitWriters = {pw1, pw2}
    PitReaders = {pr1}
    LastDay = 3
    MaxDailies = 3
    MaxReads = 1
    Unstated = Unstated
    Absent = Absent
    Tracers = {tw1, tw2}
    MaxRecords = 3
    MaxSuffixes = 2
    MaxFailures = 2
SYMMETRY Exchanges
INVARIANTS
    OnceIfStoreDecides
    PaidIfPostgresDecides
    RepliesAreRight
    ConversationInv
    GateInv
    BudgetInv
    LimitsInv
    ShownInv
    ReportIsSound
PROPERTIES
    SettledWithinTTL
    CoveredIsKept
CHECK_DEADLOCK FALSE
