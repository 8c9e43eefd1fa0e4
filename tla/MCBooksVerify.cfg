\* Verifications of the audit chain beside appends, and tables that somebody changes by hand;
\* a ledger file that two processes append to and one rotates; a factor that two services
\* sell to one buyer, with faults and crashes; three dispatches of a playbook in two
\* processes; every cron expression of a small calendar; two threads at a note and a summary;
\* two processes that search, one of which writes; backtests of four bars.
SPECIFICATION MCSpec
CONSTANTS
    w1 = w1
    w2 = w2
    w3 = w3
    v1 = v1
    p1 = p1
    p2 = p2
    s1 = s1
    s2 = s2
    b1 = b1
    b2 = b2
    b3 = b3
    e1 = e1
    e2 = e2
    e3 = e3
    x1 = x1
    x2 = x2
    g1 = g1
    g2 = g2
    n1 = n1
    j1 = j1
    h1 = h1
    h2 = h2
    Nobody = Nobody
    Writers = {w1, w2}
    Verifiers = {v1}
    Contents = {"a", "b"}
    Limits = {0, 1, 2}
    MaxId = 3
    Failures = TRUE
    Repairs = TRUE
    Processes = {p1, p2}
    Rotators = {p1}
    Tenants = {"a", "b"}
    FullAt = 2
    MaxAppends = 4
    Services = {s1, s2}
    Buyers = {b1, b2, b3}
    ServiceOf <- TwoServices
    MaxSales = 2
    MaxCalls = 3
    Schedulers = {e1, e2, e3}
    Sites = {x1, x2}
    SiteOf <- TwoSites
    MaxReleases = 1
    MaxRestarts = 1
    MonthDays <- TwoYears
    MonthsPerYear = 2
    HoursPerDay = 2
    MinutesPerHour = 2
    DaysPerWeek = 3
    Horizon = 4
    FieldParts <- Parts
    LastStart = 7
    Notes = {n1}
    Summaries = {j1}
    Texts = {"a", "b"}
    Authors = {g1, g2}
    NoAuthor = NoAuthor
    MaxNoteCalls = 3
    MaxMishaps = 2
    Searchers = {h1, h2}
    Recorders = {h1}
    CacheTtl = 1
    Slow = 1
    MaxWrites = 1
    Bars = 4
    Markets <- Prices
    Books <- Weightings
    Unit = 2
    CostRates = {0, 1}
    CostUnit = 8
    MaxLeverage = 2
    WindowShort = 1
    WindowLong = 3
    Asks <- Queries
SYMMETRY Connections
INVARIANTS
    VerdictIsRight
    
    SalesInv
    ScheduleInv
    
    BacktestInv
PROPERTIES
    CompensationIsOwn
CHECK_DEADLOCK FALSE
