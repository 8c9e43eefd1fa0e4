\* Calls that come while the first probe is under way.
SPECIFICATION Spec
CONSTANTS
    t1 = t1
    t2 = t2
    t3 = t3
    Threads = {t1, t2, t3}
    Window = 2
    OpenFor = 2
    HalfOpenMax = 2
    Percent = 50
    MaxEvents = 4
    MaxFaults = 2
INVARIANTS
    ProbesAreLimited
