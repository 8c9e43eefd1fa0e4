\* Two runs compete for two workers that crash and handlers that raise.
SPECIFICATION FairSpec
CONSTANTS
    Runs = {r1, r2}
    NoRun = NoRun
    Workers = {w1, w2}
    NumSteps = 1
    Tries = {2}
    Cancellable = {}
    HandlerRaises = TRUE
    DbFails = FALSE
    Crashes = TRUE
PROPERTIES
    EveryRunSettles
CHECK_DEADLOCK FALSE
