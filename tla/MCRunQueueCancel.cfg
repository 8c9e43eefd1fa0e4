\* No crash, no error, one run: does an accepted cancel complete?
SPECIFICATION FairSpec
CONSTANTS
    Runs = {r1}
    NoRun = NoRun
    Workers = {w1}
    NumSteps = 2
    Tries = {1}
    Cancellable = {r1}
    HandlerRaises = FALSE
    DbFails = FALSE
    Crashes = FALSE
PROPERTIES
    CancelCompletes
CHECK_DEADLOCK FALSE
