\* A zombie that finishes a step after its run was claimed again.
SPECIFICATION Spec
CONSTANTS
    Runs = {r1}
    NoRun = NoRun
    Workers = {w1, w2}
    NumSteps = 1
    Tries = {2}
    Cancellable = {}
    HandlerRaises = FALSE
    DbFails = FALSE
    Crashes = FALSE
PROPERTIES
    ZombieRecordsNothing
CHECK_DEADLOCK FALSE
