\* One run, three workers, three tries: zombies of two earlier attempts.
SPECIFICATION Spec
CONSTANTS
    Runs = {r1}
    NoRun = NoRun
    Workers = {w1, w2, w3}
    NumSteps = 1
    Tries = {1, 3}
    Cancellable = {r1}
    HandlerRaises = TRUE
    DbFails = TRUE
    Crashes = TRUE
SYMMETRY WorkerSymmetry
INVARIANTS
    IInv
    OneHolder
    RetryBudget
    ResultIsFenced
    CheckpointsAgree
PROPERTIES
    CancelWins
    LiveLeaseIsRespected
    ImplementsLifecycle
CHECK_DEADLOCK FALSE
