\* An append that commits between the SELECTs of verify.
SPECIFICATION ChainSpec
CONSTANTS
    w1 = w1
    w2 = w2
    w3 = w3
    v1 = v1
    Nobody = Nobody
    Writers = {w1, w2}
    Verifiers = {v1}
    Contents = {"a"}
    Limits = {0}
    MaxId = 3
    Failures = FALSE
    Repairs = FALSE
INVARIANTS
    NoFalseAlarm
CHECK_DEADLOCK FALSE
