SPECIFICATION WVSpec
CONSTANTS
    t1 = t1
    t2 = t2
    Callers = {t1, t2}
    Kinds = {"exposed"}
    MaxCalls = 2
    MaxReads = 1
INVARIANT ExposedPairIsNotTorn
CHECK_DEADLOCK FALSE
