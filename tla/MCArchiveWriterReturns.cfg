SPECIFICATION Spec
CONSTANTS
    Forms = {"long"}
    Occupants = {1, 2}
    NumSchemas = 1
    RestateEvery = 2
    Retention = 1
    MaxGap = 2
    MaxTime = 8
    Returns = TRUE
INVARIANTS RowsAreLabelled
CHECK_DEADLOCK FALSE
