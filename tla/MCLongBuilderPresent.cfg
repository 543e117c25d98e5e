SPECIFICATION LBSpec
CONSTANTS
    t1 = t1
    a = a
    b = b
    NoLabels = NoLabels
    Threads = {t1}
    Labels = {a, b}
    NumGroups = 1
    NumSlots = 1
    MaxUid = 2
    Memberships = {"Present"}
    Mixed = FALSE
    MaxBuilds = 3
INVARIANTS ServesTheOccupant
CHECK_DEADLOCK FALSE
