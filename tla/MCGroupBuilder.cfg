SPECIFICATION MCSpec
CONSTANTS
    t1 = t1
    t2 = t2
    a = a
    b = b
    NoLabels = NoLabels
    Threads = {t1, t2}
    Labels = {a, b}
    NumGroups = 2
    NumSlots = 2
    MaxUid = 3
    Memberships = {"All", "Slots"}
    Mixed = FALSE
    MaxBuilds = 3
    Families = {1}
    MaxMembers = 2
    NumStatic = 2
    Addresses = {1, 2}
    MaxNames = 2
    PlainSlots = {1, 2}
    MaxWideBuilds = 2
INVARIANTS GroupsAgree UidNeverReturns ServesTheOccupant KeyNamesOneOccupant EveryHandleOwnsItsSlot QuietBuildExact
CHECK_DEADLOCK FALSE
