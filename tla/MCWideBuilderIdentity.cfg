SPECIFICATION WBSpec
CONSTANTS
    Families = {2}
    MaxMembers = 1
    NumStatic = 2
    Addresses = {}
    MaxNames = 0
    PlainSlots = {1, 2}
    MaxWideBuilds = 2
INVARIANT QuietBuildExact
CHECK_DEADLOCK FALSE
