SPECIFICATION MCSpec
CONSTANTS
    t1 = t1
    t2 = t2
    t3 = t3
    Threads = {t1, t2, t3}
    NumShards = 2
    MaxAdds = 3
    Callers = {t1, t2, t3}
    Kinds = {"scalar", "group", "histogram", "gauge_histogram", "exposed"}
    MaxCalls = 3
    MaxReads = 2
    Adders = {t1, t2, t3}
    Amounts = {0, 1, 3}
    Modulus = 8
    MaxWrites = 4
    s1 = s1
    s2 = s2
    Subs = {s1, s2}
    Layouts = {"wide"}
    Offers = {5, 8}
    Floor = 8
    Late = 1
    Stalls = {5}
    Steps <- MCSteps
    MaxTime = 21
    MaxReadings = 2
    MaxFaults = 1
    a = a
    b = b
    Occupants = {a, b}
    Hashes = {1, 2}
    Members <- MCMembers
    MaxKeys = 3
    MaxWindow = 4
    MaxFlight = 2
    MaxDrops = 1
SYMMETRY MCSymmetry
INVARIANTS LeasesExclusive NoShardLeaks PairedWithItsOwnWindow ReadsWhatWasWritten ReadsTheSum
INVARIANTS NeverServedTwice RowsWrittenExactly
PROPERTIES ReadBounded SeqIsEvidence
CHECK_DEADLOCK FALSE
