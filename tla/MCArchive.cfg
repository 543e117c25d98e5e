SPECIFICATION MCSpec
CONSTANTS
    Forms = {"wide", "long"}
    Occupants = {1, 2}
    NumSchemas = 2
    RestateEvery = 2
    Retention = 1
    MaxGap = 2
    MaxTime = 6
    Returns = FALSE
    a = a
    b = b
    Tenants = {a, b}
    MaxRows = 3
    MaxChanges = 3
    MaxOpens = 2
    MaxQueries = 1
    CacheSize = 1
    Ranges <- MCRanges
    BlockKeys = {1, 2, 3}
    Types = {1, 2}
    Sizes = {1, 2, 4}
    Budget = 3
    Readers = {1, 2}
    MaxPuts = 4
    LabelKeys = {"host", "__producer__"}
    MetaKeys = {"producer_name"}
    ProducerLabel = "__producer__"
    ProducerName = "producer_name"
    Texts = {1, 2}
    Removed = 0
    Absent = 9
    Epochs = {1, 2}
    Declarations <- MCDeclarations
    Assertions <- MCAssertions
    MaxOffers = 4
    MaxEdits = 1
PROPERTIES EditsSurvive
INVARIANTS ReadsAsAllDeclared EveryRunDecodes RetainsTheWindow RowsAreLabelled OpenIsAsFresh QueryIsExact AnswerIsTrue CachesKeepTheirBudget
SYMMETRY MCSymmetry
CHECK_DEADLOCK FALSE
