SPECIFICATION LookupSpec
CONSTANTS
    Lookups = {k1, k2}
    Names = {ann}
    Gone = Gone
    MemTtl = 1
    RowTtl = 1
    MaxRetries = 1
    MaxDelay = 1
    MaxTime = 4
INVARIANTS AnswersAreRecent
PROPERTIES LookupsEnd
CHECK_DEADLOCK FALSE
