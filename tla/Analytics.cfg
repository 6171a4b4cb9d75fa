SPECIFICATION RecordsSpec
CONSTANTS
    Entries <- SomeEntries
    Filters <- SomeFilters
    PerPage = 1
    MaxRows = 4
    Hour = 1
    Day = 2
    Flushers = {f1, f2}
    Kinds <- SomeKinds
    MaxCounted = 2
    MaxFlushes = 2
    Week = 3
    Month = 4
    Periods = {"hour", "other"}
    TopUsers = 1
    TopTimes = 1
    EventWindow = 1
    EventSize = 2
    MaxTime = 4
    MaxPageTime = 2
    MaxReported <- SomeReported
    MaxReportTime <- SomeReportTimes
    Handlers = {h1, h2}
    MaxAppeals = 2
    Jobs = {x1, x2}
    Expiry = 1
    Sends = {n1, n2}
    Events = {e1, e2}
    DefaultEvents = {e1}
    MaxAttempts = 2
INVARIANT HeatmapCountsAll
SYMMETRY Symmetry
CHECK_DEADLOCK FALSE
