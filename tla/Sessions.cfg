SPECIFICATION Spec
CONSTANTS
    Requests = {r1, r2}
    Nobody = Nobody
    TokenLife = 1
    RefreshBefore = 0
    GuildTtl = 1
    MaxFetch = 1
    MaxPairs = 2
    MaxTime = 2
SYMMETRY Interchangeable
INVARIANTS SessionUsable
PROPERTIES LoggedOutStaysOut AdminWasRecent
CHECK_DEADLOCK FALSE
