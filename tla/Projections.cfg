SPECIFICATION Spec
CONSTANTS
    Processes = {p1, p2}
    Responses <- MCResponses
    FreeTTL = 0
    MaxId = 3
    MaxNow = 1
SYMMETRY Interchangeable
CHECK_DEADLOCK FALSE
INVARIANTS
    TypeOK
    TablesFollowArchive
    Provenance
    IntentPaired
PROPERTIES
    NothingLost
    IdsNeverReused
    CacheNeverFallsBack
    PlannedGone
