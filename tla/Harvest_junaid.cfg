CONSTANTS
    NumCats = 2
    Shelves <- MCShelves
    PerPage = 2
    MaxPages = 4
    MaxFailures = 3
    MaxSkippedPages = 3
    ForbiddenLimit = 3
    ThrottledLimit = 2
    MinCatBase = 1
    MinSourceBase = 3
    Targets <- MCTargets
    Pcs = {1, 2, 3, 4}
    Stores <- MCStores
    OldRows <- MCOldRows
    MaxListPages = 3
    GiveUpAfter = 3
    Threads = {t1, t2, t3}
    NoThread = NoThread
    Retries = 2
    MaxForbidden = 3
    MaxThrottled = 2
    MaxFetches = 2
    Kinds = {"woo", "junaid"}
SPECIFICATION MCSpec
INVARIANT OkMeansComplete
