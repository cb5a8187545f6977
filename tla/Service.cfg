CONSTANTS
    p1 = p1
    p2 = p2
    p3 = p3
    opens1 = opens1
    opens2 = opens2
    Workers = {w1, w2}
    Clients = {x, y}
    Nobody = Nobody
    Limit = 2
    Window = 2
    PruneInterval = 3
    MaxClock = 6
    MaxChecks = 4
    Requests = {r1, r2}
    Slots = {"ram", "ssd"}
    Parts = {p1, p2}
    Unknown = Unknown
    Codes = {k1, k2}
    Tries = 2
    Quantities = {1, 2}
    Prices = {1, 2}
    NoPrice = NoPrice
    Orders <- MCOrders
    MaxChanges = 2
    Visitors = {v1, v2}
    Nil = Nil
    TTL = 2
    MaxTime = 5
    MaxRows = 2
    Group = {p1, p2, p3}
    MinBasket = 2
    TimesOfDay = 2
    PastDays = 3
    Pasts <- MCPasts
    Harvests <- MCHarvests
    MaxNow = 8
    MaxRuns = 2
    Procs = {opens1, opens2}
    Unlocked = Unlocked
    Programs <- MCPrograms
    Early <- MCEarly
    Late <- MCLate
    PriceColumn = "latest_price"
    Offers = {o}
    Rejected <- MCRejected
    MaxFaults = 1
    MaxCount = 4
SPECIFICATION MCSpec
SYMMETRY Alike
INVARIANT RefusedHadTheirShare
INVARIANT CapHoldsInOrder
INVARIANT SharedBuildComesBack
INVARIANT ServedIsFresh
INVARIANT RebuildLosesNothing
INVARIANT RetryPriceCounts
INVARIANT LevelsAreMeasured
INVARIANT OwnerFindsSchema
INVARIANT RejectionsAreKept
PROPERTY RaceHasAWinner
