\* The explorations, the bots, the sections of reports, the catalogue or the rate limits.
SPECIFICATION ActorsSpec
CONSTANTS
    Running = {"explore", "bots", "sections", "catalog", "limits"}
    u1 = u1
    pack = pack
    e1 = e1
    e2 = e2
    e3 = e3
    x1 = x1
    x2 = x2
    \* explore
    Users = {u1}
    Spends = {e1, e2, e3}
    Grants = {pack}
    Owner <- MCOwner
    Amount <- MCAmount
    MaxAmount = 1
    RefundReasons = {"failed_generation"}
    Txns = {"t1", "t2"}
    NoKey = NoKey
    \* bots
    Processes = {x1, x2}
    Updates = {e1, e2, e3}
    Missing = "missing"
    Earlier = "earlier"
    StartStages = {"none", "city"}
    MaxDeliveries = 4
    MaxLapses = 1
    \* sections
    Runs = {e1, e2, e3}
    Papers = {x1, x2}
    Parts = {"d1", "d2"}
    Slots = 2
    Conc = 2
    Attempts = 1
    Budget = 1
    Cap = 3
    \* catalog
    Starters = {x1, x2}
    PlanRows = {"credit3", "gold"}
    PriceRows = {"solar_return"}
    SeedCost <- MCSeedCost
    SeedSale <- MCSeedSale
    Costs = {1, 2}
    Ungated = {"rectify"}
    \* limits
    Servers = {x1, x2}
    Allowance = 1
    Window = 2
    Grace = 1
    Patience = 1
    LastTime = 3
    MaxCounted = 2
SYMMETRY Symmetric
INVARIANTS
    ActorTypesOK
    CreditsServed
    ConversationKept
    
    CatalogKept
    LimitsHeld
\* Every service may come to rest.
CHECK_DEADLOCK FALSE
