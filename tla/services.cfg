\* One of the services at a time.
SPECIFICATION ServicesSpec
CONSTANTS
    Running = {"wallet", "purchases", "subscriptions", "access", "llm", "login",
               "audio", "deletion", "content", "digests", "settings"}
    u1 = u1
    u2 = u2
    o1 = o1
    o2 = o2
    o3 = o3
    o4 = o4
    q1 = q1
    q2 = q2
    q3 = q3
    x1 = x1
    x2 = x2
    y1 = y1
    y2 = y2
    \* wallet: rewards to u1 overlap with everything else, the reward to u2 does not
    NoUser = NoUser
    Users = {u1, u2}
    Orders = {o1, o2, o3, o4}
    Referred = {o1, o2, o3}
    Buyer <- MCBuyer
    ChartOwner <- MCBuyer
    Referrer <- MCReferrer
    Price <- MCPrice
    Reward <- MCReward
    Requests = {q1, q2, q3}
    Requester <- MCRequester
    Amount <- MCAmount
    MinWithdraw = 1
    Refundable = {o2}
    Overlapping = {o1, o3}
    MaxHops = 8
    \* purchases
    Charts = {y1, y2}
    Actions = {"report_basic", "report_gold", "solar_return"}
    CreditPrice <- MCCreditPrice
    Purse = 3
    Buyers = {x1, x2}
    MaxReports = 3
    \* subscriptions
    SubOrders = {"o1", "o2"}
    Yearly = {"o2"}
    MonthTicks = 2
    YearTicks = 5
    LastTick = 4
    \* access
    People = {x1, x2}
    Leaves = {y1, y2}
    Plans = {"gold", "monthly", "credit3"}
    Extras = {"solar"}
    Shelf = 1
    Recent = 1
    MaxPapers = 1
    MaxDeals = 2
    MaxLinks = 1
    \* llm
    Calls = {x1, x2}
    ApiKeys = {"k1", "k2"}
    Providers = {"gateway", "pool", "zen"}
    Threshold = 2
    MaxInFlight = 1
    MaxCalls = 3
    \* login
    Visitors = {x1, x2}
    MaxAttempts = 3
    ReqLimit = 1
    MaxCodes = 2
    \* audio
    Listeners = {x1, x2}
    Speakers = {"w1", "w2"}
    MaxAudioJobs = 2
    \* deletion
    Reports = {x1, x2}
    MaxRetries = 1
    \* content
    Editors = {x1, x2}
    Words = {"x", "y"}
    MaxVersion = 3
    \* digests
    Batches = {"b1", "b2"}
    Subscribers = {"s1", "s2", "s3"}
    ChartOf <- MCChartOf
    ReaderOf <- MCReaderOf
    \* settings
    Hosts = {"h1", "h2"}
    Threads = {"t1", "t2", "t3"}
    HostOf <- MCHostOf
    Values = {"on", "off"}
    FromEnv = "env"
SYMMETRY SymmetricActors
INVARIANTS
    ServiceTypesOK
    
    
    AccessHeld
    
    GuessesBounded
    GeneratingHasJob
    FailClosed
    NothingIsLost
    SentOnce
    SavedIsUsed
PROPERTIES
    WalletImplementsAccount
    KeyPoolKept
\* Every service may come to rest.
CHECK_DEADLOCK FALSE
