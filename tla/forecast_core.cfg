\* Two concurrent requests, two charts, one of them golden, two months, crashes.
SPECIFICATION ForecastSpec
CONSTANTS
    u1 = u1
    aug = aug
    sep = sep
    year = year
    pack = pack
    chart = chart
    golden = golden
    p3m = p3m
    p12m = p12m
    Users = {u1}
    Spends = {aug, sep, year}
    Grants = {pack}
    Owner <- MCOwner
    Amount <- MCAmount
    MaxAmount = 3
    RefundReasons = {"qa"}
    Txns = {"t1", "t2"}
    NoKey = NoKey
    Charts = {chart, golden}
    Products = {p3m, p12m}
    ChartOf <- TwoCharts
    ProductOf <- MCProductOf
    Narrated = 3
    GoldSold <- GoldOfOne
INVARIANTS
    DeliveredWasPaid
    LedgerMatchesBalance
PROPERTIES
    ImplementsAccount
\* Cached analyses and idle requests: the system may come to rest.
CHECK_DEADLOCK FALSE
