\* One request at a time, no gold unit: what is left is the refund rule.
SPECIFICATION ForecastSpec
CONSTANTS
    u1 = u1
    aug = aug
    sep = sep
    year = year
    pack = pack
    chart = chart
    golden = golden
    p3m = p3m
    p12m = p12m
    Users = {u1}
    Spends = {aug, sep, year}
    Grants = {pack}
    Owner <- MCOwner
    Amount <- MCAmount
    MaxAmount = 3
    RefundReasons = {"qa"}
    Txns = {"t1"}
    NoKey = NoKey
    Charts = {chart}
    Products = {p3m, p12m}
    ChartOf <- MCChartOf
    ProductOf <- MCProductOf
    Narrated = 5
    GoldSold <- NoGold
INVARIANTS
    RefundCapped
\* Cached analyses and idle requests: the system may come to rest.
CHECK_DEADLOCK FALSE
