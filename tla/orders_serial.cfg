\* One session, no sweep, one cancellation per order, no crash.
SPECIFICATION FairSpec
CONSTANTS
    o1 = o1
    o2 = o2
    c1 = c1
    Orders = {o1, o2}
    Coupons = {c1}
    NoCoupon = NoCoupon
    MaxUses <- TwoUses
    Requests = {"r1"}
    Admins = {"r1"}
    Sweepers = {}
    NoOrder = NoOrder
    MaxNok = 1
    CanCrash = FALSE
INVARIANTS
    OrdersAreExact
PROPERTIES
    OrdersSettle
\* Every order may be closed: then nothing is left to do.
CHECK_DEADLOCK FALSE
