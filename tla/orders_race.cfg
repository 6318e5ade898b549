\* Two request sessions, an admin, a sweep and crashes on two orders.
SPECIFICATION Spec
CONSTANTS
    o1 = o1
    o2 = o2
    c1 = c1
    Orders = {o1, o2}
    Coupons = {c1}
    NoCoupon = NoCoupon
    MaxUses <- OneUse
    Requests = {"r1", "r2"}
    Admins = {"a1"}
    Sweepers = {"w1"}
    NoOrder = NoOrder
    MaxNok = 2
    CanCrash = TRUE
INVARIANTS
    SlotsWithinLimit
    
\* Every order may be closed: then nothing is left to do.
CHECK_DEADLOCK FALSE
