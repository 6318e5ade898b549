\* The sweep run again and again, one request at a time.
SPECIFICATION Spec
CONSTANTS
    o1 = o1
    o2 = o2
    c1 = c1
    Orders = {o1, o2}
    Coupons = {c1}
    NoCoupon = NoCoupon
    MaxUses <- TwoUses
    Requests = {"r1"}
    Admins = {}
    Sweepers = {"r1"}
    NoOrder = NoOrder
    MaxNok = 0
    CanCrash = FALSE
INVARIANTS
    SlotsCounted
\* Every order may be closed: then nothing is left to do.
CHECK_DEADLOCK FALSE
