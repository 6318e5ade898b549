\* A reward that overlaps with a cash-out.
SPECIFICATION Spec
CONSTANTS
    a = a
    b = b
    o1 = o1
    o2 = o2
    o3 = o3
    o4 = o4
    q1 = q1
    q2 = q2
    q3 = q3
    NoUser = NoUser
    Users = {a, b}
    Orders = {o1, o2, o3, o4}
    Referred = {o1, o2, o3}
    Buyer <- MCBuyer
    ChartOwner <- MCBuyer
    Referrer <- MCReferrer
    Price <- MCPrice
    Reward <- MCReward
    Requests = {q1, q2, q3}
    Requester <- MCRequester
    Amount <- MCAmount
    MinWithdraw = 1
    Refundable = {o2}
    Overlapping = {o1, o3}
    MaxHops = 8
INVARIANTS
    NeverOverdrawn
\* All orders and requests come to an end.
CHECK_DEADLOCK FALSE
