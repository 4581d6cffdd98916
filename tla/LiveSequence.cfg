\* One request at a time, without crashes, on a confirmed order: up to seven
\* payments, callbacks and cancellations.
SPECIFICATION FairSpec
CONSTANTS
    o1 = o1
    p1 = p1
    Nil = Nil
    Requests = {r1}
    Orders = {o1}
    Customers = {c1}
    Owner <- OneOwner
    Products = {p1}
    Prices = {990}
    ItemIds = {i1, i2, i3}
    Keys = {}
    MaxRequests = 7
    MaxHidden = 0
    MaxCrashes = 0
    Ops = {"initiate", "callback", "cancel"}
    Given <- ConfirmedGiven
    GivenItem <- FirstItem
    GivenProduct = p1
    GivenPrice = 990
PROPERTIES
    BehavesAtomically
    RefusedOrderReleased
    ApprovalReachesOrder
