\* Two requests of any kind in flight, with a crash, on an order with two rejected
\* payments and a second order of the same customer.
SPECIFICATION FairSpec
CONSTANTS
    o1 = o1
    p1 = p1
    Nil = Nil
    Requests = {r1, r2}
    Orders = {o1, o2}
    Customers = {c1}
    Owner <- OneOwner
    Products = {p1}
    Prices = {990}
    ItemIds = {i1, i2, i3}
    Keys = {}
    MaxRequests = 2
    MaxHidden = 0
    MaxCrashes = 1
    Ops = {"create", "add", "remove", "confirm", "cancel", "initiate", "callback"}
    Given <- FailedGiven
    GivenItem <- FirstItem
    GivenProduct = p1
    GivenPrice = 990
INVARIANTS
    TypeOK
PROPERTIES
    EveryRequestEnds
