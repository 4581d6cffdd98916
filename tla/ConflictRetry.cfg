\* A callback and a cancellation of an order overlap after its payment was started.
SPECIFICATION Spec
CONSTANTS
    o1 = o1
    p1 = p1
    Nil = Nil
    Requests = {r1, r2}
    Orders = {o1}
    Customers = {c1}
    Owner <- OneOwner
    Products = {p1}
    Prices = {990}
    ItemIds = {i1, i2, i3}
    Keys = {}
    MaxRequests = 3
    MaxHidden = 0
    MaxCrashes = 0
    Ops = {"initiate", "callback", "cancel"}
    Given <- ConfirmedGiven
    GivenItem <- FirstItem
    GivenProduct = p1
    GivenPrice = 990
INVARIANTS
    ConflictCanBeRetried
